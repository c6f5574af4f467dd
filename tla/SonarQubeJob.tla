----------------------------- MODULE SonarQubeJob -----------------------------
(***************************************************************************)
(* The sonarqube-connector job (connectors/sonarqube: ingest.py,            *)
(* ingest_entry.py, transform.py, transform_entry.py, resources/job.yml).   *)
(* Every half hour the ingest task pulls the issues the server reports and  *)
(* appends them to bronze; the transform task, which depends on it, reads   *)
(* the WHOLE bronze table, projects it and appends the result to            *)
(* silver.findings.  No high-water mark is persisted, so every run pulls    *)
(* everything again.  Either task can be lost at any point, also after it   *)
(* has appended, and is then retried from the top.                          *)
(*                                                                         *)
(* The append to bronze is done by the dlt REST source the entry notebook   *)
(* delegates to (external); the projection is transform() of transform.py.  *)
(* Row counts saturate at Many: a count of Many stands for two or more.     *)
(* The type, the project and the rule of an issue do not change here.       *)
(***************************************************************************)
EXTENDS Naturals, FiniteSets

CONSTANTS
    Issues,          \* SonarQube issue keys
    SecurityIssues,  \* those whose type is kept (BUG and VULNERABILITY)
    Natives,         \* native states [status, resolution, severity] of an issue
    NoResolution,    \* the null resolution
    Unreported,      \* the issue is not on the server
    StatusYml,       \* status.yml: composed keys -> canonical status
    SeverityYml,     \* severity.yml: native severities -> canonical ones
    MaxRetries,      \* max_retries of either task
    MaxFaults        \* bound on the task losses in a behaviour

Canonical == {"open", "confirmed", "resolved", "wontfix", "false_positive"}
Severities == {"info", "low", "medium", "high", "critical"}

ASSUME StatesAssumption ==
    /\ \A n \in Natives : DOMAIN n = {"status", "resolution", "severity"}
    /\ Unreported \notin Natives
    /\ \A key \in DOMAIN StatusYml : StatusYml[key] \in Canonical
    /\ \A key \in DOMAIN SeverityYml : SeverityYml[key] \in Severities
ASSUME IssuesAssumption ==
    /\ IsFiniteSet(Issues) /\ IsFiniteSet(Natives)
    /\ SecurityIssues \subseteq Issues
ASSUME LimitsAssumption == MaxRetries \in Nat /\ MaxFaults \in Nat

VARIABLES
    source,    \* source[i]: the native state the server reports for issue i
    had,       \* history: every <<issue, native state>> the server has reported
    steady,    \* history: the issues that have not changed since the run began
    bronze,    \* bronze[<<i, n>>]: rows of bronze_sonarqube.issues
    silver,    \* silver[<<i, s>>]: rows of silver.findings, by canonical standing
    task,      \* where the job stands
    retries,   \* retries used by the current task
    faults,    \* task losses so far
    todo,      \* issues the current ingest attempt has still to fetch
    batch      \* the bronze table as the current transform attempt read it

server  == <<source, had, steady>>
jobVars == <<bronze, silver, task, retries, faults, todo, batch>>
sonarVars == <<server, jobVars>>

Many == 2
Capped(n) == IF n > Many THEN Many ELSE n

BronzeKeys == Issues \X Natives
Empty == [key \in BronzeKeys |-> 0]

Waiting == {"idle", "delivered", "failed"}
Task == Waiting \union
        {"ingesting", "ingest_done", "ingest_lost",
         "transform", "projecting", "appended", "transform_lost"}

----------------------------------------------------------------------------
(* The projection. *)

\* The resolution refines the status where the lifecycle has ended.
ComposeStatusKey(n) ==
    IF n.resolution # NoResolution /\ n.status \in {"RESOLVED", "CLOSED", "REVIEWED"}
    THEN <<n.status, n.resolution>> ELSE <<n.status>>

\* Keys status.yml does not list are open.
NormalizeStatus(key) == IF key \in DOMAIN StatusYml THEN StatusYml[key] ELSE "open"

StatusOf(n) == NormalizeStatus(ComposeStatusKey(n))

\* Severities severity.yml does not list are medium.
SeverityCanonical(n) ==
    IF n.severity \in DOMAIN SeverityYml THEN SeverityYml[n.severity] ELSE "medium"

\* Both are data of each bronze version, and the projection of a version bears its own.
StandingOf(n) == <<StatusOf(n), SeverityCanonical(n)>>

\* The standings, canonical status and severity, that a row of silver.findings can have.
Standings == {StandingOf(n) : n \in Natives}

SilverKeys == Issues \X Standings

\* Mutant of Projected: code smells are not filtered out.
ProjectedAll(i, s) == {p \in Natives \X (1..Many) :
                          StandingOf(p[1]) = s /\ p[2] <= batch[<<i, p[1]>>]}

\* The rows transform() makes of issue i in standing s, one for each row of the
\* bronze table; types other than BUG and VULNERABILITY are filtered out.
Projected(i, s) == {p \in Natives \X (1..Many) :
                       i \in SecurityIssues /\ StandingOf(p[1]) = s /\ p[2] <= batch[<<i, p[1]>>]}

----------------------------------------------------------------------------
(* The server: issues appear and move through their lifecycle. *)

SonarInit ==
    /\ source = [i \in Issues |-> Unreported] /\ had = {} /\ steady = Issues
    /\ bronze = Empty /\ batch = Empty
    /\ silver = [key \in SilverKeys |-> 0]
    /\ task = "idle" /\ retries = 0 /\ faults = 0 /\ todo = {}

IssueChanges(i, n) ==
    /\ source[i] # n
    /\ source' = [source EXCEPT ![i] = n]
    /\ had' = had \union {<<i, n>>}
    /\ steady' = steady \ {i}
    /\ UNCHANGED jobVars

----------------------------------------------------------------------------
(* The job. *)

Reported == {i \in Issues : source[i] # Unreported}

\* Mutant of BeginIngest: only issues that moved since the last run are pulled,
\* a high-water mark taken from the wall clock instead of the records.
BeginIngestChanged ==
    /\ task' = "ingesting"
    /\ todo' = Reported \ steady
    /\ UNCHANGED <<source, had, bronze, silver, faults, batch>>

BeginIngest ==
    /\ task' = "ingesting"
    /\ todo' = Reported
    /\ UNCHANGED <<source, had, bronze, silver, faults, batch>>

\* The half-hourly schedule starts a run; a run that failed waits for the next.
CronFires == /\ task \in Waiting
             /\ BeginIngest /\ retries' = 0 /\ steady' = Issues

\* One record of the traversal lands in bronze.
Fetch(i) ==
    /\ task = "ingesting" /\ i \in todo
    /\ bronze' = [bronze EXCEPT ![<<i, source[i]>>] = Capped(@ + 1)]
    /\ todo' = todo \ {i}
    /\ UNCHANGED <<server, silver, task, retries, faults, batch>>

IngestDone ==
    /\ task = "ingesting" /\ todo = {}
    /\ task' = "ingest_done"
    /\ UNCHANGED <<server, bronze, silver, retries, faults, todo, batch>>

\* The dependent task starts only after ingest has succeeded.
StartTransform ==
    /\ task = "ingest_done"
    /\ task' = "transform" /\ retries' = 0
    /\ UNCHANGED <<server, bronze, silver, faults, todo, batch>>

\* Mutant of ReadBronze: only the rows of the present states are taken.
ReadBronzeLatest ==
    /\ task = "transform"
    /\ batch' = [key \in BronzeKeys |-> IF source[key[1]] = key[2] THEN bronze[key] ELSE 0]
    /\ task' = "projecting"
    /\ UNCHANGED <<server, bronze, silver, retries, faults, todo>>

ReadBronze ==
    /\ task = "transform"
    /\ batch' = bronze
    /\ task' = "projecting"
    /\ UNCHANGED <<server, bronze, silver, retries, faults, todo>>

\* Mutant of Append: a MERGE by finding_id, which keeps one row of a finding.
AppendMerged ==
    /\ task = "projecting"
    /\ \E kept \in [Issues -> Standings] :
          /\ \A i \in Issues : Projected(i, kept[i]) # {} \/ \A s \in Standings : Projected(i, s) = {}
          /\ silver' = [key \in SilverKeys |->
                           IF key[2] = kept[key[1]] /\ Projected(key[1], key[2]) # {} THEN 1 ELSE 0]
    /\ task' = "appended" /\ batch' = Empty
    /\ UNCHANGED <<server, bronze, retries, faults, todo>>

Append ==
    /\ task = "projecting"
    /\ silver' = [key \in SilverKeys |->
                     Capped(silver[key] + Cardinality(Projected(key[1], key[2])))]
    /\ task' = "appended" /\ batch' = Empty
    /\ UNCHANGED <<server, bronze, retries, faults, todo>>

Deliver ==
    /\ task = "appended"
    /\ task' = "delivered"
    /\ UNCHANGED <<server, bronze, silver, retries, faults, todo, batch>>

TaskLost ==
    /\ faults < MaxFaults
    /\ \/ task = "ingesting" /\ task' = "ingest_lost"
       \/ task \in {"transform", "projecting", "appended"} /\ task' = "transform_lost"
    /\ faults' = faults + 1
    /\ todo' = {} /\ batch' = Empty
    /\ UNCHANGED <<server, bronze, silver, retries>>

RetryIngest == /\ task = "ingest_lost" /\ retries < MaxRetries
               /\ BeginIngest /\ retries' = retries + 1 /\ UNCHANGED steady

RetryTransform ==
    /\ task = "transform_lost" /\ retries < MaxRetries
    /\ task' = "transform" /\ retries' = retries + 1
    /\ UNCHANGED <<server, bronze, silver, faults, todo, batch>>

\* Mutant of RunFails: the retries of one task count against the job for good.
RunFailsForGood ==
    /\ task \in {"ingest_lost", "transform_lost"} /\ retries = MaxRetries
    /\ task' = "dead"
    /\ UNCHANGED <<server, bronze, silver, retries, faults, todo, batch>>

\* When ingest is out of retries the transform of the run does not execute.
RunFails ==
    /\ task \in {"ingest_lost", "transform_lost"} /\ retries = MaxRetries
    /\ task' = "failed"
    /\ UNCHANGED <<server, bronze, silver, retries, faults, todo, batch>>

FetchSome == \E i \in Issues : Fetch(i)
ServerStep == \E i \in Issues, n \in Natives : IssueChanges(i, n)

JobStep == \/ CronFires \/ FetchSome \/ IngestDone \/ StartTransform \/ ReadBronze
           \/ Append \/ Deliver \/ RetryIngest \/ RetryTransform \/ RunFails

SonarNext == ServerStep \/ JobStep \/ TaskLost

SonarSpec == SonarInit /\ [][SonarNext]_sonarVars

\* The schedule keeps firing and the platform keeps running what it started;
\* MaxFaults bounds how often a task is lost.
SonarFairSpec == SonarSpec /\ WF_sonarVars(JobStep)

----------------------------------------------------------------------------
(* Properties. *)

\* Every variable has its type.
SonarTypeOK ==
    /\ source \in [Issues -> Natives \union {Unreported}]
    /\ had \subseteq BronzeKeys /\ steady \subseteq Issues
    /\ bronze \in [BronzeKeys -> 0..Many] /\ batch \in [BronzeKeys -> 0..Many]
    /\ silver \in [SilverKeys -> 0..Many]
    /\ task \in Task /\ retries \in 0..MaxRetries /\ faults \in 0..MaxFaults
    /\ todo \subseteq Issues

\* Every row of silver.findings goes back to a security issue that the server
\* has reported in one native state that normalizes to the status and to the
\* severity of the row.
FindingsHaveEvidence ==
    \A i \in Issues, s \in Standings :
        silver[<<i, s>>] > 0 =>
            i \in SecurityIssues /\ \E n \in Natives : <<i, n>> \in had /\ StandingOf(n) = s

\* A run that is reported as delivered has put the state of every security
\* issue that stood still into silver, whatever was lost and retried on the way.
RunDelivers ==
    task = "delivered" =>
        \A i \in SecurityIssues \intersect Reported \intersect steady :
            silver[<<i, StandingOf(source[i])>>] > 0

\* Nothing that any ingest has landed stays behind in bronze: a delivered run has
\* put every state found there into silver, also what an earlier run fetched
\* before it failed for good (suppression-rules.md:5-6, "every finding the
\* connectors ever ingested stays in silver.findings").
NothingStaysInBronze ==
    task = "delivered" =>
        \A i \in SecurityIssues, n \in Natives :
            bronze[<<i, n>>] > 0 => silver[<<i, StandingOf(n)>>] > 0

\* A security issue the server goes on reporting in one state reaches silver in
\* that state, although runs fail and are retried.
EveryIssueArrives ==
    \A i \in SecurityIssues, n \in Natives :
        source[i] = n ~> source[i] # n \/ silver[<<i, StandingOf(n)>>] > 0
=============================================================================
