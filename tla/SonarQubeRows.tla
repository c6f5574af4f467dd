----------------------------- MODULE SonarQubeRows -----------------------------
(***************************************************************************)
(* The two projections of a SonarQube issue in connectors/sonarqube/        *)
(* transform.py: issues_to_silver, which the tests exercise, and transform, *)
(* the Spark plan the job runs.  Each gives the set of rows of one issue,   *)
(* empty or of one element.  A component is the sequence of the parts that  *)
(* its first colon separates, or Null.                                      *)
(***************************************************************************)
EXTENDS SilverRows

SonarSeverityYml == [critical |-> {"BLOCKER"}, high |-> {"CRITICAL"}, medium |-> {"MAJOR"},
                     low |-> {"MINOR", "INFO"}]

SonarStatusYml ==
    [open           |-> {<<"OPEN">>, <<"REOPENED">>, <<"TO_REVIEW">>},
     confirmed      |-> {<<"CONFIRMED">>},
     resolved       |-> ({"RESOLVED", "CLOSED"} \X {"FIXED", "REMOVED"})
                        \union {<<"REVIEWED", "FIXED">>},
     false_positive |-> ({"RESOLVED", "CLOSED"} \X {"FALSE-POSITIVE"})
                        \union {<<"REVIEWED", "SAFE">>},
     wontfix        |-> ({"RESOLVED", "CLOSED"} \X {"WONTFIX"})
                        \union {<<"REVIEWED", "ACKNOWLEDGED">>}]

SilverTypes == {"BUG", "VULNERABILITY"}

\* Mutant of SonarStatusKey: the resolution is left out.
SonarStatusKeyBare(status, resolution) == <<status>>

\* The resolution refines a status that ends the lifecycle.
SonarStatusKey(status, resolution) ==
    IF resolution # Null /\ status \in {"RESOLVED", "CLOSED", "REVIEWED"}
    THEN <<status, resolution>> ELSE <<status>>

\* What both projections fill in.
SonarFinding(r, severity) ==
    FindingRow([finding_id |-> <<r.key>>, tool_source |-> "sonarqube", category |-> "sast",
                severity_canonical |-> severity,
                status_canonical |->
                    NormalizeStatus(SonarStatusKey(r.status, r.resolution), SonarStatusYml),
                rule_id_native |-> r.rule, trigger_context |-> "periodic",
                repository_id |-> IF r.component = Null THEN Null ELSE r.component[1],
                file_path |-> IF r.component # Null /\ Len(r.component) = 2
                              THEN r.component[2] ELSE Null,
                start_line |-> r.line,
                first_seen_at |-> r.creationDate, last_seen_at |-> r.updateDate])

SplitsInTwo(r) == r.component # Null /\ Len(r.component) = 2

\* Skips code smells, components without a colon and issues without dates; an
\* unknown severity is "info".
IssuesToSilver(r) ==
    IF r.type # "CODE_SMELL" /\ SplitsInTwo(r) /\ r.creationDate # Null /\ r.updateDate # Null
    THEN {SonarFinding(r, NormalizeSeverity(r.severity, SonarSeverityYml))}
    ELSE {}

\* Mutant of SonarTransform: it takes whatever is no code smell.
SonarTransformOthers(r) ==
    IF r.type # "CODE_SMELL"
    THEN {SonarFinding(r, Lookup(SonarSeverityYml, r.severity, "medium"))} ELSE {}

\* Keeps bugs and vulnerabilities whatever they lack; an unknown severity is
\* "medium".
SonarTransform(r) ==
    IF r.type \in SilverTypes
    THEN {SonarFinding(r, Lookup(SonarSeverityYml, r.severity, "medium"))} ELSE {}

\* dedup_key_for: neither line nor tool.
SonarDedupKey(row) == <<row.repository_id, row.file_path, row.rule_id_native>>
=============================================================================
