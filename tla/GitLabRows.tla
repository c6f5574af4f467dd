------------------------------ MODULE GitLabRows ------------------------------
(***************************************************************************)
(* The projection of a row of GitLab's Vulnerabilities API in               *)
(* connectors/gitlab/transform.py.  Severity and state stay native in the   *)
(* row: its callers look them up.                                           *)
(***************************************************************************)
EXTENDS SilverRows

GitLabSeverityYml == [critical |-> {"critical"}, high |-> {"high"}, medium |-> {"medium"},
                      low |-> {"low", "info", "unknown"}]
GitLabStatusYml == [open |-> {"detected"}, confirmed |-> {"confirmed"},
                    false_positive |-> {"dismissed"}, resolved |-> {"resolved"}]

ReportTypeToCategory(report) ==
    CASE report = "secret_detection"    -> "secret"
      [] report = "dependency_scanning" -> "sca"
      [] report = "container_scanning"  -> "container"
      [] report = ""                    -> "other"
      [] OTHER                          -> report

\* The id of an identifier, or its name if it has none; a name is the prefix it
\* has and the text behind it.
ValueOf(identifier) ==
    IF identifier.external_id # Null THEN identifier.external_id ELSE identifier.name

\* The first CWE with a value, prefixed unless it is already.
GitLabCwe(r) ==
    LET first == FirstOf(r.identifiers, LAMBDA i : i.external_type = "cwe" /\ ValueOf(i) # Null)
    IN  IF first = Null THEN Null ELSE <<"CWE-", ValueOf(first).text>>

\* The CVE of the row, or that of the first identifier of the type.
GitLabCve(r) ==
    LET first == FirstOf(r.identifiers, LAMBDA i : i.external_type = "cve")
    IN  CASE r.cve # Null -> r.cve
          [] r.cve = Null /\ first = Null -> Null
          [] r.cve = Null /\ first # Null -> ValueOf(first).text

GitLabDedupKey(row) ==
    CASE row.category \in {"sast", "secret"} ->
            <<row.repository_id, row.file_path, row.start_line, row.rule_id_native>>
      [] row.category = "sca" -> <<row.repository_id, row.package_name, row.cve_id>>
      [] OTHER -> <<row.finding_id>>

VulnerabilityToFinding(project, r) ==
    FindingRow([finding_id |-> <<"gitlab-vuln", r.id>>, tool_source |-> "gitlab",
                category |-> ReportTypeToCategory(Or(r.report_type, "")),
                severity_native |-> r.severity, status_native |-> r.state,
                cwe_id |-> GitLabCwe(r), cve_id |-> GitLabCve(r), rule_id_native |-> r.name,
                repository_id |-> project, file_path |-> r.file, start_line |-> r.line,
                package_name |-> r.package, trigger_context |-> "periodic",
                first_seen_at |-> r.created_at, last_seen_at |-> r.updated_at])
=============================================================================
