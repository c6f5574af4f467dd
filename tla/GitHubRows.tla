------------------------------ MODULE GitHubRows ------------------------------
(***************************************************************************)
(* The projections of GitHub's three alert streams in connectors/github/    *)
(* transform.py: code scanning, secret scanning and Dependabot.             *)
(***************************************************************************)
EXTENDS SilverRows

GitHubSeverityYml == [critical |-> {"critical"}, high |-> {"high", "error"},
                      medium |-> {"medium", "warning"}, low |-> {"low", "note"}]

GitHubStatusYml ==
    [open           |-> {<<"open">>},
     resolved       |-> {<<"closed">>, <<"fixed">>, <<"resolved">>, <<"resolved", "revoked">>},
     wontfix        |-> {<<"dismissed">>, <<"auto_dismissed">>, <<"resolved", "wont_fix">>}
                        \union ({"dismissed"} \X {"no_bandwidth", "tolerable_risk", "not_used"}),
     false_positive |-> ({"dismissed"} \X {"false_positive", "inaccurate"})
                        \union ({"resolved"} \X {"false_positive", "used_in_tests"})]

\* A severity that code scanning leaves out is "medium"; one it names, be it the
\* empty one, goes by the file.
SeverityOrMedium(native) ==
    IF native = Null THEN "medium" ELSE NormalizeSeverity(native, GitHubSeverityYml)

\* Of Dependabot's, the empty one is "medium" too.
TruthySeverityOrMedium(native) ==
    IF native \in {Null, ""} THEN "medium" ELSE NormalizeSeverity(native, GitHubSeverityYml)

ComposeStatusKey(state, resolution) ==
    IF state = Null \/ resolution = Null THEN <<Or(state, "")>> ELSE <<state, resolution>>

\* The columns of _dedup_key_for.
GitHubDedupKey(row) ==
    CASE row.category = "sast" ->
            <<row.repository_id, row.file_path, row.start_line, row.rule_id_native>>
      [] row.category = "secret" ->
            <<row.repository_id, row.secret_type, row.file_path, row.start_line>>
      [] row.category = "sca" -> <<row.repository_id, row.package_name, row.cve_id>>
      [] OTHER -> <<row.finding_id>>

\* What the three streams have in common; none names a CWE.
AlertFinding(repo, r, stream, own) ==
    [FindingRow(own) EXCEPT
        !.finding_id = <<stream, repo, r.number>>, !.tool_source = "github",
        !.repository_id = repo, !.url = r.html_url, !.first_seen_at = r.created_at,
        !.last_seen_at = r.updated_at, !.trigger_context = "periodic"]

\* The bare state decides, whatever the reason it was dismissed for.
CodeScanningAlertToFinding(repo, r) ==
    AlertFinding(repo, r, "github-code",
        [category |-> "sast", severity_canonical |-> SeverityOrMedium(r.severity),
         status_canonical |-> NormalizeStatus(<<r.state>>, GitHubStatusYml),
         rule_id_native |-> r.rule, file_path |-> r.path, start_line |-> r.line])

\* The resolution refines the state; every secret is "high".
SecretScanningAlertToFinding(repo, r) ==
    AlertFinding(repo, r, "github-secret",
        [category |-> "secret", severity_canonical |-> "high",
         status_canonical |->
             NormalizeStatus(ComposeStatusKey(r.state, r.resolution), GitHubStatusYml),
         rule_id_native |-> r.secret_type, secret_type |-> r.secret_type,
         file_path |-> r.path, start_line |-> r.line])

\* An advisory without a CVE goes by the number of the alert.
DependabotAlertToFinding(repo, r) ==
    AlertFinding(repo, r, "github-dependabot",
        [category |-> "sca", severity_canonical |-> TruthySeverityOrMedium(r.severity),
         status_canonical |-> NormalizeStatus(<<r.state>>, GitHubStatusYml),
         rule_id_native |-> IF r.cve_id = Null THEN <<"GHSA-", r.number>> ELSE r.cve_id,
         package_name |-> r.package, cve_id |-> r.cve_id])
=============================================================================
