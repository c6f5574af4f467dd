------------------------------ MODULE MCGoldTables ------------------------------
(***************************************************************************)
(* An instance of GoldTables: a first pull of five resolved findings, later *)
(* ones of single findings, so that a group comes to hold up to twelve      *)
(* rows; two tools that report the same open issue at different severities, *)
(* a finding without CWE and repository, one linked repository.             *)
(***************************************************************************)
EXTENDS GoldTables, OwaspTop10

Finding(id, tool, repo, cwe, severity, status, first, last) ==
    [finding_id |-> id, tool_source |-> tool, category |-> "sast",
     severity_canonical |-> severity, status_canonical |-> status,
     cwe_id |-> cwe, cve_id |-> Null, rule_id_native |-> "rule",
     repository_id |-> repo, file_path |-> "path", start_line |-> 1, url |-> Null,
     first_seen_at |-> first, last_seen_at |-> last]

Resolved(i) == Finding(i, "sonarqube", "r1", Null, "high", "resolved", -i, 0)

OpenSonar   == Finding(11, "sonarqube", "r1", "CWE-79", "medium", "open", 1, 1)
OpenSemgrep == Finding(12, "semgrep", "r1", "CWE-79", "high", "open", 0, 2)
NoRepo      == Finding(13, "semgrep", Null, Null, "high", "open", 1, 1)
LateFix     == Finding(14, "sonarqube", "r1", "CWE-89", "high", "resolved", -3, 1)

MCBatches  == {{Resolved(i) : i \in 1..5}, {OpenSonar}, {OpenSemgrep, NoRepo}, {LateFix}}
MCFindings == UNION MCBatches
MCLinkRows == {[application_id |-> "a1", repository_id |-> "r1", link_source |-> "name_match"]}

MCValues    == {"r1", "a1", "sonarqube", "semgrep", UNMAPPED}
MCScopes    == {"tool_source", "repository_id", "application_id"}
MCCallSites == {MCScopes}
MCNoneBelow == [b \in MCValues |-> {}]
Literal(b)  == [form |-> "literal", base |-> b]
MCMutes     == {<<"tool_source", Literal("sonarqube")>>, <<"repository_id", Literal("a1")>>,
                <<"application_id", Literal("a1")>>}
=============================================================================
