----------------------------- MODULE MCInventoryFeeds -----------------------------
(***************************************************************************)
(* An instance of InventoryFeeds: flaws of every kind, in a project on      *)
(* GitLab and a repository on GitHub with the same number, with and without *)
(* CWE and CVE; two vulnerabilities of one package that have no CVE.  The   *)
(* clock of the CMDB goes back at instant 1.                                *)
(***************************************************************************)
EXTENDS InventoryFeeds

GitHubRepo == [scm |-> "github", node |-> "node", number |-> "7", name |-> "owner/repo"]
GitLabRepo == [scm |-> "gitlab", node |-> "",     number |-> "7", name |-> "group/project"]
MCRepositories == {GitHubRepo, GitLabRepo}

Flaw(name, kind, repo, rule, cwe, cve) ==
    [name |-> name, kind |-> kind, repo |-> repo, file |-> "path",
     package |-> "package", rule |-> rule, cwe |-> cwe, cve |-> cve]

MCFlaws == {Flaw("n1", "code", GitLabRepo, "rule1", "79", Null),
            Flaw("n2", "code", GitHubRepo, "rule1", Null, Null),
            Flaw("n3", "dependency", GitLabRepo, "rule3", Null, "CVE-2024-0001"),
            Flaw("n4", "dependency", GitHubRepo, "rule4", "79", Null),
            Flaw("n5", "dependency", GitHubRepo, "rule5", Null, Null),
            Flaw("n6", "secret", GitHubRepo, "rule6", Null, Null),
            Flaw("n7", "page", GitHubRepo, "rule7", "79", Null),
            Flaw("n8", "event", GitHubRepo, "rule8", Null, Null)}
=============================================================================
