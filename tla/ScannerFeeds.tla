------------------------------ MODULE ScannerFeeds ------------------------------
(***************************************************************************)
(* What the connectors' projections make of one world.  Flaws are moved by  *)
(* edits, confirmed, dismissed, fixed and reopened; the tools               *)
(* report them, each in its own words, and what they report lands in        *)
(* bronze, where it stays.  A row of silver is the projection of what has   *)
(* landed, so this module relates the rows that different tools, formats,   *)
(* pipelines and moments yield for one flaw, and for different ones.        *)
(*                                                                         *)
(* The reports are the tools' business and modelled from what the           *)
(* projections read of them.  quirk is the form that a report takes where   *)
(* the tools, or their versions and settings, differ.                       *)
(***************************************************************************)
EXTENDS SonarQubeRows, ZapRows, SemgrepRows, GitHubRows, GitLabRows, DependencyTrackRows,
        TruffleHogRows, WafRows

INSTANCE FindingKeys

CONSTANTS
    Flaws,         \* records: name, kind, repo, file, package, rule, cwe, cve; a
                   \* repo is a record: scm, node, number, name
    MaxEvents,     \* bound on what happens to the flaws
    MaxReports     \* bound on the reports that land

ASSUME FeedsAssumption == MaxEvents \in Nat /\ MaxReports \in Nat

\* What projections and reports spell out is text.
ASSUME LiteralsAssumption ==
    {"", " ", "open", "confirmed", "resolved", "false_positive", "wontfix", "dismissed", "fixed",
     "auto_dismissed", "wont_fix", "used_in_tests", "revoked", "FALSE-POSITIVE", "FIXED", "critical",
     "high", "medium", "low", "info", "sonarqube", "semgrep", "github", "gitlab", "dependency_track",
     "trufflehog", "owasp_zap", "aws_waf", "sast", "sca", "secret", "secrets", "dast", "waf",
     "dependency_scanning", "periodic", "cicd", "live-traffic", "sha", "CWE-", "CWE:", "SECURITY",
     "other", "cwe", "cve", "CVE", "GHSA", "GHSA-", "NVD", "OSV", "UNKNOWN", "github-code",
     "github-secret", "github-dependabot", "gitlab-vuln", "dependency-track", "https", "ssh", "port",
     "token", "port/", "token@host/",
     "site", "host", "target", "Medium", "0", "-1", "acl"} \subseteq STRING

\* NULL is no text, no number and nothing that reports and columns compose of them.
ASSUME NullAssumption ==
    LET Plain == STRING \union Nat
        Text  == [prefix : STRING, text : STRING]
        Url   == [scheme : STRING, colon : STRING, path : STRING, git : BOOLEAN]
        Tag   == [prefix : STRING, text : STRING, isdigit : BOOLEAN]
    IN  /\ Null \notin Plain /\ Null \notin Seq(Plain \union Seq(Plain) \union Url)
        /\ Null \notin Text /\ Null \notin Url
        /\ Null \notin Tag /\ Null \notin [id : STRING, tags : Seq(Tag)]
        /\ Null \notin [kind : STRING, text : STRING] /\ Null \notin [text : BOOLEAN, value : STRING]
        /\ Null \notin [word : STRING, glued : BOOLEAN]
        /\ Null \notin [text : STRING \union {Null}, padded : BOOLEAN]
        /\ Null \notin [external_type : STRING, name : Text, external_id : Text \union {Null}]

\* Every tool names rule and place; whether there is a CWE or CVE depends.
ASSUME FlawsAssumption ==
    \A f \in Flaws :
        /\ f.kind \in {"code", "dependency", "secret", "page", "event"}
        /\ {f.name, f.file, f.package, f.rule} \subseteq STRING \ {""} /\ f.rule # "other"
        /\ {f.cwe, f.cve} \subseteq STRING \union {Null}
        /\ f.repo.scm \in {"github", "gitlab"}
        /\ {f.repo.node, f.repo.number, f.repo.name} \subseteq STRING

\* What a vulnerability of a dependency is known by.
Advisory(f) == IF f.cve = Null THEN f.rule ELSE f.cve

\* A tool numbers its alerts and raises one of a rule for a page, and an advisory
\* names one vulnerability of a package.
ASSUME NamesAssumption ==
    \A f, g \in Flaws : f # g =>
        /\ f.name # g.name
        /\ f.kind = "page" /\ g.kind = "page" => <<f.rule, f.file>> # <<g.rule, g.file>>
        /\ f.kind = "dependency" /\ g.kind = "dependency" =>
              <<f.repo, f.package, Advisory(f)>> # <<g.repo, g.package, Advisory(g)>>

\* The forms a report of each feed takes.
Quirks ==
    [sonarqube        |-> {"issue", "reopened", "hotspot", "undated", "whole_project", "unrated"},
     semgrep_json     |-> {"titled"},
     semgrep_sarif    |-> {"indexed", "by_name", "colon_tag"},
     github_code      |-> {"rated", "unrated"},
     github_secret    |-> {"false_positive", "wont_fix", "used_in_tests"},
     dependabot       |-> {"reviewed", "auto"},
     gitlab           |-> {"external_id", "name"},
     dependency_track |-> {"nvd", "osv", "triaged", "unscored", "suppressed"},
     trufflehog       |-> {"https", "ssh", "port", "token"},
     owasp_zap        |-> {"plain", "nameless", "padded", "glued", "unclassified"},
     aws_waf          |-> {"BLOCK", "COUNT", "RATE_LIMIT"}]
Feeds == DOMAIN Quirks

Reports(flaw) ==
    CASE flaw.kind = "code"       -> {"sonarqube", "semgrep_json", "semgrep_sarif"}
                                     \union (IF flaw.repo.scm = "github" THEN {"github_code"} ELSE {"gitlab"})
      [] flaw.kind = "dependency" -> {"dependency_track"}
                                     \union (IF flaw.repo.scm = "github" THEN {"dependabot"} ELSE {"gitlab"})
      [] flaw.kind = "secret"     -> {"github_secret", "trufflehog"}
      [] flaw.kind = "page"       -> {"owasp_zap"}
      [] flaw.kind = "event"      -> {"aws_waf"}

\* These keep a lifecycle; the others report what they still find.
Trackers == {"sonarqube", "github_code", "github_secret", "dependabot", "gitlab",
             "dependency_track"}

\* Of these, the ones with a state for a flaw that somebody has found to be real.
Confirming == {"sonarqube", "gitlab", "dependency_track"}
States == {"open", "confirmed", "dismissed", "fixed"}

\* What silver.repositories knows a repository by.  The connectors' pages have
\* operators use it as project key, artefact segment and project property.
Id(repo) == IF repo.scm = "github" THEN repo.node ELSE repo.number

VARIABLES
    flaws,     \* flaws[f]: its state and its line
    bronze,    \* the reports that have landed
    events     \* what has happened to the flaws so far

feedVars == <<flaws, bronze, events>>

----------------------------------------------------------------------------
(* The reports, in the words of each source. *)

In(state, open, confirmed, dismissed, fixed) ==
    CASE state = "open"      -> open
      [] state = "confirmed" -> confirmed
      [] state = "dismissed" -> dismissed
      [] state = "fixed"     -> fixed

\* A hotspot is reviewed where an issue is resolved, and has no state for confirmed.
SonarIssue(s) ==
    LET hotspot == s.quirk = "hotspot"
    IN  [key |-> s.flaw.name, rule |-> s.flaw.rule, line |-> s.line,
         type |-> IF hotspot THEN "SECURITY_HOTSPOT" ELSE "BUG",
         severity |-> IF s.quirk = "unrated" THEN "UNRATED" ELSE "MAJOR",
         status |-> IF hotspot THEN In(s.state, "TO_REVIEW", "TO_REVIEW", "REVIEWED", "REVIEWED")
                    ELSE In(s.state, IF s.quirk = "reopened" THEN "REOPENED" ELSE "OPEN",
                            "CONFIRMED", "RESOLVED", "CLOSED"),
         resolution |-> In(s.state, Null, Null, IF hotspot THEN "SAFE" ELSE "FALSE-POSITIVE", "FIXED"),
         component |-> IF s.quirk = "whole_project" THEN <<Id(s.flaw.repo)>>
                       ELSE <<Id(s.flaw.repo), s.flaw.file>>,
         creationDate |-> IF s.quirk = "undated" THEN Null ELSE 0, updateDate |-> 1]

Tags(flaw, prefix) ==
    <<[prefix |-> "SECURITY", text |-> "", isdigit |-> FALSE]>>
    \o (IF flaw.cwe = Null THEN <<>>
        ELSE <<[prefix |-> prefix, text |-> flaw.cwe, isdigit |-> TRUE]>>)

SemgrepKey(s, extension) == <<"cicd", "semgrep", Id(s.flaw.repo), "sha", extension>>
SemgrepJson(s) ==
    [results |-> {[check_id |-> s.flaw.rule, path |-> s.flaw.file, line |-> s.line,
                   severity |-> "WARNING", cwe |-> Tags(s.flaw, "CWE-")]}]

\* The rules of a run are a list, here with one of another CWE in front.
SemgrepSarif(s) ==
    LET tags == Tags(s.flaw, IF s.quirk = "colon_tag" THEN "CWE:" ELSE "CWE-")
        other == <<[prefix |-> "CWE-", text |-> "other", isdigit |-> FALSE]>>
    IN  [runs |-> {[rules |-> <<[id |-> "other", tags |-> other], [id |-> s.flaw.rule, tags |-> tags]>>,
                    results |-> {[ruleId |-> s.flaw.rule, level |-> "warning",
                                  ruleIndex |-> IF s.quirk = "by_name" THEN Null ELSE 1,
                                  locations |-> <<[uri |-> s.flaw.file, line |-> s.line]>>]}]}]

GitHubAlert(s) ==
    [number |-> s.flaw.name, html_url |-> s.flaw.name, created_at |-> 0, updated_at |-> 1,
     severity |-> IF s.quirk = "unrated" THEN Null ELSE "high", rule |-> s.flaw.rule,
     secret_type |-> s.flaw.rule, path |-> s.flaw.file, line |-> s.line,
     package |-> s.flaw.package, cve_id |-> s.flaw.cve,
     state |-> CASE s.feed = "github_secret" -> In(s.state, "open", "open", "resolved", "resolved")
                 [] s.quirk = "auto"  -> In(s.state, "open", "open", "auto_dismissed", "fixed")
                 [] OTHER             -> In(s.state, "open", "open", "dismissed", "fixed"),
     resolution |-> In(s.state, Null, Null, s.quirk, "revoked")]

Vulnerability(s) ==
    LET named(type, text) ==
            [external_type |-> type, name |-> [prefix |-> type, text |-> text],
             external_id |-> IF s.quirk = "name" THEN Null ELSE [prefix |-> "", text |-> text]]
    IN  [id |-> s.flaw.name, name |-> s.flaw.rule, severity |-> "medium", cve |-> Null,
         report_type |-> IF s.flaw.kind = "code" THEN "sast" ELSE "dependency_scanning",
         state |-> In(s.state, "detected", "confirmed", "dismissed", "resolved"),
         identifiers |-> (IF s.flaw.cve = Null THEN <<>> ELSE <<named("cve", s.flaw.cve)>>)
                         \o (IF s.flaw.cwe = Null THEN <<>> ELSE <<named("cwe", s.flaw.cwe)>>),
         file |-> s.flaw.file, line |-> s.line, package |-> s.flaw.package,
         created_at |-> 0, updated_at |-> 1]

\* NVD names a flaw by its CVE, OSV by an id of its own with the CVE as an alias.
DTPayload(s) ==
    LET cve == [kind |-> "CVE", text |-> s.flaw.cve]
        own == [kind |-> "GHSA", text |-> s.flaw.rule]
        aliased == s.quirk = "osv" \/ s.flaw.cve = Null
    IN  FlattenFinding(
          [repository_id |-> Id(s.flaw.repo)],
          [package |-> s.flaw.package, attributedOn |-> 0,
           state |-> IF s.quirk = "suppressed" /\ s.state = "dismissed" THEN "NOT_SET"
                     ELSE In(s.state, IF s.quirk = "triaged" THEN "IN_TRIAGE" ELSE "NOT_SET",
                             "EXPLOITABLE", "FALSE_POSITIVE", "RESOLVED"),
           isSuppressed |-> s.quirk = "suppressed" /\ s.state = "dismissed",
           vulnerability |->
             [vulnId |-> IF aliased THEN own ELSE cve, source |-> IF aliased THEN "OSV" ELSE "NVD",
              aliases |-> IF aliased /\ s.flaw.cve # Null THEN <<own, cve>> ELSE <<>>,
              severity |-> IF s.quirk = "unscored" THEN "UNASSIGNED" ELSE "HIGH",
              cvssV3 |-> IF s.quirk = "unscored" THEN 70 ELSE Null, cweId |-> s.flaw.cwe]])

TruffleHogRecord(s) ==
    [repository |-> [scheme |-> s.quirk, path |-> s.flaw.repo.name, git |-> s.quirk = "ssh",
                     colon |-> CASE s.quirk = "port"  -> "port/"
                                 [] s.quirk = "token" -> "token@host/"
                                 [] OTHER             -> ""],
     commit |-> "sha", file |-> s.flaw.file, line |-> s.line, detector |-> s.flaw.rule,
     verified |-> FALSE, error |-> Null]

\* One instance of one alert of a report.
ZapTriple(s) ==
    [name |-> IF s.quirk = "nameless" THEN "" ELSE "site", host |-> "host",
     pluginid |-> s.flaw.rule, uri |-> <<"target", s.flaw.file>>, trigger_context |-> "cicd",
     riskdesc |-> [word |-> "Medium", glued |-> s.quirk = "glued"],
     cweid |-> [text |-> IF s.quirk = "unclassified" THEN "-1" ELSE s.flaw.cwe,
                padded |-> s.quirk = "padded"],
     generated |-> 0, converted |-> 1, ingested |-> 2]

\* Each event is a request of its own.
WafEvent(s) ==
    [webaclId |-> "acl", requestId |-> s.flaw.rule, timestamp |-> s.flaw.name, action |-> s.quirk,
     terminatingRuleId |-> Null, uri |-> s.flaw.file]

----------------------------------------------------------------------------
(* The rows of a report, empty or of one element. *)

\* As the callers of the projection are told to complete its row.
GitLabRow(s) ==
    LET row == VulnerabilityToFinding(Id(s.flaw.repo), Vulnerability(s))
    IN  [row EXCEPT !.severity_canonical = NormalizeSeverity(row.severity_native, GitLabSeverityYml),
                    !.status_canonical   = NormalizeStatus(row.status_native, GitLabStatusYml)]

RowsOf(s) ==
    CASE s.feed = "sonarqube"        -> SonarTransform(SonarIssue(s))
      [] s.feed = "semgrep_json"     -> TransformArtefact(SemgrepKey(s, ".json"), SemgrepJson(s))
      [] s.feed = "semgrep_sarif"    -> TransformArtefact(SemgrepKey(s, ".sarif"), SemgrepSarif(s))
      [] s.feed = "github_code"      -> {CodeScanningAlertToFinding(Id(s.flaw.repo), GitHubAlert(s))}
      [] s.feed = "github_secret"    -> {SecretScanningAlertToFinding(Id(s.flaw.repo), GitHubAlert(s))}
      [] s.feed = "dependabot"       -> {DependabotAlertToFinding(Id(s.flaw.repo), GitHubAlert(s))}
      [] s.feed = "gitlab"           -> {GitLabRow(s)}
      [] s.feed = "dependency_track" -> {FlattenToSilverRow(DTPayload(s))}
      [] s.feed = "trufflehog"       -> {RecordToSilver(TruffleHogRecord(s))}
      [] s.feed = "owasp_zap"        -> ZapTransform(ZapTriple(s))
      [] s.feed = "aws_waf"          -> {NormaliseEvent(WafEvent(s))}

PossibleReports ==
    UNION {{[flaw |-> p[1], feed |-> p[2], quirk |-> quirk, state |-> state, line |-> line] :
               quirk \in Quirks[p[2]], state \in States, line \in 1..2} :
           p \in {q \in Flaws \X Feeds : q[2] \in Reports(q[1])}}

\* The projections do not depend on the state: their rows, tabulated.
Rows == [s \in PossibleReports |-> RowsOf(s)]

\* The key a connector deduplicates its own rows by.
KeyOf(s, row) ==
    CASE s.feed = "sonarqube" -> SonarDedupKey(row)
      [] s.feed \in {"semgrep_json", "semgrep_sarif"} -> SemgrepDedupKey(row)
      [] s.feed \in {"github_code", "github_secret", "dependabot"} -> GitHubDedupKey(row)
      [] s.feed = "gitlab" -> GitLabDedupKey(row)
      [] s.feed = "dependency_track" -> DTDedupKey(DTPayload(s))
      [] s.feed = "trufflehog" -> TruffleHogDedupKey(row)
      [] s.feed = "owasp_zap" -> ZapDedupKey(row)
      [] s.feed = "aws_waf" -> row.finding_id

----------------------------------------------------------------------------
FeedInit ==
    /\ flaws = [f \in Flaws |-> [state |-> "open", line |-> 1]]
    /\ bronze = {} /\ events = 0

Happens(f, state, line) ==
    /\ events < MaxEvents /\ events' = events + 1
    /\ flaws' = [flaws EXCEPT ![f] = [state |-> state, line |-> line]]
    /\ UNCHANGED bronze

\* An edit above the flaw.
Move(f) == f.kind \in {"code", "secret"} /\ Happens(f, flaws[f].state, 3 - flaws[f].line)

Confirm(f) == /\ Reports(f) \intersect Confirming # {} /\ flaws[f].state = "open"
              /\ Happens(f, "confirmed", flaws[f].line)
Dismiss(f) == /\ Reports(f) \intersect Trackers # {} /\ flaws[f].state \in {"open", "confirmed"}
              /\ Happens(f, "dismissed", flaws[f].line)
Fix(f)     == f.kind # "event" /\ flaws[f].state # "fixed" /\ Happens(f, "fixed", flaws[f].line)
Reopen(f)  == f.kind # "event" /\ flaws[f].state # "open" /\ Happens(f, "open", flaws[f].line)

\* A scanner without lifecycle reports what is not fixed.
Report(f, feed, quirk) ==
    /\ feed \in Trackers \/ flaws[f].state # "fixed"
    /\ Cardinality(bronze) < MaxReports
    /\ bronze' = bronze \union {[flaw |-> f, feed |-> feed, quirk |-> quirk,
                                 state |-> flaws[f].state, line |-> flaws[f].line]}
    /\ UNCHANGED <<flaws, events>>

FeedNext ==
    \E f \in Flaws :
        \/ Move(f)
        \/ Confirm(f)
        \/ Dismiss(f)
        \/ Fix(f)
        \/ Reopen(f)
        \/ \E feed \in Reports(f) : \E quirk \in Quirks[feed] : Report(f, feed, quirk)

FeedSpec == FeedInit /\ [][FeedNext]_feedVars

----------------------------------------------------------------------------
(* Properties. *)

Severities == {"critical", "high", "medium", "low", "info"}
Statuses   == {"open", "confirmed", "resolved", "false_positive", "wontfix"}

\* The columns that silver.findings requires and a report's row leaves NULL.
Unfilled(s) ==
    CASE s.feed \in {"semgrep_json", "semgrep_sarif"} -> {"first_seen_at", "last_seen_at"}
      [] s.feed = "trufflehog" -> {"trigger_context", "first_seen_at", "last_seen_at"}
      [] s.quirk = "undated"   -> {"first_seen_at"}
      [] OTHER                 -> {}

\* The type invariant: severities and statuses are canonical whatever the source
\* says, and of the NOT NULL columns of silver.findings (platform/schemas.py:49)
\* no projection leaves out more than its source has no value for.
FeedTypeOK ==
    /\ flaws \in [Flaws -> [state : States, line : 1..2]]
    /\ events \in 0..MaxEvents /\ Cardinality(bronze) <= MaxReports
    /\ bronze \subseteq PossibleReports
    /\ \A s \in bronze : \A row \in Rows[s] :
          /\ row.severity_canonical \in Severities /\ row.status_canonical \in Statuses
          /\ MissingColumns(row) = Unfilled(s)

\* What one Semgrep scan finds is the same row whether the deployment uploads it
\* as JSON or as SARIF, in which CWE and file stand elsewhere and rules are
\* referred to by position or by name (semgrep/transform.py).
TwoFormatsOneIssue ==
    \A a, b \in {s \in bronze : s.feed \in {"semgrep_json", "semgrep_sarif"}} :
        a.flaw = b.flaw /\ a.line = b.line => Rows[a] = Rows[b]

Differing(a, b) == {column \in DOMAIN a : a[column] # b[column]}

\* The Spark plans that jobs run do what the Python projections do that the tests
\* run (sonarqube/transform.py, owasp_zap/transform.py), up to: the severity of
\* an issue whose own is unknown, issues of other types, which only Python
\* keeps, and rows without a date or path, which only Spark does; for ZAP the
\* times, the CWE in blanks, the risk without a space, and sites without a name.
TwinPipelinesAgree ==
    \A s \in bronze :
        /\ s.feed = "sonarqube" =>
              LET tested == IssuesToSilver(SonarIssue(s))
                  run    == SonarTransform(SonarIssue(s))
              IN  /\ \A a \in tested, b \in run :
                        Differing(a, b) = IF s.quirk = "unrated" THEN {"severity_canonical"} ELSE {}
                  /\ run = {} <=> s.quirk = "hotspot"
                  /\ tested = {} <=> s.quirk \in {"undated", "whole_project"}
        /\ s.feed = "owasp_zap" =>
              LET tested == AlertsToSilver(ZapTriple(s))
                  run    == ZapTransform(ZapTriple(s))
              IN  /\ tested # {} /\ (run = {} <=> s.quirk = "nameless")
                  /\ \A a \in tested, b \in run :
                        Differing(a, b) \ {"first_seen_at", "last_seen_at"} =
                            CASE s.quirk = "padded" -> {"cwe_id"}
                              [] s.quirk = "glued"  -> {"severity_canonical"}
                              [] OTHER              -> {}

SameTool(a, b) == \A p \in Rows[a], q \in Rows[b] : p.tool_source = q.tool_source

\* A finding_id of a tool that tracks alerts names one flaw for good, through
\* edits, dismissals and reopenings, and another flaw never; Dependency-Track
\* has one for each advisory source of a flaw (transform.py:128).
AlertIdsNameOneFlaw ==
    \A a, b \in {s \in bronze : s.feed \in Trackers \union {"owasp_zap"}} :
        a.feed = b.feed =>
            \A p \in Rows[a], q \in Rows[b] :
                /\ p.finding_id = q.finding_id => a.flaw = b.flaw
                /\ a.flaw = b.flaw /\ a.feed # "dependency_track" => p.finding_id = q.finding_id

\* The key a connector deduplicates by is the same for every report of a flaw,
\* in whatever form it comes and from whatever advisory source, unless an issue
\* names no file, or a URL a port or a user with a token; only the keys that hold the line
\* (_dedup_key_for of GitHub and GitLab) change as it moves.
OneFlawOneKey ==
    \A a, b \in {s \in bronze : s.quirk \notin {"whole_project", "port", "token"}} :
        a.flaw = b.flaw /\ SameTool(a, b)
            /\ (a.line # b.line => a.feed \notin {"github_code", "github_secret", "gitlab"}) =>
            \A p \in Rows[a], q \in Rows[b] : KeyOf(a, p) = KeyOf(b, q)

\* The status of a row is the state in which its source held the flaw when it
\* reported it, in whatever form and however it refines the state that ends it.  A
\* flaw that somebody has confirmed is open no more where the source has a state for
\* that, and so is out of the gate and of the open counts, and goes on being open
\* at GitHub; the scanners without a lifecycle always say open.
StatusesOf(s) ==
    CASE s.feed \notin Trackers \/ s.state = "open" -> {"open"}
      [] s.feed \in Trackers /\ s.state = "confirmed" ->
            {IF s.feed \in Confirming THEN "confirmed" ELSE "open"}
      [] s.feed \in Trackers /\ s.state = "dismissed" -> {"false_positive", "wontfix"}
      [] s.feed \in Trackers /\ s.state = "fixed" -> {"resolved"}
StatusFollowsTheSource ==
    \A s \in bronze : \A row \in Rows[s] : row.status_canonical \in StatusesOf(s)

\* gold.dedup_link_overlap can see that two tools report one flaw: their rows of
\* a code flaw at a line, or of a vulnerable dependency, have the same key,
\* and they enter it whenever the flaw has a CWE that the tool reports, or a CVE.
SameFlawLinks ==
    \A a \in {s \in bronze : s.flaw.kind \in {"code", "dependency"}} : \A p \in Rows[a] :
        /\ Links(p) <=> IF a.flaw.kind = "dependency" THEN a.flaw.cve # Null
                        ELSE a.flaw.cwe # Null /\ a.feed \notin {"sonarqube", "github_code"}
        /\ Links(p) => \A b \in bronze : \A q \in Rows[b] :
                          a.flaw = b.flaw /\ a.line = b.line /\ Links(q) =>
                              OverlapKey(p) = OverlapKey(q)
=============================================================================
