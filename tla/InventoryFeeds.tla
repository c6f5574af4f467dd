----------------------------- MODULE InventoryFeeds -----------------------------
(***************************************************************************)
(* ScannerFeeds beside the feeds that the findings are to be related by:    *)
(* source-control systems report the repositories, in the forms that their  *)
(* APIs have, and the CMDB the applications, with the links to repositories *)
(* that an operator may have entered there.                                 *)
(***************************************************************************)
EXTENDS ScannerFeeds, EntityRows

CONSTANTS
    Repositories,   \* records: scm, node, number, name
    MaxInstant      \* last instant, in half hours, of an update in the CMDB

ASSUME InventoryAssumption == MaxInstant \in Nat

\* A node id or a number names one repository, and no path of one.
ASSUME RepositoriesAssumption ==
    LET repos == Repositories \union {f.repo : f \in Flaws}
    IN  /\ \A r \in repos : /\ r.scm \in {"github", "gitlab"}
                            /\ {r.node, r.number, r.name} \subseteq STRING
        /\ \A r, q \in repos : /\ Id(r) = Id(q) => r = q
                               /\ Id(r) \notin {q.name, "port/" \o q.name, "token@host/" \o q.name}

VARIABLE inventory  \* the reports of repositories and applications that have landed

inventoryVars == <<feedVars, inventory>>

\* GraphQL's records, REST's, and those of old dumps without node_id; GitLab's
\* with and without last_activity_at.
RepositoryQuirks(repo) ==
    IF repo.scm = "github" THEN {"graphql", "rest", "legacy"} ELSE {"active", "idle"}

GitHubRepository(e) ==
    LET graphql == e.quirk = "graphql"
    IN  [id |-> [text |-> graphql, value |-> IF graphql THEN e.repo.node ELSE e.repo.number],
         node_id |-> IF e.quirk = "rest" THEN e.repo.node ELSE Null,
         nameWithOwner |-> IF graphql THEN e.repo.name ELSE Null,
         full_name |-> IF graphql THEN Null ELSE e.repo.name, updated |-> 1]

GitLabProject(e) ==
    [id |-> e.repo.number, path_with_namespace |-> e.repo.name, updated_at |-> 0,
     last_activity_at |-> IF e.quirk = "active" THEN 1 ELSE Null]

\* What the clock of the instance reads.
Reading(instant) == IF instant < DaylightEnds THEN instant + Summer ELSE instant + Winter

BusinessApp(e) ==
    [sys_id |-> "app", name |-> "name",
     u_repository_id |-> IF e.repo = Null THEN Null ELSE Id(e.repo),
     sys_created_on |-> Reading(0), sys_updated_on |-> Reading(e.at)]

RepositoryRow(e) ==
    IF e.repo.scm = "github" THEN RepositoryToSilver(GitHubRepository(e))
    ELSE ProjectToRepository(GitLabProject(e))

RepositoryReports  == {e \in inventory : e.entity = "repository"}
ApplicationReports == {e \in inventory : e.entity = "application"}

----------------------------------------------------------------------------
InventoryInit == FeedInit /\ inventory = {}

Land(e) == /\ inventory' = inventory \union {e}
           /\ UNCHANGED feedVars

ReportRepository(repo, quirk) == Land([entity |-> "repository", repo |-> repo, quirk |-> quirk])

\* With the repository that the operator has entered, or none.
ReportApplication(repo, at) == Land([entity |-> "application", repo |-> repo, at |-> at])

InventoryNext ==
    /\ \/ FeedNext /\ UNCHANGED inventory
       \/ \E repo \in Repositories : \E quirk \in RepositoryQuirks(repo) :
             ReportRepository(repo, quirk)
       \/ \E repo \in Repositories \union {Null}, at \in 0..MaxInstant :
             ReportApplication(repo, at)
    /\ Cardinality(bronze') + Cardinality(inventory') <= MaxReports

InventorySpec == InventoryInit /\ [][InventoryNext]_inventoryVars

----------------------------------------------------------------------------
(* Properties. *)

\* "silver.findings rows produced by every other connector resolve to a real
\* business application through the repository_id to silver.repositories to
\* silver.app_repo_mapping chain" (connectors/cmdb/servicenow.md): where the
\* operator uses the id, a finding meets its own repository and no other, in
\* every form that either is reported in, and through it the link of the CMDB.
\* Exempt are TruffleHog's findings, which bear the name of the repository, those
\* of ZAP and WAF, which bear nothing, and repositories reported without node_id,
\* which are known by a number that a project of GitLab may have too.
Resolves(s, repo) ==
    s.feed \notin {"trufflehog", "owasp_zap", "aws_waf"} /\ s.flaw.repo = repo
FindingsReachTheirRepository ==
    \A s \in bronze : \A row \in Rows[s] :
        /\ \A e \in RepositoryReports :
              row.repository_id = RepositoryRow(e).repository_id <=>
                  IF e.quirk = "legacy" THEN row.repository_id = e.repo.number
                  ELSE Resolves(s, e.repo)
        /\ \A e \in ApplicationReports : \A link \in NormaliseAppRepoLink(BusinessApp(e)) :
              row.repository_id = link.repository_id <=> Resolves(s, e.repo)

\* Times of the CMDB keep their order on the way to UTC and are never read as
\* later than they are, which the high-water mark on sys_updated_on would not
\* survive; only in the hour that the clock repeats may one be read as earlier
\* than one before it (servicenow/transform.py:167).
UpdatedAt(e) == NormaliseApplication(BusinessApp(e)).updated_at
Repeated(instant) == instant \in DaylightEnds..(DaylightEnds + Summer - Winter - 1)
UpdatesKeepTheirOrder ==
    \A a, b \in ApplicationReports :
        /\ UpdatedAt(a) <= a.at
        /\ a.at < b.at => UpdatedAt(a) < UpdatedAt(b) \/ Repeated(b.at)
=============================================================================
