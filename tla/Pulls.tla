--------------------------------- MODULE Pulls ---------------------------------
(***************************************************************************)
(* How records get from a source into bronze while the source changes.      *)
(* Four connectors, four ways:                                              *)
(*                                                                         *)
(*   sonarqube  connectors/sonarqube/ingest.py provides the parts:          *)
(*     iter_issue_pages walks /api/issues/search by page number up to the   *)
(*     total of the first page, call_with_backoff retries a page the server *)
(*     refuses with 429, filter_since_hwm keeps what is newer than the      *)
(*     high-water mark, advance_hwm moves the mark, which is persisted when *)
(*     the run has ended (ingest.py:172-174).  The entry notebook of today  *)
(*     does not persist it (ingest_entry.py:58); the loop around the parts  *)
(*     is the one the connector page and the tests describe.                *)
(*   owasp_zap  iter_paged_alerts walks the daemon's alert list by offset   *)
(*     until a page is short; the caller writes what it yields in bulk.     *)
(*   gitlab     fetch_project_merge_requests lists by updated_at, newest    *)
(*     first, so that what is updated moves to the front.                   *)
(*   artefacts  run_ingest_pipeline of ZAP, WAF, Semgrep and TruffleHog     *)
(*     reads a prefix of a bucket or volume as a whole, on every run.       *)
(*                                                                         *)
(* A deployment of one connector against one source is modelled; the        *)
(* source (external) may change between two requests.  Time is in the unit  *)
(* of updateDate; 0 stands for None, the mark before the first run.         *)
(***************************************************************************)
EXTENDS Naturals, FiniteSets, Sequences, SequencesExt

CONSTANTS
    Connectors,       \* the connectors considered
    Items,            \* issues, alerts, merge requests or objects
    Purgeable,        \* those that the source may delete
    PageSize,         \* page_size, count, per_page
    Cap,              \* SonarQube's ten-thousand-record cap
    MaxRetries,       \* max_retries of call_with_backoff
    MaxTime, MaxRuns  \* bounds on the clock and on the runs

ASSUME ConnectorsAssumption == Connectors \subseteq {"sonarqube", "owasp_zap", "gitlab", "artefacts"}
ASSUME ItemsAssumption == IsFiniteSet(Items) /\ Purgeable \subseteq Items
ASSUME SizesAssumption == PageSize \in Nat \ {0} /\ Cap \in Nat /\ MaxRetries \in Nat
ASSUME BoundsAssumption == MaxTime \in Nat \ {0} /\ MaxRuns \in Nat

VARIABLES
    connector,   \* the connector deployed, which never changes
    listing,     \* the items at the source, in page order
    updated,     \* updated[i]: when item i was last updated, 0 before it exists
    clock,
    phase,       \* where the run stands
    page,        \* the page to request next
    last,        \* SonarQube: the last page of this traversal
    attempt,     \* SonarQube: retries used on the current page
    prev,        \* SonarQube: the mark the run has read
    mark,        \* SonarQube: the mark as advanced so far
    store,       \* SonarQube: the persisted mark
    pulled,      \* what the run has been given, in order
    bronze,      \* bronze[<<i, u>>]: rows with item i as updated at u
    runs,        \* runs started
    standing,    \* history: the items that were listed when the run began and
                 \* have stood still since; none once something was deleted
    disturbed,   \* history: a change fell into a traversal, or into the very
                 \* second the persisted mark names
    interrupted  \* history: a run has ended early

sourceVars == <<connector, listing, updated, clock>>
markVars   == <<prev, mark, store>>
runVars    == <<phase, page, last, attempt, markVars, pulled, bronze, runs, interrupted>>
vars       == <<sourceVars, runVars, standing, disturbed>>

Many == 2
Versions == Items \X (1..MaxTime)

----------------------------------------------------------------------------
(* The parts. *)

PageOf(p) ==
    SubSeq(listing, (p - 1) * PageSize + 1,
           IF p * PageSize < Len(listing) THEN p * PageSize ELSE Len(listing))

\* paging.total of the first page: all that match, as the check at line 84
\* takes it (sonarqube.md:69 has it stop at the cap).
Total == Len(listing)

\* Mutant of PageCount: the division rounds down.
PageCountFloor(total) == total \div PageSize

\* -(-total // page_size)
PageCount(total) == (total + PageSize - 1) \div PageSize

Records(items) == {<<i, updated[i]>> : i \in ToSet(items)}

\* Mutant of FilterSinceHwm: records as old as the mark pass.
FilterSinceHwmInclusive(records) == {r \in records : prev = 0 \/ r[2] >= prev}

FilterSinceHwm(records) == {r \in records : prev = 0 \/ r[2] > prev}

Latest(times) == CHOOSE t \in times : \A u \in times : u <= t

AdvanceHwm(records) == Latest({mark} \union {r[2] : r \in records})

Append1(records) == [v \in Versions |->
                        IF v \in records /\ bronze[v] < Many THEN bronze[v] + 1 ELSE bronze[v]]

----------------------------------------------------------------------------
(* The source. *)

Init ==
    /\ connector \in Connectors
    /\ listing = <<>> /\ updated = [i \in Items |-> 0] /\ clock = 1
    /\ phase = "idle" /\ page = 1 /\ last = 1 /\ attempt = 0
    /\ prev = 0 /\ mark = 0 /\ store = 0
    /\ pulled = <<>> /\ bronze = [v \in Versions |-> 0]
    /\ runs = 0 /\ standing = {} /\ disturbed = FALSE /\ interrupted = FALSE

Tick == /\ clock < MaxTime /\ clock' = clock + 1
        /\ UNCHANGED <<connector, listing, updated, runVars, standing, disturbed>>

Disturb(late) == disturbed' = (disturbed \/ phase \in {"paging", "save"} \/ late)

Without(i) == RemoveAt(listing, CHOOSE k \in DOMAIN listing : listing[k] = i)

\* An item is created: SonarQube and ZAP list it last, GitLab first.
Create(i) ==
    /\ updated[i] = 0
    /\ updated' = [updated EXCEPT ![i] = clock]
    /\ listing' = IF connector = "gitlab" THEN <<i>> \o listing ELSE Append(listing, i)
    /\ Disturb(clock <= store)
    /\ UNCHANGED <<connector, clock, runVars, standing>>

\* An issue is modified where it stands, a merge request moves to the front;
\* alerts and artefacts never change.
Modify(i) ==
    /\ connector \in {"sonarqube", "gitlab"}
    /\ Contains(listing, i) /\ updated[i] # clock
    /\ updated' = [updated EXCEPT ![i] = clock]
    /\ listing' = IF connector = "gitlab" THEN <<i>> \o Without(i) ELSE listing
    /\ standing' = standing \ {i}
    /\ Disturb(clock <= store)
    /\ UNCHANGED <<connector, clock, runVars>>

\* An item is deleted, which moves the later ones up.
Purge(i) ==
    /\ i \in Purgeable /\ Contains(listing, i)
    /\ listing' = Without(i)
    /\ standing' = {}
    /\ Disturb(FALSE)
    /\ UNCHANGED <<connector, updated, clock, runVars>>

----------------------------------------------------------------------------
(* A run. *)

StartRun ==
    /\ phase = "idle" /\ runs < MaxRuns
    /\ phase' = "paging" /\ page' = 1 /\ attempt' = 0 /\ runs' = runs + 1
    /\ prev' = store /\ mark' = store
    /\ pulled' = <<>> /\ standing' = ToSet(listing)
    /\ UNCHANGED <<sourceVars, last, store, bronze, disturbed, interrupted>>

End(ending) == phase' = ending /\ UNCHANGED <<page, attempt>>
TurnPage    == page' = page + 1 /\ attempt' = 0 /\ UNCHANGED phase
Fail        == End("idle") /\ interrupted' = TRUE

\* SonarQube: the records of a page are yielded, filtered and appended.
Ingest(issues) ==
    LET new == FilterSinceHwm(Records(issues))
    IN  /\ pulled' = pulled \o issues
        /\ bronze' = Append1(new)
        /\ mark' = AdvanceHwm(new)

\* The first page is yielded before its total is looked at.
FetchFirst ==
    /\ connector = "sonarqube" /\ phase = "paging" /\ page = 1
    /\ Ingest(PageOf(1))
    /\ last' = PageCount(Total)
    /\ \/ Total <= PageSize /\ End("save") /\ UNCHANGED interrupted
       \/ Total > PageSize /\ Total > Cap /\ Fail
       \/ /\ Total > PageSize /\ Total <= Cap
          /\ IF PageCount(Total) < 2 THEN End("save") ELSE TurnPage
          /\ UNCHANGED interrupted
    /\ UNCHANGED <<sourceVars, prev, store, runs, standing, disturbed>>

FetchNext ==
    /\ connector = "sonarqube" /\ phase = "paging" /\ page > 1
    /\ Ingest(PageOf(page))
    /\ IF page = last THEN End("save") ELSE TurnPage
    /\ UNCHANGED <<sourceVars, last, prev, store, runs, standing, disturbed, interrupted>>

\* The server answers 429: the page is tried again, or the run ends.
RateLimited ==
    /\ connector = "sonarqube" /\ phase = "paging"
    /\ IF attempt >= MaxRetries THEN Fail
       ELSE attempt' = attempt + 1 /\ UNCHANGED <<phase, page, interrupted>>
    /\ UNCHANGED <<sourceVars, last, markVars, pulled, bronze, runs, standing, disturbed>>

\* The run has been given items and holds them until it has them all.
Take(items, complete) ==
    /\ pulled' = pulled \o items
    /\ IF complete THEN End("save") ELSE TurnPage
    /\ UNCHANGED <<sourceVars, last, markVars, bronze, runs, standing, disturbed, interrupted>>

\* Mutant of FetchAlerts: a full page ends the walk as well.
FetchAlertsOnce ==
    /\ connector = "owasp_zap" /\ phase = "paging"
    /\ Take(PageOf(page), Len(PageOf(page)) <= PageSize)

\* An empty page or a short one ends the walk.
FetchAlerts ==
    /\ connector = "owasp_zap" /\ phase = "paging"
    /\ Take(PageOf(page), Len(PageOf(page)) < PageSize)

\* The client walks on while the server names a next page.
FetchMergeRequests ==
    /\ connector = "gitlab" /\ phase = "paging"
    /\ Take(PageOf(page), page * PageSize >= Len(listing))

ReadPrefix ==
    /\ connector = "artefacts" /\ phase = "paging"
    /\ Take(listing, TRUE)

\* SonarQube: the mark is persisted.
Save ==
    /\ connector = "sonarqube" /\ phase = "save"
    /\ store' = mark
    /\ End("idle")
    /\ UNCHANGED <<sourceVars, last, prev, mark, pulled, bronze, runs, standing, disturbed,
                   interrupted>>

\* The others: what the run holds is appended in one commit.
WriteBatch ==
    /\ connector # "sonarqube" /\ phase = "save"
    /\ bronze' = Append1(Records(pulled))
    /\ End("idle")
    /\ UNCHANGED <<sourceVars, last, markVars, pulled, runs, standing, disturbed, interrupted>>

\* The run is lost, also between its last page and the saving of the mark.
Crash ==
    /\ phase \in {"paging", "save"}
    /\ Fail
    /\ UNCHANGED <<sourceVars, last, markVars, pulled, bronze, runs, standing, disturbed>>

Next == \/ Tick
        \/ \E i \in Items : Create(i) \/ Modify(i) \/ Purge(i)
        \/ StartRun
        \/ FetchFirst \/ FetchNext \/ RateLimited \/ Save
        \/ FetchAlerts \/ FetchMergeRequests \/ ReadPrefix \/ WriteBatch
        \/ Crash

Spec == Init /\ [][Next]_vars

----------------------------------------------------------------------------
(* Properties. *)

\* SonarQube: as long as the server stands still during traversals, no issue as
\* old as the persisted mark is missing from bronze: whatever failed on the way,
\* the next run need not look behind the mark.
InBronze(i) == bronze[<<i, updated[i]>>] > 0
Behind(i) == updated[i] <= store => InBronze(i)
NothingBelowTheMark == ~disturbed => \A i \in ToSet(listing) : Behind(i)

\* REQ-ING-PAG, catalog.md:27: without loss or duplication.  When nothing
\* disturbs or interrupts a run, no version of an issue is appended twice, and
\* by the connectors that keep no mark once by each run.
EachVersionOnce ==
    ~disturbed /\ ~interrupted =>
        \A v \in Versions : bronze[v] <= IF connector = "sonarqube" THEN 1 ELSE runs

\* A source that grows and is modified while it is walked hides nothing that
\* stands still, whether pages are counted, offset or read until they are short
\* (owasp_zap/ingest.py:171); and unless what is modified moves to the front, no
\* walk is given an item twice, not even when others are deleted.
WalksAreWhole ==
    /\ phase = "save" => standing \subseteq ToSet(pulled)
    /\ connector # "gitlab" => IsInjective(pulled)
=============================================================================
