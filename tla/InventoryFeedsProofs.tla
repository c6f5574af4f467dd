-------------------------- MODULE InventoryFeedsProofs --------------------------
(***************************************************************************)
(* What the connectors' projections promise of one another, for any flaws,  *)
(* repositories and numbers of events and reports.  The invariant is        *)
(* FeedInv: what has landed are reports that the sources can make.          *)
(***************************************************************************)
EXTENDS InventoryFeeds, FiniteSetTheorems, SequenceTheorems, TLAPS

----------------------------------------------------------------------------
(* What lands. *)

FlawsInv == flaws \in [Flaws -> [state : States, line : 1..2]]

BronzeInv ==
    /\ events \in 0..MaxEvents /\ IsFiniteSet(bronze) /\ Cardinality(bronze) <= MaxReports
    /\ bronze \subseteq PossibleReports

InventoryInv ==
    \A e \in inventory :
        \/ /\ e.entity = "repository" /\ e.repo \in Repositories
           /\ e.quirk \in RepositoryQuirks(e.repo)
        \/ /\ e.entity = "application" /\ e.repo \in Repositories \union {Null}
           /\ e.at \in 0..MaxInstant

FeedInv == FlawsInv /\ BronzeInv /\ InventoryInv

\* A possible report is one of a flaw, by a feed that reports such flaws, in one
\* of its forms.
LEMMA PossibleMeans ==
    ASSUME NEW s
    PROVE  s \in PossibleReports <=>
              \E f \in Flaws, feed \in Feeds : \E quirk \in Quirks[feed],
                 state \in States, line \in 1..2 :
                    /\ feed \in Reports(f)
                    /\ s = [flaw |-> f, feed |-> feed, quirk |-> quirk, state |-> state, line |-> line]
<1> DEFINE Of(p) == {[flaw |-> p[1], feed |-> p[2], quirk |-> quirk, state |-> state, line |-> line] :
                        quirk \in Quirks[p[2]], state \in States, line \in 1..2}
           D == {q \in Flaws \X Feeds : q[2] \in Reports(q[1])}
<1>1. PossibleReports = UNION {Of(p) : p \in D}
  BY DEF PossibleReports
<1>2. \A p : s \in Of(p) <=>
         \E quirk \in Quirks[p[2]], state \in States, line \in 1..2 :
            s = [flaw |-> p[1], feed |-> p[2], quirk |-> quirk, state |-> state, line |-> line]
  OBVIOUS
<1>3. \A f \in Flaws, feed \in Feeds : feed \in Reports(f) => <<f, feed>> \in D
  OBVIOUS
<1>4. \A p \in D : p[1] \in Flaws /\ p[2] \in Feeds /\ p[2] \in Reports(p[1])
  OBVIOUS
<1> HIDE DEF Of, D
<1>5. s \in PossibleReports <=> \E p \in D : s \in Of(p)
  BY <1>1
<1>6. ASSUME s \in PossibleReports
      PROVE  \E f \in Flaws, feed \in Feeds : \E quirk \in Quirks[feed],
                state \in States, line \in 1..2 :
                   /\ feed \in Reports(f)
                   /\ s = [flaw |-> f, feed |-> feed, quirk |-> quirk, state |-> state, line |-> line]
  <2>1. PICK p \in D : s \in Of(p)
    BY <1>5, <1>6
  <2> QED BY <1>2, <1>4, <2>1
<1>7. ASSUME NEW f \in Flaws, NEW feed \in Feeds, NEW quirk \in Quirks[feed],
             NEW state \in States, NEW line \in 1..2, feed \in Reports(f),
             s = [flaw |-> f, feed |-> feed, quirk |-> quirk, state |-> state, line |-> line]
      PROVE  s \in PossibleReports
  <2>1. s \in Of(<<f, feed>>)
    BY <1>2, <1>7
  <2> QED BY <1>3, <1>5, <1>7, <2>1
<1> QED BY <1>6, <1>7

\* The reporters of a flaw are feeds.
LEMMA ReportersAreFeeds ==
    ASSUME NEW f \in Flaws
    PROVE  Reports(f) \subseteq Feeds
BY FlawsAssumption DEF Reports, Feeds, Quirks

\* Every event leaves a flaw with a state and a line.
LEMMA EventsKeepInv ==
    ASSUME FeedInv, NEW f \in Flaws, Move(f) \/ Confirm(f) \/ Dismiss(f) \/ Fix(f) \/ Reopen(f), UNCHANGED inventory
    PROVE  FeedInv'
<1>0. flaws[f].state \in States /\ flaws[f].line \in 1..2
  BY DEF FeedInv, FlawsInv
<1>1. PICK state \in States, line \in 1..2 : Happens(f, state, line)
  <2>1. 3 - flaws[f].line \in 1..2
    BY <1>0
  <2> QED BY <1>0, <2>1 DEF Move, Confirm, Dismiss, Fix, Reopen, States
<1>2. /\ flaws' = [flaws EXCEPT ![f] = [state |-> state, line |-> line]]
      /\ events' = events + 1 /\ events < MaxEvents /\ bronze' = bronze
  BY <1>1 DEF Happens
<1>3. FlawsInv'
  BY <1>2 DEF FeedInv, FlawsInv
<1>4. BronzeInv'
  BY <1>2, FeedsAssumption DEF FeedInv, BronzeInv
<1>5. InventoryInv'
  BY DEF FeedInv, InventoryInv
<1> QED BY <1>3, <1>4, <1>5 DEF FeedInv

\* What a feed reports of a flaw is a possible report.
LEMMA ReportKeepsInv ==
    ASSUME FeedInv, NEW f \in Flaws, NEW feed \in Reports(f), NEW quirk \in Quirks[feed],
           Report(f, feed, quirk), UNCHANGED inventory
    PROVE  FeedInv'
<1> DEFINE s == [flaw |-> f, feed |-> feed, quirk |-> quirk, state |-> flaws[f].state, line |-> flaws[f].line]
<1>1. Cardinality(bronze) < MaxReports /\ bronze' = bronze \union {s} /\ UNCHANGED <<flaws, events>>
  BY DEF Report
<1>2. flaws[f].state \in States /\ flaws[f].line \in 1..2
  BY DEF FeedInv, FlawsInv
<1>3. s \in PossibleReports
  <2>1. feed \in Feeds
    BY ReportersAreFeeds
  <2> QED BY <1>2, <2>1, PossibleMeans
<1> HIDE DEF s
<1>4. /\ IsFiniteSet(bronze) /\ bronze \subseteq PossibleReports
      /\ events \in 0..MaxEvents /\ Cardinality(bronze) \in Nat
  BY FS_CardinalityType DEF FeedInv, BronzeInv
<1>5. IsFiniteSet(bronze') /\ Cardinality(bronze') <= MaxReports
  <2>1. IsFiniteSet(bronze \union {s}) /\ (\/ Cardinality(bronze \union {s}) = Cardinality(bronze)
                                           \/ Cardinality(bronze \union {s}) = Cardinality(bronze) + 1)
    BY <1>4, FS_AddElement
  <2> QED BY <1>1, <1>4, <2>1, FeedsAssumption
<1>6. BronzeInv'
  BY <1>1, <1>3, <1>4, <1>5 DEF BronzeInv
<1> QED BY <1>1, <1>6 DEF FeedInv, FlawsInv, InventoryInv

\* So are the entries that the inventory's feeds land.
LEMMA InventoryKeepsInv ==
    ASSUME FeedInv,
           \/ \E repo \in Repositories : \E quirk \in RepositoryQuirks(repo) :
                 ReportRepository(repo, quirk)
           \/ \E repo \in Repositories \union {Null}, at \in 0..MaxInstant : ReportApplication(repo, at)
    PROVE  FeedInv'
<1>1. ASSUME NEW e, Land(e),
             \/ /\ e.entity = "repository" /\ e.repo \in Repositories
                /\ e.quirk \in RepositoryQuirks(e.repo)
             \/ /\ e.entity = "application" /\ e.repo \in Repositories \union {Null}
                /\ e.at \in 0..MaxInstant
      PROVE  FeedInv'
  BY <1>1 DEF Land, FeedInv, FlawsInv, BronzeInv, InventoryInv, feedVars
<1>2. ASSUME NEW repo \in Repositories, NEW quirk \in RepositoryQuirks(repo),
             ReportRepository(repo, quirk)
      PROVE  FeedInv'
  BY <1>1, <1>2 DEF ReportRepository
<1>3. ASSUME NEW repo \in Repositories \union {Null}, NEW at \in 0..MaxInstant,
             ReportApplication(repo, at)
      PROVE  FeedInv'
  BY <1>1, <1>3 DEF ReportApplication
<1> QED BY <1>2, <1>3

\* FeedInv is an invariant.
LEMMA FeedInvariant == InventorySpec => []FeedInv
<1>1. InventoryInit => FeedInv
  <2> SUFFICES ASSUME InventoryInit PROVE FeedInv
    OBVIOUS
  <2>1. FlawsInv
    BY DEF InventoryInit, FeedInit, FlawsInv, States
  <2>2. IsFiniteSet({}) /\ Cardinality({}) = 0
    BY FS_EmptySet
  <2> QED BY <2>1, <2>2, FeedsAssumption DEF InventoryInit, FeedInit, FeedInv, BronzeInv, InventoryInv
<1>2. FeedInv /\ [InventoryNext]_inventoryVars => FeedInv'
  <2> SUFFICES ASSUME FeedInv, [InventoryNext]_inventoryVars PROVE FeedInv'
    OBVIOUS
  <2>1. CASE FeedNext /\ UNCHANGED inventory
    BY <2>1, EventsKeepInv, ReportKeepsInv DEF FeedNext
  <2>2. CASE UNCHANGED inventoryVars
    BY <2>2 DEF inventoryVars, feedVars, FeedInv, FlawsInv, BronzeInv, InventoryInv
  <2> QED BY <2>1, <2>2, InventoryKeepsInv DEF InventoryNext
<1> QED BY <1>1, <1>2, PTL DEF InventorySpec

----------------------------------------------------------------------------
(* Times of the CMDB. *)

\* Times keep their order on the way to UTC, outside the repeated hour, and are
\* never read as later than they are, whenever the clock goes back.
THEOREM UpdatesKeepOrder == InventorySpec => []UpdatesKeepTheirOrder
<1>1. FeedInv => UpdatesKeepTheirOrder
  <2> SUFFICES ASSUME FeedInv PROVE UpdatesKeepTheirOrder
    OBVIOUS
  <2>1. \A e \in ApplicationReports : e.at \in Int /\ e.at >= 0
    BY InventoryAssumption DEF ApplicationReports, FeedInv, InventoryInv
  <2>2. ASSUME NEW e \in ApplicationReports
        PROVE  UpdatedAt(e) = IF Reading(e.at) < DaylightEnds + Summer THEN Reading(e.at) - Summer
                              ELSE Reading(e.at) - Winter
    <3>1. BusinessApp(e).sys_updated_on = Reading(e.at)
      BY DEF BusinessApp
    <3>2. Reading(e.at) # Null
      BY <2>1, ZoneAssumption, NullAssumption DEF Reading, Summer, Winter
    <3> QED BY <3>1, <3>2 DEF UpdatedAt, NormaliseApplication, TimeOf, NormaliseServicenowDatetime
  <2> QED BY <2>1, <2>2, ZoneAssumption DEF UpdatesKeepTheirOrder, Reading, Summer, Winter, Repeated
<1> QED BY <1>1, FeedInvariant, PTL

----------------------------------------------------------------------------
(* Values, lookups and rows. *)

\* The values that columns and reports compose others of.
Elements == LET Plain == STRING \union Nat
            IN  Plain \union Seq(Plain)
                \union [scheme : STRING, colon : STRING, path : STRING, git : BOOLEAN]

\* Tuples are sequences.
LEMMA TuplesAreSequences ==
    ASSUME NEW S
    PROVE  /\ \A x \in S : <<x>> \in Seq(S)
           /\ \A x, y \in S : <<x, y>> \in Seq(S)
           /\ \A x, y, z \in S : <<x, y, z>> \in Seq(S)
           /\ \A w, x, y, z \in S : <<w, x, y, z>> \in Seq(S)
           /\ \A v, w, x, y, z \in S : <<v, w, x, y, z>> \in Seq(S)
<1>1. ASSUME NEW x \in S PROVE <<x>> \in Seq(S)
  OBVIOUS
<1>2. ASSUME NEW x \in S, NEW y \in S PROVE <<x, y>> \in Seq(S)
  OBVIOUS
<1>3. ASSUME NEW x \in S, NEW y \in S, NEW z \in S PROVE <<x, y, z>> \in Seq(S)
  OBVIOUS
<1>4. ASSUME NEW w \in S, NEW x \in S, NEW y \in S, NEW z \in S
      PROVE  <<w, x, y, z>> \in Seq(S)
  OBVIOUS
<1>5. ASSUME NEW v \in S, NEW w \in S, NEW x \in S, NEW y \in S, NEW z \in S
      PROVE  <<v, w, x, y, z>> \in Seq(S)
  OBVIOUS
<1> QED BY <1>1, <1>2, <1>3, <1>4, <1>5

\* Texts and numbers are among them, and pairs of texts.
LEMMA ElementsAre ==
    /\ \A x \in STRING \union Nat : x \in Elements
    /\ \A x, y \in STRING : <<x, y>> \in Elements
    /\ [scheme : STRING, colon : STRING, path : STRING, git : BOOLEAN] \subseteq Elements
<1> DEFINE Plain == STRING \union Nat
<1>1. \A x \in STRING : x \in Plain
  OBVIOUS
<1> HIDE DEF Plain
<1>2. \A x, y \in STRING : <<x, y>> \in Seq(Plain)
  BY <1>1, TuplesAreSequences
<1> QED BY <1>2 DEF Elements, Plain

\* NULL is no text and no number.
LEMMA NullIsNone ==
    /\ \A x \in STRING : x # Null
    /\ \A n \in Nat : n # Null
BY NullAssumption

\* None of what they compose is NULL.
LEMMA NoneIsNull ==
    /\ \A x \in STRING \union Nat : x # Null
    /\ \A x \in Elements : <<x>> # Null
    /\ \A x, y \in Elements : <<x, y>> # Null
    /\ \A x, y, z \in Elements : <<x, y, z>> # Null
    /\ \A w, x, y, z \in Elements : <<w, x, y, z>> # Null
    /\ \A v, w, x, y, z \in Elements : <<v, w, x, y, z>> # Null
<1>1. Null \notin STRING \union Nat /\ Null \notin Seq(Elements)
  BY NullAssumption DEF Elements
<1> HIDE DEF Elements
<1>2. ASSUME NEW x \in Elements PROVE <<x>> # Null
  <2>1. <<x>> \in Seq(Elements)
    BY TuplesAreSequences
  <2> QED BY <1>1, <2>1
<1>3. ASSUME NEW x \in Elements, NEW y \in Elements PROVE <<x, y>> # Null
  <2>1. <<x, y>> \in Seq(Elements)
    BY TuplesAreSequences
  <2> QED BY <1>1, <2>1
<1>4. ASSUME NEW x \in Elements, NEW y \in Elements, NEW z \in Elements PROVE <<x, y, z>> # Null
  <2>1. <<x, y, z>> \in Seq(Elements)
    BY TuplesAreSequences
  <2> QED BY <1>1, <2>1
<1>5. ASSUME NEW w \in Elements, NEW x \in Elements, NEW y \in Elements, NEW z \in Elements PROVE <<w, x, y, z>> # Null
  <2>1. <<w, x, y, z>> \in Seq(Elements)
    BY TuplesAreSequences
  <2> QED BY <1>1, <2>1
<1>6. ASSUME NEW v \in Elements, NEW w \in Elements, NEW x \in Elements, NEW y \in Elements, NEW z \in Elements PROVE <<v, w, x, y, z>> # Null
  <2>1. <<v, w, x, y, z>> \in Seq(Elements)
    BY TuplesAreSequences
  <2> QED BY <1>1, <2>1
<1> QED BY <1>1, <1>2, <1>3, <1>4, <1>5, <1>6

\* A native value that one class lists is looked up to that class.
LEMMA Listed ==
    ASSUME NEW classes, NEW native, NEW default, NEW c \in DOMAIN classes, native \in classes[c],
           \A d \in DOMAIN classes : native \in classes[d] => d = c
    PROVE  Lookup(classes, native, default) = c
BY DEF Lookup

\* One that no class lists is looked up to the default.
LEMMA NotListed ==
    ASSUME NEW classes, NEW native, NEW default, \A d \in DOMAIN classes : native \notin classes[d]
    PROVE  Lookup(classes, native, default) = default
BY DEF Lookup

\* A report is one of a flaw, in a form of its feed.
LEMMA ReportIs ==
    ASSUME NEW s \in PossibleReports
    PROVE  /\ s.flaw \in Flaws /\ s.feed \in Feeds /\ s.feed \in Reports(s.flaw)
           /\ s.quirk \in Quirks[s.feed] /\ s.state \in States
           /\ s.line \in 1..2 /\ Rows[s] = RowsOf(s)
<1>1. PICK f \in Flaws, feed \in Feeds : \E quirk \in Quirks[feed],
         state \in States, line \in 1..2 :
            /\ feed \in Reports(f)
            /\ s = [flaw |-> f, feed |-> feed, quirk |-> quirk, state |-> state, line |-> line]
  BY PossibleMeans
<1> QED BY <1>1 DEF Rows

\* The texts of a flaw, and what its repository is known by.
LEMMA FlawIs ==
    ASSUME NEW f \in Flaws
    PROVE  /\ f.name \in STRING /\ f.file \in STRING /\ f.package \in STRING /\ f.rule \in STRING
           /\ f.name # "" /\ f.file # "" /\ f.package # "" /\ f.rule # "" /\ f.rule # "other"
           /\ f.cwe \in STRING \union {Null} /\ f.cve \in STRING \union {Null}
           /\ f.repo.name \in STRING /\ Id(f.repo) \in STRING
BY FlawsAssumption DEF Id

\* The kinds of flaws that the feeds report.
LEMMA KindIs ==
    ASSUME NEW s \in PossibleReports
    PROVE  /\ s.feed \in {"sonarqube", "semgrep_json", "semgrep_sarif", "github_code"}
                => s.flaw.kind = "code"
           /\ s.feed \in {"dependabot", "dependency_track"} => s.flaw.kind = "dependency"
           /\ s.feed = "gitlab" => s.flaw.kind \in {"code", "dependency"}
           /\ s.feed \in {"github_secret", "trufflehog"} => s.flaw.kind = "secret"
           /\ s.feed = "owasp_zap" => s.flaw.kind = "page"
           /\ s.feed = "aws_waf" => s.flaw.kind = "event"
BY ReportIs, FlawsAssumption DEF Reports

\* The forms of the feeds.
LEMMA QuirkIs ==
    ASSUME NEW s \in PossibleReports
    PROVE  /\ s.feed = "sonarqube" =>
                s.quirk \in {"issue", "reopened", "hotspot", "undated", "whole_project", "unrated"}
           /\ s.feed = "semgrep_json" => s.quirk = "titled"
           /\ s.feed = "semgrep_sarif" => s.quirk \in {"indexed", "by_name", "colon_tag"}
           /\ s.feed = "github_code" => s.quirk \in {"rated", "unrated"}
           /\ s.feed = "github_secret" => s.quirk \in {"false_positive", "wont_fix", "used_in_tests"}
           /\ s.feed = "dependabot" => s.quirk \in {"reviewed", "auto"}
           /\ s.feed = "gitlab" => s.quirk \in {"external_id", "name"}
           /\ s.feed = "dependency_track" => s.quirk \in {"nvd", "osv", "triaged", "unscored", "suppressed"}
           /\ s.feed = "trufflehog" => s.quirk \in {"https", "ssh", "port", "token"}
           /\ s.feed = "owasp_zap" =>
                s.quirk \in {"plain", "nameless", "padded", "glued", "unclassified"}
           /\ s.feed = "aws_waf" => s.quirk \in {"BLOCK", "COUNT", "RATE_LIMIT"}
BY ReportIs DEF Quirks

----------------------------------------------------------------------------
(* The lookups of severity and status, for the natives that are reported. *)

\* Each native value is listed in one class of SonarStatusYml.
LEMMA SonarStatusOf ==
    ASSUME NEW default
    PROVE  /\ Lookup(SonarStatusYml, <<"OPEN">>, default) = "open"
           /\ Lookup(SonarStatusYml, <<"REOPENED">>, default) = "open"
           /\ Lookup(SonarStatusYml, <<"CONFIRMED">>, default) = "confirmed"
           /\ Lookup(SonarStatusYml, <<"RESOLVED", "FALSE-POSITIVE">>, default) = "false_positive"
           /\ Lookup(SonarStatusYml, <<"CLOSED", "FIXED">>, default) = "resolved"
<1>1. Lookup(SonarStatusYml, <<"OPEN">>, default) = "open"
  <2>1. /\ "open" \in DOMAIN SonarStatusYml /\ <<"OPEN">> \in SonarStatusYml["open"]
        /\ \A d \in DOMAIN SonarStatusYml : <<"OPEN">> \in SonarStatusYml[d] => d = "open"
    BY DEF SonarStatusYml
  <2> QED BY <2>1, Listed
<1>2. Lookup(SonarStatusYml, <<"REOPENED">>, default) = "open"
  <2>1. /\ "open" \in DOMAIN SonarStatusYml /\ <<"REOPENED">> \in SonarStatusYml["open"]
        /\ \A d \in DOMAIN SonarStatusYml : <<"REOPENED">> \in SonarStatusYml[d] => d = "open"
    BY DEF SonarStatusYml
  <2> QED BY <2>1, Listed
<1>3. Lookup(SonarStatusYml, <<"CONFIRMED">>, default) = "confirmed"
  <2>1. /\ "confirmed" \in DOMAIN SonarStatusYml /\ <<"CONFIRMED">> \in SonarStatusYml["confirmed"]
        /\ \A d \in DOMAIN SonarStatusYml : <<"CONFIRMED">> \in SonarStatusYml[d] => d = "confirmed"
    BY DEF SonarStatusYml
  <2> QED BY <2>1, Listed
<1>4. Lookup(SonarStatusYml, <<"RESOLVED", "FALSE-POSITIVE">>, default) = "false_positive"
  <2>1. /\ "false_positive" \in DOMAIN SonarStatusYml /\ <<"RESOLVED", "FALSE-POSITIVE">> \in SonarStatusYml["false_positive"]
        /\ \A d \in DOMAIN SonarStatusYml : <<"RESOLVED", "FALSE-POSITIVE">> \in SonarStatusYml[d] => d = "false_positive"
    BY DEF SonarStatusYml
  <2> QED BY <2>1, Listed
<1>5. Lookup(SonarStatusYml, <<"CLOSED", "FIXED">>, default) = "resolved"
  <2>1. /\ "resolved" \in DOMAIN SonarStatusYml /\ <<"CLOSED", "FIXED">> \in SonarStatusYml["resolved"]
        /\ \A d \in DOMAIN SonarStatusYml : <<"CLOSED", "FIXED">> \in SonarStatusYml[d] => d = "resolved"
    BY DEF SonarStatusYml
  <2> QED BY <2>1, Listed
<1> QED BY <1>1, <1>2, <1>3, <1>4, <1>5

\* Each native value is listed in one class of SonarSeverityYml, or in none.
LEMMA SonarSeverityOf ==
    ASSUME NEW default
    PROVE  /\ Lookup(SonarSeverityYml, "MAJOR", default) = "medium"
           /\ Lookup(SonarSeverityYml, "UNRATED", default) = default
<1>1. Lookup(SonarSeverityYml, "MAJOR", default) = "medium"
  <2>1. /\ "medium" \in DOMAIN SonarSeverityYml /\ "MAJOR" \in SonarSeverityYml["medium"]
        /\ \A d \in DOMAIN SonarSeverityYml : "MAJOR" \in SonarSeverityYml[d] => d = "medium"
    BY DEF SonarSeverityYml
  <2> QED BY <2>1, Listed
<1>2. Lookup(SonarSeverityYml, "UNRATED", default) = default
  <2>1. \A d \in DOMAIN SonarSeverityYml : "UNRATED" \notin SonarSeverityYml[d]
    BY DEF SonarSeverityYml
  <2> QED BY <2>1, NotListed
<1> QED BY <1>1, <1>2

\* Each native value is listed in one class of SemgrepSeverityYml.
LEMMA SemgrepSeverityOf ==
    ASSUME NEW default
    PROVE  /\ Lookup(SemgrepSeverityYml, "WARNING", default) = "medium"
           /\ Lookup(SemgrepSeverityYml, "warning", default) = "medium"
<1>1. Lookup(SemgrepSeverityYml, "WARNING", default) = "medium"
  <2>1. /\ "medium" \in DOMAIN SemgrepSeverityYml /\ "WARNING" \in SemgrepSeverityYml["medium"]
        /\ \A d \in DOMAIN SemgrepSeverityYml : "WARNING" \in SemgrepSeverityYml[d] => d = "medium"
    BY DEF SemgrepSeverityYml
  <2> QED BY <2>1, Listed
<1>2. Lookup(SemgrepSeverityYml, "warning", default) = "medium"
  <2>1. /\ "medium" \in DOMAIN SemgrepSeverityYml /\ "warning" \in SemgrepSeverityYml["medium"]
        /\ \A d \in DOMAIN SemgrepSeverityYml : "warning" \in SemgrepSeverityYml[d] => d = "medium"
    BY DEF SemgrepSeverityYml
  <2> QED BY <2>1, Listed
<1> QED BY <1>1, <1>2

\* Each native value is listed in one class of SemgrepStatusYml.
LEMMA SemgrepStatusOf ==
    ASSUME NEW default
    PROVE  /\ Lookup(SemgrepStatusYml, "open", default) = "open"
<1>1. Lookup(SemgrepStatusYml, "open", default) = "open"
  <2>1. /\ "open" \in DOMAIN SemgrepStatusYml /\ "open" \in SemgrepStatusYml["open"]
        /\ \A d \in DOMAIN SemgrepStatusYml : "open" \in SemgrepStatusYml[d] => d = "open"
    BY DEF SemgrepStatusYml
  <2> QED BY <2>1, Listed
<1> QED BY <1>1

\* Each native value is listed in one class of GitHubSeverityYml.
LEMMA GitHubSeverityOf ==
    ASSUME NEW default
    PROVE  /\ Lookup(GitHubSeverityYml, "high", default) = "high"
<1>1. Lookup(GitHubSeverityYml, "high", default) = "high"
  <2>1. /\ "high" \in DOMAIN GitHubSeverityYml /\ "high" \in GitHubSeverityYml["high"]
        /\ \A d \in DOMAIN GitHubSeverityYml : "high" \in GitHubSeverityYml[d] => d = "high"
    BY DEF GitHubSeverityYml
  <2> QED BY <2>1, Listed
<1> QED BY <1>1

\* Each native value is listed in one class of GitHubStatusYml.
LEMMA GitHubStatusOf ==
    ASSUME NEW default
    PROVE  /\ Lookup(GitHubStatusYml, <<"open">>, default) = "open"
           /\ Lookup(GitHubStatusYml, <<"dismissed">>, default) = "wontfix"
           /\ Lookup(GitHubStatusYml, <<"auto_dismissed">>, default) = "wontfix"
           /\ Lookup(GitHubStatusYml, <<"fixed">>, default) = "resolved"
           /\ Lookup(GitHubStatusYml, <<"resolved", "false_positive">>, default) = "false_positive"
           /\ Lookup(GitHubStatusYml, <<"resolved", "used_in_tests">>, default) = "false_positive"
           /\ Lookup(GitHubStatusYml, <<"resolved", "wont_fix">>, default) = "wontfix"
           /\ Lookup(GitHubStatusYml, <<"resolved", "revoked">>, default) = "resolved"
<1>1. Lookup(GitHubStatusYml, <<"open">>, default) = "open"
  <2>1. /\ "open" \in DOMAIN GitHubStatusYml /\ <<"open">> \in GitHubStatusYml["open"]
        /\ \A d \in DOMAIN GitHubStatusYml : <<"open">> \in GitHubStatusYml[d] => d = "open"
    BY DEF GitHubStatusYml
  <2> QED BY <2>1, Listed
<1>2. Lookup(GitHubStatusYml, <<"dismissed">>, default) = "wontfix"
  <2>1. /\ "wontfix" \in DOMAIN GitHubStatusYml /\ <<"dismissed">> \in GitHubStatusYml["wontfix"]
        /\ \A d \in DOMAIN GitHubStatusYml : <<"dismissed">> \in GitHubStatusYml[d] => d = "wontfix"
    BY DEF GitHubStatusYml
  <2> QED BY <2>1, Listed
<1>3. Lookup(GitHubStatusYml, <<"auto_dismissed">>, default) = "wontfix"
  <2>1. /\ "wontfix" \in DOMAIN GitHubStatusYml /\ <<"auto_dismissed">> \in GitHubStatusYml["wontfix"]
        /\ \A d \in DOMAIN GitHubStatusYml : <<"auto_dismissed">> \in GitHubStatusYml[d] => d = "wontfix"
    BY DEF GitHubStatusYml
  <2> QED BY <2>1, Listed
<1>4. Lookup(GitHubStatusYml, <<"fixed">>, default) = "resolved"
  <2>1. /\ "resolved" \in DOMAIN GitHubStatusYml /\ <<"fixed">> \in GitHubStatusYml["resolved"]
        /\ \A d \in DOMAIN GitHubStatusYml : <<"fixed">> \in GitHubStatusYml[d] => d = "resolved"
    BY DEF GitHubStatusYml
  <2> QED BY <2>1, Listed
<1>5. Lookup(GitHubStatusYml, <<"resolved", "false_positive">>, default) = "false_positive"
  <2>1. /\ "false_positive" \in DOMAIN GitHubStatusYml /\ <<"resolved", "false_positive">> \in GitHubStatusYml["false_positive"]
        /\ \A d \in DOMAIN GitHubStatusYml : <<"resolved", "false_positive">> \in GitHubStatusYml[d] => d = "false_positive"
    BY DEF GitHubStatusYml
  <2> QED BY <2>1, Listed
<1>6. Lookup(GitHubStatusYml, <<"resolved", "used_in_tests">>, default) = "false_positive"
  <2>1. /\ "false_positive" \in DOMAIN GitHubStatusYml /\ <<"resolved", "used_in_tests">> \in GitHubStatusYml["false_positive"]
        /\ \A d \in DOMAIN GitHubStatusYml : <<"resolved", "used_in_tests">> \in GitHubStatusYml[d] => d = "false_positive"
    BY DEF GitHubStatusYml
  <2> QED BY <2>1, Listed
<1>7. Lookup(GitHubStatusYml, <<"resolved", "wont_fix">>, default) = "wontfix"
  <2>1. /\ "wontfix" \in DOMAIN GitHubStatusYml /\ <<"resolved", "wont_fix">> \in GitHubStatusYml["wontfix"]
        /\ \A d \in DOMAIN GitHubStatusYml : <<"resolved", "wont_fix">> \in GitHubStatusYml[d] => d = "wontfix"
    BY DEF GitHubStatusYml
  <2> QED BY <2>1, Listed
<1>8. Lookup(GitHubStatusYml, <<"resolved", "revoked">>, default) = "resolved"
  <2>1. /\ "resolved" \in DOMAIN GitHubStatusYml /\ <<"resolved", "revoked">> \in GitHubStatusYml["resolved"]
        /\ \A d \in DOMAIN GitHubStatusYml : <<"resolved", "revoked">> \in GitHubStatusYml[d] => d = "resolved"
    BY DEF GitHubStatusYml
  <2> QED BY <2>1, Listed
<1> QED BY <1>1, <1>2, <1>3, <1>4, <1>5, <1>6, <1>7, <1>8

\* Each native value is listed in one class of GitLabSeverityYml.
LEMMA GitLabSeverityOf ==
    ASSUME NEW default
    PROVE  /\ Lookup(GitLabSeverityYml, "medium", default) = "medium"
<1>1. Lookup(GitLabSeverityYml, "medium", default) = "medium"
  <2>1. /\ "medium" \in DOMAIN GitLabSeverityYml /\ "medium" \in GitLabSeverityYml["medium"]
        /\ \A d \in DOMAIN GitLabSeverityYml : "medium" \in GitLabSeverityYml[d] => d = "medium"
    BY DEF GitLabSeverityYml
  <2> QED BY <2>1, Listed
<1> QED BY <1>1

\* Each native value is listed in one class of GitLabStatusYml.
LEMMA GitLabStatusOf ==
    ASSUME NEW default
    PROVE  /\ Lookup(GitLabStatusYml, "detected", default) = "open"
           /\ Lookup(GitLabStatusYml, "confirmed", default) = "confirmed"
           /\ Lookup(GitLabStatusYml, "dismissed", default) = "false_positive"
           /\ Lookup(GitLabStatusYml, "resolved", default) = "resolved"
<1>1. Lookup(GitLabStatusYml, "detected", default) = "open"
  <2>1. /\ "open" \in DOMAIN GitLabStatusYml /\ "detected" \in GitLabStatusYml["open"]
        /\ \A d \in DOMAIN GitLabStatusYml : "detected" \in GitLabStatusYml[d] => d = "open"
    BY DEF GitLabStatusYml
  <2> QED BY <2>1, Listed
<1>2. Lookup(GitLabStatusYml, "confirmed", default) = "confirmed"
  <2>1. /\ "confirmed" \in DOMAIN GitLabStatusYml /\ "confirmed" \in GitLabStatusYml["confirmed"]
        /\ \A d \in DOMAIN GitLabStatusYml : "confirmed" \in GitLabStatusYml[d] => d = "confirmed"
    BY DEF GitLabStatusYml
  <2> QED BY <2>1, Listed
<1>3. Lookup(GitLabStatusYml, "dismissed", default) = "false_positive"
  <2>1. /\ "false_positive" \in DOMAIN GitLabStatusYml /\ "dismissed" \in GitLabStatusYml["false_positive"]
        /\ \A d \in DOMAIN GitLabStatusYml : "dismissed" \in GitLabStatusYml[d] => d = "false_positive"
    BY DEF GitLabStatusYml
  <2> QED BY <2>1, Listed
<1>4. Lookup(GitLabStatusYml, "resolved", default) = "resolved"
  <2>1. /\ "resolved" \in DOMAIN GitLabStatusYml /\ "resolved" \in GitLabStatusYml["resolved"]
        /\ \A d \in DOMAIN GitLabStatusYml : "resolved" \in GitLabStatusYml[d] => d = "resolved"
    BY DEF GitLabStatusYml
  <2> QED BY <2>1, Listed
<1> QED BY <1>1, <1>2, <1>3, <1>4

\* Each native value is listed in one class of DTSeverityYml, or in none.
LEMMA DTSeverityOf ==
    ASSUME NEW default
    PROVE  /\ Lookup(DTSeverityYml, "HIGH", default) = "high"
           /\ Lookup(DTSeverityYml, "UNASSIGNED", default) = default
<1>1. Lookup(DTSeverityYml, "HIGH", default) = "high"
  <2>1. /\ "high" \in DOMAIN DTSeverityYml /\ "HIGH" \in DTSeverityYml["high"]
        /\ \A d \in DOMAIN DTSeverityYml : "HIGH" \in DTSeverityYml[d] => d = "high"
    BY DEF DTSeverityYml
  <2> QED BY <2>1, Listed
<1>2. Lookup(DTSeverityYml, "UNASSIGNED", default) = default
  <2>1. \A d \in DOMAIN DTSeverityYml : "UNASSIGNED" \notin DTSeverityYml[d]
    BY DEF DTSeverityYml
  <2> QED BY <2>1, NotListed
<1> QED BY <1>1, <1>2

\* Each native value is listed in one class of DTStatusYml.
LEMMA DTStatusOf ==
    ASSUME NEW default
    PROVE  /\ Lookup(DTStatusYml, "NOT_SET", default) = "open"
           /\ Lookup(DTStatusYml, "IN_TRIAGE", default) = "open"
           /\ Lookup(DTStatusYml, "EXPLOITABLE", default) = "confirmed"
           /\ Lookup(DTStatusYml, "FALSE_POSITIVE", default) = "false_positive"
           /\ Lookup(DTStatusYml, "RESOLVED", default) = "resolved"
<1>1. Lookup(DTStatusYml, "NOT_SET", default) = "open"
  <2>1. /\ "open" \in DOMAIN DTStatusYml /\ "NOT_SET" \in DTStatusYml["open"]
        /\ \A d \in DOMAIN DTStatusYml : "NOT_SET" \in DTStatusYml[d] => d = "open"
    BY DEF DTStatusYml
  <2> QED BY <2>1, Listed
<1>2. Lookup(DTStatusYml, "IN_TRIAGE", default) = "open"
  <2>1. /\ "open" \in DOMAIN DTStatusYml /\ "IN_TRIAGE" \in DTStatusYml["open"]
        /\ \A d \in DOMAIN DTStatusYml : "IN_TRIAGE" \in DTStatusYml[d] => d = "open"
    BY DEF DTStatusYml
  <2> QED BY <2>1, Listed
<1>3. Lookup(DTStatusYml, "EXPLOITABLE", default) = "confirmed"
  <2>1. /\ "confirmed" \in DOMAIN DTStatusYml /\ "EXPLOITABLE" \in DTStatusYml["confirmed"]
        /\ \A d \in DOMAIN DTStatusYml : "EXPLOITABLE" \in DTStatusYml[d] => d = "confirmed"
    BY DEF DTStatusYml
  <2> QED BY <2>1, Listed
<1>4. Lookup(DTStatusYml, "FALSE_POSITIVE", default) = "false_positive"
  <2>1. /\ "false_positive" \in DOMAIN DTStatusYml /\ "FALSE_POSITIVE" \in DTStatusYml["false_positive"]
        /\ \A d \in DOMAIN DTStatusYml : "FALSE_POSITIVE" \in DTStatusYml[d] => d = "false_positive"
    BY DEF DTStatusYml
  <2> QED BY <2>1, Listed
<1>5. Lookup(DTStatusYml, "RESOLVED", default) = "resolved"
  <2>1. /\ "resolved" \in DOMAIN DTStatusYml /\ "RESOLVED" \in DTStatusYml["resolved"]
        /\ \A d \in DOMAIN DTStatusYml : "RESOLVED" \in DTStatusYml[d] => d = "resolved"
    BY DEF DTStatusYml
  <2> QED BY <2>1, Listed
<1> QED BY <1>1, <1>2, <1>3, <1>4, <1>5

\* Each native value is listed in one class of ZapSeverityYml, or in none.
LEMMA ZapSeverityOf ==
    ASSUME NEW default
    PROVE  /\ Lookup(ZapSeverityYml, "Medium", default) = "medium"
           /\ Lookup(ZapSeverityYml, "word(confidence)", default) = default
<1>1. Lookup(ZapSeverityYml, "Medium", default) = "medium"
  <2>1. /\ "medium" \in DOMAIN ZapSeverityYml /\ "Medium" \in ZapSeverityYml["medium"]
        /\ \A d \in DOMAIN ZapSeverityYml : "Medium" \in ZapSeverityYml[d] => d = "medium"
    BY DEF ZapSeverityYml
  <2> QED BY <2>1, Listed
<1>2. Lookup(ZapSeverityYml, "word(confidence)", default) = default
  <2>1. \A d \in DOMAIN ZapSeverityYml : "word(confidence)" \notin ZapSeverityYml[d]
    BY DEF ZapSeverityYml
  <2> QED BY <2>1, NotListed
<1> QED BY <1>1, <1>2

\* Each native value is listed in one class of ZapStatusYml.
LEMMA ZapStatusOf ==
    ASSUME NEW default
    PROVE  /\ Lookup(ZapStatusYml, "open", default) = "open"
<1>1. Lookup(ZapStatusYml, "open", default) = "open"
  <2>1. /\ "open" \in DOMAIN ZapStatusYml /\ "open" \in ZapStatusYml["open"]
        /\ \A d \in DOMAIN ZapStatusYml : "open" \in ZapStatusYml[d] => d = "open"
    BY DEF ZapStatusYml
  <2> QED BY <2>1, Listed
<1> QED BY <1>1

\* Each native value is listed in one class of WafSeverityYml, or in none.
LEMMA WafSeverityOf ==
    ASSUME NEW default
    PROVE  /\ Lookup(WafSeverityYml, "BLOCK", default) = "high"
           /\ Lookup(WafSeverityYml, "COUNT", default) = "medium"
           /\ Lookup(WafSeverityYml, "RATE_LIMIT", default) = default
<1>1. Lookup(WafSeverityYml, "BLOCK", default) = "high"
  <2>1. /\ "high" \in DOMAIN WafSeverityYml /\ "BLOCK" \in WafSeverityYml["high"]
        /\ \A d \in DOMAIN WafSeverityYml : "BLOCK" \in WafSeverityYml[d] => d = "high"
    BY DEF WafSeverityYml
  <2> QED BY <2>1, Listed
<1>2. Lookup(WafSeverityYml, "COUNT", default) = "medium"
  <2>1. /\ "medium" \in DOMAIN WafSeverityYml /\ "COUNT" \in WafSeverityYml["medium"]
        /\ \A d \in DOMAIN WafSeverityYml : "COUNT" \in WafSeverityYml[d] => d = "medium"
    BY DEF WafSeverityYml
  <2> QED BY <2>1, Listed
<1>3. Lookup(WafSeverityYml, "RATE_LIMIT", default) = default
  <2>1. \A d \in DOMAIN WafSeverityYml : "RATE_LIMIT" \notin WafSeverityYml[d]
    BY DEF WafSeverityYml
  <2> QED BY <2>1, NotListed
<1> QED BY <1>1, <1>2, <1>3

----------------------------------------------------------------------------
(* The rows of SonarQube. *)

\* The columns that both projections fill in.
LEMMA SonarFindingIs ==
    ASSUME NEW r, NEW severity
    PROVE  LET row == SonarFinding(r, severity)
           IN  /\ DOMAIN row = SilverColumns
               /\ row.finding_id = <<r.key>> /\ row.tool_source = "sonarqube" /\ row.category = "sast"
               /\ row.severity_canonical = severity
               /\ row.status_canonical =
                     NormalizeStatus(SonarStatusKey(r.status, r.resolution), SonarStatusYml)
               /\ row.rule_id_native = r.rule /\ row.trigger_context = "periodic"
               /\ row.repository_id = IF r.component = Null THEN Null ELSE r.component[1]
               /\ row.file_path = IF r.component # Null /\ Len(r.component) = 2
                                  THEN r.component[2] ELSE Null
               /\ row.start_line = r.line /\ row.cwe_id = Null /\ row.cve_id = Null
               /\ row.first_seen_at = r.creationDate /\ row.last_seen_at = r.updateDate
BY DEF SonarFinding, FindingRow, SilverColumns, RequiredColumns

\* The report of an issue that is no hotspot.
LEMMA SonarIssueIs ==
    ASSUME NEW s \in PossibleReports, s.feed = "sonarqube", NEW severity
    PROVE  LET row == SonarFinding(SonarIssue(s), severity)
           IN  /\ DOMAIN row = SilverColumns
               /\ row.finding_id = <<s.flaw.name>> /\ row.tool_source = "sonarqube"
               /\ row.category = "sast" /\ row.severity_canonical = severity
               /\ s.quirk # "hotspot" =>
                     row.status_canonical = In(s.state, "open", "confirmed", "false_positive", "resolved")
               /\ row.rule_id_native = s.flaw.rule /\ row.trigger_context = "periodic"
               /\ row.repository_id = Id(s.flaw.repo)
               /\ row.file_path = IF s.quirk = "whole_project" THEN Null ELSE s.flaw.file
               /\ row.start_line = s.line /\ row.cwe_id = Null /\ row.cve_id = Null
               /\ row.first_seen_at = (IF s.quirk = "undated" THEN Null ELSE 0)
               /\ row.last_seen_at = 1
<1> DEFINE r == SonarIssue(s)
           row == SonarFinding(r, severity)
<1>0. s.flaw \in Flaws /\ s.state \in States
  BY ReportIs
<1>1. /\ r.key = s.flaw.name /\ r.rule = s.flaw.rule /\ r.line = s.line
      /\ r.creationDate = (IF s.quirk = "undated" THEN Null ELSE 0) /\ r.updateDate = 1
      /\ r.component = IF s.quirk = "whole_project" THEN <<Id(s.flaw.repo)>>
                       ELSE <<Id(s.flaw.repo), s.flaw.file>>
      /\ s.quirk # "hotspot" =>
            /\ r.status = In(s.state, IF s.quirk = "reopened" THEN "REOPENED" ELSE "OPEN",
                               "CONFIRMED", "RESOLVED", "CLOSED")
            /\ r.resolution = In(s.state, Null, Null, "FALSE-POSITIVE", "FIXED")
  BY DEF SonarIssue
<1>2. r.component # Null
  <2>1. Id(s.flaw.repo) \in Elements /\ s.flaw.file \in Elements
    BY <1>0, FlawIs, ElementsAre
  <2> HIDE DEF r
  <2> QED BY <1>1, <2>1, NoneIsNull
<1>3. s.quirk # "hotspot" =>
         NormalizeStatus(SonarStatusKey(r.status, r.resolution), SonarStatusYml)
           = In(s.state, "open", "confirmed", "false_positive", "resolved")
  <2> SUFFICES ASSUME s.quirk # "hotspot"
               PROVE  NormalizeStatus(SonarStatusKey(r.status, r.resolution), SonarStatusYml)
                        = In(s.state, "open", "confirmed", "false_positive", "resolved")
    OBVIOUS
  <2>1. "FALSE-POSITIVE" # Null /\ "FIXED" # Null
    BY NullIsNone, LiteralsAssumption
  <2>2. SonarStatusKey(r.status, r.resolution) =
           In(s.state, IF s.quirk = "reopened" THEN <<"REOPENED">> ELSE <<"OPEN">>, <<"CONFIRMED">>,
              <<"RESOLVED", "FALSE-POSITIVE">>, <<"CLOSED", "FIXED">>)
    BY <1>0, <1>1, <2>1 DEF SonarStatusKey, In, States
  <2> HIDE DEF r
  <2> QED BY <1>0, <2>2, SonarStatusOf DEF NormalizeStatus, In, States
<1>4. Len(<<Id(s.flaw.repo)>>) = 1 /\ Len(<<Id(s.flaw.repo), s.flaw.file>>) = 2
  OBVIOUS
<1>5. r.component[1] = Id(s.flaw.repo)
      /\ (IF r.component # Null /\ Len(r.component) = 2 THEN r.component[2] ELSE Null)
            = IF s.quirk = "whole_project" THEN Null ELSE s.flaw.file
  <2> HIDE DEF r
  <2> QED BY <1>1, <1>2, <1>4
<1> HIDE DEF r
<1>6. /\ row.repository_id = Id(s.flaw.repo)
      /\ row.file_path = IF s.quirk = "whole_project" THEN Null ELSE s.flaw.file
  BY <1>2, <1>5, SonarFindingIs
<1>7. /\ DOMAIN row = SilverColumns /\ row.finding_id = <<s.flaw.name>>
      /\ row.tool_source = "sonarqube" /\ row.category = "sast"
      /\ row.severity_canonical = severity /\ row.rule_id_native = s.flaw.rule
      /\ row.trigger_context = "periodic" /\ row.start_line = s.line /\ row.cwe_id = Null
      /\ row.cve_id = Null /\ row.first_seen_at = (IF s.quirk = "undated" THEN Null ELSE 0)
      /\ row.last_seen_at = 1
  BY <1>1, SonarFindingIs
<1>8. row.status_canonical = NormalizeStatus(SonarStatusKey(r.status, r.resolution), SonarStatusYml)
  BY SonarFindingIs
<1> HIDE DEF row
<1> QED BY <1>3, <1>6, <1>7, <1>8 DEF row, r

\* What the plan that runs makes of a report of SonarQube.
LEMMA SonarRowIs ==
    ASSUME NEW s \in PossibleReports, s.feed = "sonarqube", NEW row \in Rows[s]
    PROVE  s.quirk # "hotspot" /\ row = SonarFinding(SonarIssue(s), "medium")
<1>1. row \in SonarTransform(SonarIssue(s))
  BY ReportIs DEF RowsOf
<1>2. SonarIssue(s).type = IF s.quirk = "hotspot" THEN "SECURITY_HOTSPOT" ELSE "BUG"
  BY DEF SonarIssue
<1>3. SonarIssue(s).severity = IF s.quirk = "unrated" THEN "UNRATED" ELSE "MAJOR"
  BY DEF SonarIssue
<1>4. Lookup(SonarSeverityYml, SonarIssue(s).severity, "medium") = "medium"
  BY <1>3, SonarSeverityOf
<1> QED BY <1>1, <1>2, <1>4 DEF SonarTransform, SilverTypes

----------------------------------------------------------------------------
(* The rows of Semgrep. *)

\* Two elements make a list of two.
LEMMA Appended ==
    ASSUME NEW x, NEW y
    PROVE  <<x>> \o <<y>> = <<x, y>> /\ <<x>> \o <<>> = <<x>>
<1> DEFINE S == {x, y}
<1>1. <<x>> \in Seq(S) /\ <<y>> \in Seq(S) /\ <<x, y>> \in Seq(S)
  <2>1. x \in S /\ y \in S
    OBVIOUS
  <2> HIDE DEF S
  <2> QED BY <2>1, TuplesAreSequences
<1>2. /\ Len(<<x>>) = 1 /\ Len(<<y>>) = 1 /\ Len(<<x, y>>) = 2
      /\ <<x>>[1] = x /\ <<y>>[1] = y /\ <<x, y>>[1] = x /\ <<x, y>>[2] = y
  OBVIOUS
<1> HIDE DEF S
<1> DEFINE c == <<x>> \o <<y>>
<1>3. /\ c \in Seq(S) /\ Len(c) = 2
      /\ \A i \in 1..2 : c[i] = IF i <= 1 THEN <<x>>[i] ELSE <<y>>[i - 1]
  BY <1>1, <1>2, ConcatProperties
<1> HIDE DEF c
<1>4. c[1] = x /\ c[2] = y
  BY <1>2, <1>3
<1>5. c = <<x, y>>
  BY <1>1, <1>2, <1>3, <1>4, SeqEqual
<1>6. <<x>> \o <<>> = <<x>>
  OBVIOUS
<1> QED BY <1>5, <1>6 DEF c

\* The least of the hits, if there is but one, is that one.
LEMMA OnlyHit ==
    ASSUME NEW hits, NEW k \in Nat, hits = {k}
    PROVE  (CHOOSE i \in hits : \A j \in hits : i <= j) = k
OBVIOUS

\* The second of two tags is the first that names a CWE, if only it does.
LEMMA FirstTag ==
    ASSUME NEW a, NEW b, ~IsCweTag(a), IsCweTag(b)
    PROVE  FirstOf(<<a>>, IsCweTag) = Null /\ FirstOf(<<a, b>>, IsCweTag) = b
<1>1. {i \in DOMAIN <<a>> : IsCweTag(<<a>>[i])} = {}
  OBVIOUS
<1>2. {i \in DOMAIN <<a, b>> : IsCweTag(<<a, b>>[i])} = {2}
  OBVIOUS
<1>3. FirstOf(<<a>>, IsCweTag) = Null
  BY <1>1 DEF FirstOf
<1>4. FirstOf(<<a, b>>, IsCweTag) = b
  <2> DEFINE hits == {i \in DOMAIN <<a, b>> : IsCweTag(<<a, b>>[i])}
  <2>1. FirstOf(<<a, b>>, IsCweTag) =
           IF hits = {} THEN Null ELSE <<a, b>>[CHOOSE i \in hits : \A j \in hits : i <= j]
    BY DEF FirstOf
  <2>2. hits = {2}
    BY <1>2
  <2> HIDE DEF hits
  <2>3. (CHOOSE i \in hits : \A j \in hits : i <= j) = 2
    BY <2>2, OnlyHit
  <2> QED BY <2>1, <2>2, <2>3
<1> QED BY <1>3, <1>4

\* Either spelling of a CWE tag is read as the same CWE.
LEMMA CweOfTags ==
    ASSUME NEW f \in Flaws, NEW prefix \in {"CWE-", "CWE:"}
    PROVE  FirstCweFromStrings(Tags(f, prefix)) = IF f.cwe = Null THEN Null ELSE <<"CWE-", f.cwe>>
<1> DEFINE a == [prefix |-> "SECURITY", text |-> "", isdigit |-> FALSE]
           b == [prefix |-> prefix, text |-> f.cwe, isdigit |-> TRUE]
<1>1. Tags(f, prefix) = IF f.cwe = Null THEN <<a>> ELSE <<a, b>>
  <2>1. Tags(f, prefix) = <<a>> \o (IF f.cwe = Null THEN <<>> ELSE <<b>>)
    BY DEF Tags
  <2> HIDE DEF a, b
  <2> QED BY <2>1, Appended
<1>2. ~IsCweTag(a) /\ IsCweTag(b)
  BY DEF IsCweTag
<1>3. f.cwe # Null => b # Null
  <2>1. f.cwe # Null => b \in [prefix : STRING, text : STRING, isdigit : BOOLEAN]
    BY FlawIs, LiteralsAssumption
  <2> QED BY <2>1, NullAssumption
<1>4. b.text = f.cwe
  OBVIOUS
<1> HIDE DEF a, b
<1>5. FirstOf(Tags(f, prefix), IsCweTag) = IF f.cwe = Null THEN Null ELSE b
  BY <1>1, <1>2, FirstTag
<1> QED BY <1>3, <1>4, <1>5 DEF FirstCweFromStrings

\* The row of a flaw at a line, in whichever format it comes.
SemgrepRow(f, line) ==
    FindingRow([finding_id |-> <<Id(f.repo), f.file, f.rule, line>>,
                tool_source |-> "semgrep", category |-> "sast", severity_canonical |-> "medium",
                status_canonical |-> "open",
                cwe_id |-> IF f.cwe = Null THEN Null ELSE <<"CWE-", f.cwe>>,
                rule_id_native |-> f.rule, trigger_context |-> "cicd",
                repository_id |-> Id(f.repo), file_path |-> f.file, start_line |-> line])

\* A projection fills in that row if it read the CWE of the flaw.
LEMMA SemgrepFindingIs ==
    ASSUME NEW s \in PossibleReports, NEW extension, NEW native \in {"WARNING", "warning"},
           NEW cwe, cwe = IF s.flaw.cwe = Null THEN Null ELSE <<"CWE-", s.flaw.cwe>>
    PROVE  SemgrepFinding(SemgrepKey(s, extension), s.flaw.rule, s.flaw.file, s.line, native, cwe)
             = SemgrepRow(s.flaw, s.line)
<1> DEFINE key == SemgrepKey(s, extension)
<1>1. TriggerContext(key) = "cicd" /\ ArtefactRepository(key) = Id(s.flaw.repo)
  BY DEF SemgrepKey, TriggerContext, ArtefactRepository
<1>2. \A text \in STRING : Or(text, "") = text
  BY NullIsNone DEF Or
<1>3. SemgrepFindingId(Id(s.flaw.repo), s.flaw.file, s.flaw.rule, s.line)
        = <<Id(s.flaw.repo), s.flaw.file, s.flaw.rule, s.line>>
  BY <1>2, ReportIs, FlawIs, NullIsNone DEF SemgrepFindingId, Or
<1>4. SemgrepSeverityLookup(native) = "medium"
  BY SemgrepSeverityOf DEF SemgrepSeverityLookup
<1>5. NormalizeStatus("open", SemgrepStatusYml) = "open"
  BY SemgrepStatusOf DEF NormalizeStatus
<1> HIDE DEF key
<1> QED BY <1>1, <1>3, <1>4, <1>5 DEF SemgrepFinding, SemgrepRow, key

\* The tags that a SARIF result is given are those of its rule, whether it names
\* the rule by position or by name.
LEMMA SarifTags ==
    ASSUME NEW s \in PossibleReports, s.feed = "semgrep_sarif",
           NEW run, NEW o, NEW n, run.rules = <<o, n>>, o.id = "other", n.id = s.flaw.rule,
           n # Null, NEW r, r.ruleId = s.flaw.rule, r.ruleIndex = IF s.quirk = "by_name" THEN Null ELSE 1
    PROVE  SarifRuleTags(run, r) = n.tags
<1>0. s.flaw.rule # "other" /\ s.flaw.rule # Null /\ 1 # Null
  BY ReportIs, FlawIs, NullIsNone
<1>1. Len(run.rules) = 2 /\ run.rules[1 + 1] = n
  OBVIOUS
<1>2. CASE s.quirk # "by_name"
  BY <1>0, <1>1, <1>2 DEF SarifRuleTags
<1>3. CASE s.quirk = "by_name"
  <2> DEFINE hits == {i \in DOMAIN run.rules : r.ruleId # Null /\ run.rules[i].id = r.ruleId}
  <2>1. hits = {2}
    BY <1>0
  <2>2. SarifRuleTags(run, r) =
           LET named == IF hits = {} THEN Null
                        ELSE run.rules[CHOOSE i \in hits : \A j \in hits : i <= j]
           IN  IF named = Null THEN <<>> ELSE named.tags
    BY <1>3 DEF SarifRuleTags, FirstOf
  <2> HIDE DEF hits
  <2>3. (CHOOSE i \in hits : \A j \in hits : i <= j) = 2
    BY <2>1, OnlyHit
  <2> QED BY <2>1, <2>2, <2>3
<1> QED BY <1>2, <1>3

\* Each format makes that row of a report.
LEMMA SemgrepRowIs ==
    ASSUME NEW s \in PossibleReports, s.feed \in {"semgrep_json", "semgrep_sarif"}
    PROVE  Rows[s] = {SemgrepRow(s.flaw, s.line)}
<1>1. s.flaw \in Flaws /\ Rows[s] = RowsOf(s)
  BY ReportIs
<1>2. CASE s.feed = "semgrep_json"
  <2> DEFINE key == SemgrepKey(s, ".json")
             r == [check_id |-> s.flaw.rule, path |-> s.flaw.file, line |-> s.line,
                   severity |-> "WARNING", cwe |-> Tags(s.flaw, "CWE-")]
  <2>1. DetectFormat(key) = "json" /\ SemgrepJson(s).results = {r}
    BY DEF DetectFormat, SemgrepKey, SemgrepJson
  <2>2. RecordToSilverJson(key, r) = SemgrepRow(s.flaw, s.line)
    BY <1>1, CweOfTags, SemgrepFindingIs DEF RecordToSilverJson
  <2> HIDE DEF key, r
  <2>3. TransformArtefact(key, SemgrepJson(s)) = {SemgrepRow(s.flaw, s.line)}
    BY <2>1, <2>2 DEF TransformArtefact
  <2> QED BY <1>1, <1>2, <2>3 DEF RowsOf, key
<1>3. CASE s.feed = "semgrep_sarif"
  <2> DEFINE key == SemgrepKey(s, ".sarif")
             prefix == IF s.quirk = "colon_tag" THEN "CWE:" ELSE "CWE-"
             o == [id |-> "other", tags |-> <<[prefix |-> "CWE-", text |-> "other", isdigit |-> FALSE]>>]
             n == [id |-> s.flaw.rule, tags |-> Tags(s.flaw, prefix)]
             r == [ruleId |-> s.flaw.rule, level |-> "warning",
                   ruleIndex |-> IF s.quirk = "by_name" THEN Null ELSE 1,
                   locations |-> <<[uri |-> s.flaw.file, line |-> s.line]>>]
             run == [rules |-> <<o, n>>, results |-> {r}]
  <2>1. DetectFormat(key) = "sarif" /\ SemgrepSarif(s).runs = {run}
    BY DEF DetectFormat, SemgrepKey, SemgrepSarif
  <2>2. n # Null
    <3> DEFINE Tag == [prefix : STRING, text : STRING, isdigit : BOOLEAN]
    <3>1. Tags(s.flaw, prefix) \in Seq(Tag)
      <4> DEFINE a == [prefix |-> "SECURITY", text |-> "", isdigit |-> FALSE]
                 b == [prefix |-> prefix, text |-> s.flaw.cwe, isdigit |-> TRUE]
      <4>1. a \in Tag /\ (s.flaw.cwe # Null => b \in Tag)
        BY <1>1, FlawIs, LiteralsAssumption
      <4>2. Tags(s.flaw, prefix) = IF s.flaw.cwe = Null THEN <<a>> ELSE <<a, b>>
        <5>1. Tags(s.flaw, prefix) = <<a>> \o (IF s.flaw.cwe = Null THEN <<>> ELSE <<b>>)
          BY DEF Tags
        <5> HIDE DEF a, b
        <5> QED BY <5>1, Appended
      <4> HIDE DEF a, b, Tag
      <4> QED BY <4>1, <4>2, TuplesAreSequences
    <3> HIDE DEF prefix
    <3>2. n \in [id : STRING, tags : Seq(Tag)]
      BY <1>1, <3>1, FlawIs
    <3> HIDE DEF n
    <3> QED BY <3>2, NullAssumption
  <2>3. SarifRuleTags(run, r) = n.tags
    <3>1. run.rules = <<o, n>> /\ o.id = "other" /\ n.id = s.flaw.rule /\ r.ruleId = s.flaw.rule
          /\ r.ruleIndex = IF s.quirk = "by_name" THEN Null ELSE 1
      OBVIOUS
    <3> HIDE DEF run, o, n, r
    <3> QED BY <1>3, <2>2, <3>1, SarifTags
  <2>4. FirstCweFromStrings(n.tags) = IF s.flaw.cwe = Null THEN Null ELSE <<"CWE-", s.flaw.cwe>>
    BY <1>1, CweOfTags
  <2>5. SarifFirstLocation(r) = [uri |-> s.flaw.file, line |-> s.line]
    BY DEF SarifFirstLocation
  <2>6. run.results = {r} /\ r.ruleId = s.flaw.rule /\ r.level = "warning"
    OBVIOUS
  <2> HIDE DEF run, r, n, o, prefix, key
  <2>7. SarifResultToSilver(key, run, r) = SemgrepRow(s.flaw, s.line)
    BY <2>3, <2>4, <2>5, <2>6, SemgrepFindingIs DEF SarifResultToSilver, key
  <2>8. TransformArtefact(key, SemgrepSarif(s)) = {SemgrepRow(s.flaw, s.line)}
    BY <2>1, <2>6, <2>7 DEF TransformArtefact
  <2> QED BY <1>1, <1>3, <2>8 DEF RowsOf, key
<1> QED BY <1>2, <1>3

\* What one scan finds is the same row in both formats.
THEOREM FormatsAgree == InventorySpec => []TwoFormatsOneIssue
<1>1. FeedInv => TwoFormatsOneIssue
  BY SemgrepRowIs DEF FeedInv, BronzeInv, TwoFormatsOneIssue
<1> QED BY <1>1, FeedInvariant, PTL

----------------------------------------------------------------------------
(* The rows of GitHub. *)

\* The columns of a row are those that are given, and NULL.
LEMMA RowIs ==
    ASSUME NEW given
    PROVE  LET row == FindingRow(given)
           IN  /\ DOMAIN row = SilverColumns \union DOMAIN given
               /\ \A c \in DOMAIN given : row[c] = given[c]
               /\ \A c \in SilverColumns \ DOMAIN given : row[c] = Null
BY DEF FindingRow

\* The columns that the three streams share.
Shared == {"finding_id", "tool_source", "repository_id", "url", "first_seen_at", "last_seen_at",
           "trigger_context"}

\* They are filled in from the alert.
LEMMA AlertFindingIs ==
    ASSUME NEW repo, NEW r, NEW stream, NEW own,
           NEW row, row = AlertFinding(repo, r, stream, own)
    PROVE  /\ row.finding_id = <<stream, repo, r.number>> /\ row.tool_source = "github"
           /\ row.repository_id = repo /\ row.trigger_context = "periodic"
           /\ row.first_seen_at = r.created_at /\ row.last_seen_at = r.updated_at
<1> DEFINE base == FindingRow(own)
<1>1. row = [base EXCEPT !.finding_id = <<stream, repo, r.number>>, !.tool_source = "github",
                         !.repository_id = repo, !.url = r.html_url,
                         !.first_seen_at = r.created_at, !.last_seen_at = r.updated_at,
                         !.trigger_context = "periodic"]
  BY DEF AlertFinding
<1>2. /\ DOMAIN base = SilverColumns \union DOMAIN own
      /\ \A c \in DOMAIN own : base[c] = own[c]
      /\ \A c \in SilverColumns \ DOMAIN own : base[c] = Null
  BY RowIs
<1> HIDE DEF base
<1>3. Shared \subseteq DOMAIN base
  BY <1>2 DEF Shared, SilverColumns, RequiredColumns
<1> QED BY <1>1, <1>2, <1>3 DEF Shared

\* The others are the stream's own, and NULL.
LEMMA AlertOwnIs ==
    ASSUME NEW repo, NEW r, NEW stream, NEW own,
           NEW row, row = AlertFinding(repo, r, stream, own)
    PROVE  /\ \A c \in DOMAIN own \ Shared : row[c] = own[c]
           /\ \A c \in SilverColumns \ (Shared \union DOMAIN own) : row[c] = Null
<1> DEFINE base == FindingRow(own)
<1>1. row = [base EXCEPT !.finding_id = <<stream, repo, r.number>>, !.tool_source = "github",
                         !.repository_id = repo, !.url = r.html_url,
                         !.first_seen_at = r.created_at, !.last_seen_at = r.updated_at,
                         !.trigger_context = "periodic"]
  BY DEF AlertFinding
<1>2. /\ DOMAIN base = SilverColumns \union DOMAIN own
      /\ \A c \in DOMAIN own : base[c] = own[c]
      /\ \A c \in SilverColumns \ DOMAIN own : base[c] = Null
  BY RowIs
<1> HIDE DEF base
<1>3. Shared \subseteq DOMAIN base
  BY <1>2 DEF Shared, SilverColumns, RequiredColumns
<1>4. DOMAIN row = DOMAIN base /\ \A c \in DOMAIN base \ Shared : row[c] = base[c]
  BY <1>1, <1>3 DEF Shared
<1> QED BY <1>2, <1>4

\* The columns of a code-scanning alert.
LEMMA CodeScanningIs ==
    ASSUME NEW repo, NEW r
    PROVE  LET row == CodeScanningAlertToFinding(repo, r)
           IN  /\ row.finding_id = <<"github-code", repo, r.number>>
               /\ row.tool_source = "github" /\ row.category = "sast"
               /\ row.severity_canonical = SeverityOrMedium(r.severity)
               /\ row.status_canonical = NormalizeStatus(<<r.state>>, GitHubStatusYml)
               /\ row.rule_id_native = r.rule /\ row.trigger_context = "periodic"
               /\ row.repository_id = repo /\ row.file_path = r.path /\ row.start_line = r.line
               /\ row.cwe_id = Null /\ row.cve_id = Null
               /\ row.first_seen_at = r.created_at /\ row.last_seen_at = r.updated_at
<1> DEFINE own == [category |-> "sast", severity_canonical |-> SeverityOrMedium(r.severity),
                   status_canonical |-> NormalizeStatus(<<r.state>>, GitHubStatusYml),
                   rule_id_native |-> r.rule, file_path |-> r.path, start_line |-> r.line]
           stream == "github-code"
           row == CodeScanningAlertToFinding(repo, r)
<1>1. /\ DOMAIN own = {"category", "severity_canonical", "status_canonical", "rule_id_native", "file_path", "start_line"}
      /\ own.category = "sast"
      /\ own.severity_canonical = SeverityOrMedium(r.severity)
      /\ own.status_canonical = NormalizeStatus(<<r.state>>, GitHubStatusYml)
      /\ own.rule_id_native = r.rule
      /\ own.file_path = r.path
      /\ own.start_line = r.line
  OBVIOUS
<1>2. row = AlertFinding(repo, r, stream, own)
  BY DEF CodeScanningAlertToFinding
<1> HIDE DEF own, row, stream
<1>3. /\ DOMAIN own \intersect Shared = {}
      /\ {"cwe_id", "cve_id"} \subseteq SilverColumns \ (Shared \union DOMAIN own)
  BY <1>1 DEF Shared, SilverColumns, RequiredColumns
<1>4. /\ row.finding_id = <<stream, repo, r.number>> /\ row.tool_source = "github"
      /\ row.repository_id = repo /\ row.trigger_context = "periodic"
      /\ row.first_seen_at = r.created_at /\ row.last_seen_at = r.updated_at
  BY <1>2, AlertFindingIs
<1>5. /\ \A c \in DOMAIN own : row[c] = own[c]
      /\ \A c \in SilverColumns \ (Shared \union DOMAIN own) : row[c] = Null
  BY <1>2, <1>3, AlertOwnIs
<1>6. row.cwe_id = Null /\ row.cve_id = Null
  BY <1>3, <1>5
<1>7. /\ row.category = "sast"
      /\ row.severity_canonical = SeverityOrMedium(r.severity)
      /\ row.status_canonical = NormalizeStatus(<<r.state>>, GitHubStatusYml)
      /\ row.rule_id_native = r.rule
      /\ row.file_path = r.path
      /\ row.start_line = r.line
  BY <1>1, <1>5
<1> QED BY <1>4, <1>5, <1>6, <1>7 DEF row, stream

\* Those of a secret-scanning alert.
LEMMA SecretScanningIs ==
    ASSUME NEW repo, NEW r
    PROVE  LET row == SecretScanningAlertToFinding(repo, r)
           IN  /\ row.finding_id = <<"github-secret", repo, r.number>>
               /\ row.tool_source = "github" /\ row.category = "secret"
               /\ row.severity_canonical = "high"
               /\ row.status_canonical =
                     NormalizeStatus(ComposeStatusKey(r.state, r.resolution), GitHubStatusYml)
               /\ row.rule_id_native = r.secret_type /\ row.trigger_context = "periodic"
               /\ row.secret_type = r.secret_type
               /\ row.repository_id = repo /\ row.file_path = r.path /\ row.start_line = r.line
               /\ row.cwe_id = Null /\ row.cve_id = Null
               /\ row.first_seen_at = r.created_at /\ row.last_seen_at = r.updated_at
<1> DEFINE own == [category |-> "secret", severity_canonical |-> "high",
                   status_canonical |->
                      NormalizeStatus(ComposeStatusKey(r.state, r.resolution), GitHubStatusYml),
                   rule_id_native |-> r.secret_type, secret_type |-> r.secret_type,
                   file_path |-> r.path, start_line |-> r.line]
           stream == "github-secret"
           row == SecretScanningAlertToFinding(repo, r)
<1>1. /\ DOMAIN own = {"category", "severity_canonical", "status_canonical", "rule_id_native", "secret_type", "file_path", "start_line"}
      /\ own.category = "secret"
      /\ own.severity_canonical = "high"
      /\ own.status_canonical = NormalizeStatus(ComposeStatusKey(r.state, r.resolution), GitHubStatusYml)
      /\ own.rule_id_native = r.secret_type
      /\ own.secret_type = r.secret_type
      /\ own.file_path = r.path
      /\ own.start_line = r.line
  OBVIOUS
<1>2. row = AlertFinding(repo, r, stream, own)
  BY DEF SecretScanningAlertToFinding
<1> HIDE DEF own, row, stream
<1>3. /\ DOMAIN own \intersect Shared = {}
      /\ {"cwe_id", "cve_id"} \subseteq SilverColumns \ (Shared \union DOMAIN own)
  BY <1>1 DEF Shared, SilverColumns, RequiredColumns
<1>4. /\ row.finding_id = <<stream, repo, r.number>> /\ row.tool_source = "github"
      /\ row.repository_id = repo /\ row.trigger_context = "periodic"
      /\ row.first_seen_at = r.created_at /\ row.last_seen_at = r.updated_at
  BY <1>2, AlertFindingIs
<1>5. /\ \A c \in DOMAIN own : row[c] = own[c]
      /\ \A c \in SilverColumns \ (Shared \union DOMAIN own) : row[c] = Null
  BY <1>2, <1>3, AlertOwnIs
<1>6. row.cwe_id = Null /\ row.cve_id = Null
  BY <1>3, <1>5
<1>7. /\ row.category = "secret"
      /\ row.severity_canonical = "high"
      /\ row.status_canonical = NormalizeStatus(ComposeStatusKey(r.state, r.resolution), GitHubStatusYml)
      /\ row.rule_id_native = r.secret_type
      /\ row.secret_type = r.secret_type
      /\ row.file_path = r.path
      /\ row.start_line = r.line
  BY <1>1, <1>5
<1> QED BY <1>4, <1>5, <1>6, <1>7 DEF row, stream

\* Those of a Dependabot alert.
LEMMA DependabotIs ==
    ASSUME NEW repo, NEW r
    PROVE  LET row == DependabotAlertToFinding(repo, r)
           IN  /\ row.finding_id = <<"github-dependabot", repo, r.number>>
               /\ row.tool_source = "github" /\ row.category = "sca"
               /\ row.severity_canonical = TruthySeverityOrMedium(r.severity)
               /\ row.status_canonical = NormalizeStatus(<<r.state>>, GitHubStatusYml)
               /\ row.rule_id_native = (IF r.cve_id = Null THEN <<"GHSA-", r.number>> ELSE r.cve_id)
               /\ row.trigger_context = "periodic" /\ row.package_name = r.package
               /\ row.repository_id = repo /\ row.file_path = Null /\ row.start_line = Null
               /\ row.cwe_id = Null /\ row.cve_id = r.cve_id
               /\ row.first_seen_at = r.created_at /\ row.last_seen_at = r.updated_at
<1> DEFINE own == [category |-> "sca", severity_canonical |-> TruthySeverityOrMedium(r.severity),
                   status_canonical |-> NormalizeStatus(<<r.state>>, GitHubStatusYml),
                   rule_id_native |-> IF r.cve_id = Null THEN <<"GHSA-", r.number>> ELSE r.cve_id,
                   package_name |-> r.package, cve_id |-> r.cve_id]
           stream == "github-dependabot"
           row == DependabotAlertToFinding(repo, r)
<1>1. /\ DOMAIN own = {"category", "severity_canonical", "status_canonical", "rule_id_native", "package_name", "cve_id"}
      /\ own.category = "sca"
      /\ own.severity_canonical = TruthySeverityOrMedium(r.severity)
      /\ own.status_canonical = NormalizeStatus(<<r.state>>, GitHubStatusYml)
      /\ own.rule_id_native = (IF r.cve_id = Null THEN <<"GHSA-", r.number>> ELSE r.cve_id)
      /\ own.package_name = r.package
      /\ own.cve_id = r.cve_id
  OBVIOUS
<1>2. row = AlertFinding(repo, r, stream, own)
  BY DEF DependabotAlertToFinding
<1> HIDE DEF own, row, stream
<1>3. /\ DOMAIN own \intersect Shared = {}
      /\ {"cwe_id", "file_path", "start_line"} \subseteq SilverColumns \ (Shared \union DOMAIN own)
  BY <1>1 DEF Shared, SilverColumns, RequiredColumns
<1>4. /\ row.finding_id = <<stream, repo, r.number>> /\ row.tool_source = "github"
      /\ row.repository_id = repo /\ row.trigger_context = "periodic"
      /\ row.first_seen_at = r.created_at /\ row.last_seen_at = r.updated_at
  BY <1>2, AlertFindingIs
<1>5. /\ \A c \in DOMAIN own : row[c] = own[c]
      /\ \A c \in SilverColumns \ (Shared \union DOMAIN own) : row[c] = Null
  BY <1>2, <1>3, AlertOwnIs
<1>6. row.cwe_id = Null /\ row.file_path = Null /\ row.start_line = Null
  BY <1>3, <1>5
<1>7. /\ row.category = "sca"
      /\ row.severity_canonical = TruthySeverityOrMedium(r.severity)
      /\ row.status_canonical = NormalizeStatus(<<r.state>>, GitHubStatusYml)
      /\ row.rule_id_native = (IF r.cve_id = Null THEN <<"GHSA-", r.number>> ELSE r.cve_id)
      /\ row.package_name = r.package
      /\ row.cve_id = r.cve_id
  BY <1>1, <1>5
<1> QED BY <1>4, <1>5, <1>6, <1>7 DEF row, stream

\* What the streams report of a flaw.
LEMMA GitHubAlertIs ==
    ASSUME NEW s \in PossibleReports, s.feed \in {"github_code", "github_secret", "dependabot"}
    PROVE  LET r == GitHubAlert(s)
           IN  /\ r.number = s.flaw.name /\ r.created_at = 0 /\ r.updated_at = 1
               /\ r.rule = s.flaw.rule /\ r.secret_type = s.flaw.rule /\ r.path = s.flaw.file
               /\ r.line = s.line /\ r.package = s.flaw.package /\ r.cve_id = s.flaw.cve
               /\ SeverityOrMedium(r.severity) \in {"high", "medium"}
               /\ TruthySeverityOrMedium(r.severity) \in {"high", "medium"}
               /\ s.feed = "github_secret" =>
                     NormalizeStatus(ComposeStatusKey(r.state, r.resolution), GitHubStatusYml)
                       = In(s.state, "open", "open", IF s.quirk = "wont_fix" THEN "wontfix" ELSE "false_positive",
                            "resolved")
               /\ s.feed # "github_secret" =>
                     NormalizeStatus(<<r.state>>, GitHubStatusYml)
                       = In(s.state, "open", "open", "wontfix", "resolved")
<1> DEFINE r == GitHubAlert(s)
<1>1. /\ r.number = s.flaw.name /\ r.created_at = 0 /\ r.updated_at = 1
      /\ r.rule = s.flaw.rule /\ r.secret_type = s.flaw.rule /\ r.path = s.flaw.file
      /\ r.line = s.line /\ r.package = s.flaw.package /\ r.cve_id = s.flaw.cve
      /\ r.severity = (IF s.quirk = "unrated" THEN Null ELSE "high")
      /\ r.state = (CASE s.feed = "github_secret" -> In(s.state, "open", "open", "resolved", "resolved")
                      [] s.quirk = "auto"         -> In(s.state, "open", "open", "auto_dismissed", "fixed")
                      [] OTHER                    -> In(s.state, "open", "open", "dismissed", "fixed"))
      /\ r.resolution = In(s.state, Null, Null, s.quirk, "revoked")
  BY DEF GitHubAlert
<1>2. s.state \in States
  BY ReportIs
<1>3. /\ SeverityOrMedium(r.severity) \in {"high", "medium"}
      /\ TruthySeverityOrMedium(r.severity) \in {"high", "medium"}
  <2>1. "high" # Null
    BY NullIsNone, LiteralsAssumption
  <2> HIDE DEF r
  <2> QED BY <1>1, <2>1, GitHubSeverityOf
       DEF SeverityOrMedium, TruthySeverityOrMedium, NormalizeSeverity
<1>4. ASSUME s.feed = "github_secret"
      PROVE  NormalizeStatus(ComposeStatusKey(r.state, r.resolution), GitHubStatusYml)
               = In(s.state, "open", "open", IF s.quirk = "wont_fix" THEN "wontfix" ELSE "false_positive",
                    "resolved")
  <2>1. r.state = In(s.state, "open", "open", "resolved", "resolved")
    <3>1. s.quirk # "auto"
      BY <1>4, QuirkIs
    <3> HIDE DEF r
    <3> QED BY <1>1, <1>4, <3>1
  <2>2. s.quirk \in {"false_positive", "wont_fix", "used_in_tests"}
    BY <1>4, QuirkIs
  <2>3. "open" # Null /\ "resolved" # Null /\ "revoked" # Null
    BY NullIsNone, LiteralsAssumption
  <2>5. s.quirk # Null
    BY <2>2, NullIsNone, LiteralsAssumption
  <2> HIDE DEF r
  <2>4. ComposeStatusKey(r.state, r.resolution)
          = In(s.state, <<"open">>, <<"open">>, <<"resolved", s.quirk>>, <<"resolved", "revoked">>)
    BY <1>1, <1>2, <2>1, <2>3, <2>5 DEF ComposeStatusKey, Or, In, States
  <2> QED BY <1>2, <2>2, <2>4, GitHubStatusOf DEF NormalizeStatus, In, States
<1>5. ASSUME s.feed # "github_secret"
      PROVE  NormalizeStatus(<<r.state>>, GitHubStatusYml) = In(s.state, "open", "open", "wontfix", "resolved")
  <2>1. r.state = IF s.quirk = "auto" THEN In(s.state, "open", "open", "auto_dismissed", "fixed") 
                 ELSE In(s.state, "open", "open", "dismissed", "fixed")
    BY <1>1, <1>5
  <2> HIDE DEF r
  <2> QED BY <1>2, <2>1, GitHubStatusOf DEF NormalizeStatus, In, States
<1> QED BY <1>1, <1>3, <1>4, <1>5

\* The row of a code-scanning alert.
LEMMA CodeRowIs ==
    ASSUME NEW s \in PossibleReports, s.feed = "github_code", NEW row \in Rows[s]
    PROVE  /\ row.finding_id = <<"github-code", Id(s.flaw.repo), s.flaw.name>>
           /\ row.tool_source = "github" /\ row.category = "sast"
           /\ row.severity_canonical \in {"high", "medium"}
           /\ row.status_canonical = In(s.state, "open", "open", "wontfix", "resolved")
           /\ row.repository_id = Id(s.flaw.repo) /\ row.trigger_context = "periodic"
           /\ row.first_seen_at = 0 /\ row.last_seen_at = 1
           /\ row.rule_id_native = s.flaw.rule /\ row.file_path = s.flaw.file /\ row.start_line = s.line
           /\ row.cwe_id = Null /\ row.cve_id = Null
<1> DEFINE repo == Id(s.flaw.repo)
           r == GitHubAlert(s)
<1>1. row = CodeScanningAlertToFinding(repo, r)
  BY ReportIs DEF RowsOf
<1>2. /\ r.number = s.flaw.name /\ r.created_at = 0 /\ r.updated_at = 1
      /\ r.rule = s.flaw.rule /\ r.secret_type = s.flaw.rule /\ r.path = s.flaw.file
      /\ r.line = s.line /\ r.package = s.flaw.package /\ r.cve_id = s.flaw.cve
      /\ SeverityOrMedium(r.severity) \in {"high", "medium"}
  BY GitHubAlertIs
<1>3. NormalizeStatus(<<r.state>>, GitHubStatusYml) = In(s.state, "open", "open", "wontfix", "resolved")
  BY GitHubAlertIs
<1> HIDE DEF r
<1> QED BY <1>1, <1>2, <1>3, CodeScanningIs DEF repo

\* The row of a secret-scanning alert.
LEMMA SecretRowIs ==
    ASSUME NEW s \in PossibleReports, s.feed = "github_secret", NEW row \in Rows[s]
    PROVE  /\ row.finding_id = <<"github-secret", Id(s.flaw.repo), s.flaw.name>>
           /\ row.tool_source = "github" /\ row.category = "secret"
           /\ row.severity_canonical = "high"
           /\ row.status_canonical = In(s.state, "open", "open", IF s.quirk = "wont_fix" THEN "wontfix"
                                                      ELSE "false_positive", "resolved")
           /\ row.repository_id = Id(s.flaw.repo) /\ row.trigger_context = "periodic"
           /\ row.first_seen_at = 0 /\ row.last_seen_at = 1
           /\ row.rule_id_native = s.flaw.rule /\ row.secret_type = s.flaw.rule
           /\ row.file_path = s.flaw.file /\ row.start_line = s.line
<1> DEFINE repo == Id(s.flaw.repo)
           r == GitHubAlert(s)
<1>1. row = SecretScanningAlertToFinding(repo, r)
  BY ReportIs DEF RowsOf
<1>2. /\ r.number = s.flaw.name /\ r.created_at = 0 /\ r.updated_at = 1
      /\ r.rule = s.flaw.rule /\ r.secret_type = s.flaw.rule /\ r.path = s.flaw.file
      /\ r.line = s.line /\ r.package = s.flaw.package /\ r.cve_id = s.flaw.cve
      /\ SeverityOrMedium(r.severity) \in {"high", "medium"}
  BY GitHubAlertIs
<1>3. NormalizeStatus(ComposeStatusKey(r.state, r.resolution), GitHubStatusYml)
         = In(s.state, "open", "open", IF s.quirk = "wont_fix" THEN "wontfix" ELSE "false_positive",
              "resolved")
  BY GitHubAlertIs
<1> HIDE DEF r
<1> QED BY <1>1, <1>2, <1>3, SecretScanningIs DEF repo

\* The row of a Dependabot alert.
LEMMA DependabotRowIs ==
    ASSUME NEW s \in PossibleReports, s.feed = "dependabot", NEW row \in Rows[s]
    PROVE  /\ row.finding_id = <<"github-dependabot", Id(s.flaw.repo), s.flaw.name>>
           /\ row.tool_source = "github" /\ row.category = "sca"
           /\ row.severity_canonical \in {"high", "medium"}
           /\ row.status_canonical = In(s.state, "open", "open", "wontfix", "resolved")
           /\ row.repository_id = Id(s.flaw.repo) /\ row.trigger_context = "periodic"
           /\ row.first_seen_at = 0 /\ row.last_seen_at = 1
           /\ row.rule_id_native = (IF s.flaw.cve = Null THEN <<"GHSA-", s.flaw.name>> ELSE s.flaw.cve)
           /\ row.package_name = s.flaw.package /\ row.cve_id = s.flaw.cve
<1> DEFINE repo == Id(s.flaw.repo)
           r == GitHubAlert(s)
<1>1. row = DependabotAlertToFinding(repo, r)
  BY ReportIs DEF RowsOf
<1>2. /\ r.number = s.flaw.name /\ r.created_at = 0 /\ r.updated_at = 1
      /\ r.rule = s.flaw.rule /\ r.secret_type = s.flaw.rule /\ r.path = s.flaw.file
      /\ r.line = s.line /\ r.package = s.flaw.package /\ r.cve_id = s.flaw.cve
      /\ TruthySeverityOrMedium(r.severity) \in {"high", "medium"}
  BY GitHubAlertIs
<1>3. NormalizeStatus(<<r.state>>, GitHubStatusYml) = In(s.state, "open", "open", "wontfix", "resolved")
  BY GitHubAlertIs
<1> HIDE DEF r
<1> QED BY <1>1, <1>2, <1>3, DependabotIs DEF repo

----------------------------------------------------------------------------
(* The rows of GitLab. *)

\* The CWE and the CVE that the projection picks from the identifiers are the
\* flaw's, whether an identifier comes with an id or only with a name.
LEMMA IdentifiersAre ==
    ASSUME NEW s \in PossibleReports, s.feed = "gitlab"
    PROVE  /\ GitLabCwe(Vulnerability(s)) = IF s.flaw.cwe = Null THEN Null ELSE <<"CWE-", s.flaw.cwe>>
           /\ GitLabCve(Vulnerability(s)) = s.flaw.cve
<1> DEFINE named(type, text) ==
              [external_type |-> type, name |-> [prefix |-> type, text |-> text],
               external_id |-> IF s.quirk = "name" THEN Null ELSE [prefix |-> "", text |-> text]]
           c == named("cve", s.flaw.cve)
           w == named("cwe", s.flaw.cwe)
           r == Vulnerability(s)
           list == r.identifiers
           cves == {i \in DOMAIN list : list[i].external_type = "cve"}
           cwes == {i \in DOMAIN list : list[i].external_type = "cwe" /\ ValueOf(list[i]) # Null}
<1>0. s.flaw.cve \in STRING \union {Null} /\ s.flaw.cwe \in STRING \union {Null}
  BY ReportIs, FlawIs
<1>1. r.cve = Null /\ list = (IF s.flaw.cve = Null THEN <<>> ELSE <<c>>)
                             \o (IF s.flaw.cwe = Null THEN <<>> ELSE <<w>>)
  BY DEF Vulnerability
<1>2. /\ c.external_type = "cve" /\ w.external_type = "cwe"
      /\ ValueOf(c).text = s.flaw.cve /\ ValueOf(w).text = s.flaw.cwe
  BY DEF ValueOf
<1>3. ASSUME NEW type \in {"cve", "cwe"}, NEW text \in STRING
      PROVE  named(type, text) # Null /\ ValueOf(named(type, text)) # Null
  <2> DEFINE Text == [prefix : STRING, text : STRING]
             id == IF s.quirk = "name" THEN Null ELSE [prefix |-> "", text |-> text]
             name == [prefix |-> type, text |-> text]
  <2>1. type \in STRING /\ "" \in STRING
    BY LiteralsAssumption
  <2>2. name \in Text /\ [prefix |-> "", text |-> text] \in Text
    BY <2>1
  <2>3. name # Null /\ [prefix |-> "", text |-> text] # Null /\ id \in Text \union {Null}
    BY <2>2, NullAssumption
  <2> DEFINE value == [external_type |-> type, name |-> name, external_id |-> id]
  <2>4. named(type, text) = value
    OBVIOUS
  <2> HIDE DEF name, id, Text, named
  <2>5. value \in [external_type : STRING, name : Text, external_id : Text \union {Null}]
    BY <2>1, <2>2, <2>3
  <2>6. value # Null
    <3> HIDE DEF value
    <3> QED BY <2>5, NullAssumption DEF Text
  <2>7. ValueOf(value) # Null
    <3>1. value.name = name /\ value.external_id = id
      OBVIOUS
    <3> HIDE DEF value
    <3> QED BY <2>3, <3>1 DEF ValueOf
  <2> QED BY <2>4, <2>6, <2>7
<1>4. /\ s.flaw.cve # Null => c # Null
      /\ s.flaw.cwe # Null => w # Null /\ ValueOf(w) # Null
  BY <1>0, <1>3
<1> HIDE DEF named, c, w, r
<1>5. list = IF s.flaw.cve = Null THEN IF s.flaw.cwe = Null THEN <<>> ELSE <<w>>
             ELSE IF s.flaw.cwe = Null THEN <<c>> ELSE <<c, w>>
  <2>1. \A x : <<>> \o <<x>> = <<x>>
    OBVIOUS
  <2>2. <<>> \o <<>> = <<>>
    OBVIOUS
  <2> HIDE DEF list
  <2> QED BY <1>1, <2>1, <2>2, Appended
<1> HIDE DEF list
<1>6. cves = IF s.flaw.cve = Null THEN {} ELSE {1}
  BY <1>2, <1>5
<1>7. cwes = IF s.flaw.cwe = Null THEN {} ELSE IF s.flaw.cve = Null THEN {1} ELSE {2}
  BY <1>2, <1>4, <1>5
<1>8. GitLabCve(r) = LET first == IF cves = {} THEN Null
                                  ELSE list[CHOOSE i \in cves : \A j \in cves : i <= j]
                     IN  CASE r.cve # Null -> r.cve
                           [] r.cve = Null /\ first = Null -> Null
                           [] r.cve = Null /\ first # Null -> ValueOf(first).text
  BY DEF GitLabCve, FirstOf, list
<1>9. GitLabCwe(r) = LET first == IF cwes = {} THEN Null
                                  ELSE list[CHOOSE i \in cwes : \A j \in cwes : i <= j]
                     IN  IF first = Null THEN Null ELSE <<"CWE-", ValueOf(first).text>>
  BY DEF GitLabCwe, FirstOf, list
<1> HIDE DEF cves, cwes
<1>10. GitLabCve(r) = s.flaw.cve
  <2>1. CASE s.flaw.cve = Null
    BY <1>1, <1>6, <1>8, <2>1
  <2>2. CASE s.flaw.cve # Null
    <3>1. (CHOOSE i \in cves : \A j \in cves : i <= j) = 1
      BY <1>6, <2>2, OnlyHit
    <3>2. list[1] = c
      BY <1>5, <2>2
    <3> QED BY <1>1, <1>2, <1>4, <1>6, <1>8, <2>2, <3>1, <3>2
  <2> QED BY <2>1, <2>2
<1>11. GitLabCwe(r) = IF s.flaw.cwe = Null THEN Null ELSE <<"CWE-", s.flaw.cwe>>
  <2>1. CASE s.flaw.cwe = Null
    BY <1>7, <1>9, <2>1
  <2>2. CASE s.flaw.cwe # Null
    <3> DEFINE k == IF s.flaw.cve = Null THEN 1 ELSE 2
    <3>1. (CHOOSE i \in cwes : \A j \in cwes : i <= j) = k
      BY <1>7, <2>2, OnlyHit
    <3>2. list[k] = w
      BY <1>5, <2>2
    <3> QED BY <1>2, <1>4, <1>7, <1>9, <2>2, <3>1, <3>2
  <2> QED BY <2>1, <2>2
<1> QED BY <1>10, <1>11 DEF r

\* The columns of a vulnerability, before its callers complete it.
LEMMA VulnerabilityIs ==
    ASSUME NEW project, NEW r
    PROVE  LET row == VulnerabilityToFinding(project, r)
           IN  /\ row.finding_id = <<"gitlab-vuln", r.id>> /\ row.tool_source = "gitlab"
               /\ row.severity_native = r.severity /\ row.status_native = r.state
               /\ row.rule_id_native = r.name /\ row.repository_id = project
               /\ row.file_path = r.file /\ row.start_line = r.line
               /\ row.package_name = r.package /\ row.trigger_context = "periodic"
               /\ row.first_seen_at = r.created_at /\ row.last_seen_at = r.updated_at
BY DEF VulnerabilityToFinding, FindingRow, SilverColumns, RequiredColumns

\* Those that it works out.
LEMMA VulnerabilityNames ==
    ASSUME NEW project, NEW r
    PROVE  LET row == VulnerabilityToFinding(project, r)
           IN  /\ row.category = ReportTypeToCategory(Or(r.report_type, ""))
               /\ row.cwe_id = GitLabCwe(r) /\ row.cve_id = GitLabCve(r)
BY DEF VulnerabilityToFinding, FindingRow, SilverColumns, RequiredColumns

\* The row of a vulnerability.
LEMMA GitLabRowIs ==
    ASSUME NEW s \in PossibleReports, s.feed = "gitlab", NEW row \in Rows[s]
    PROVE  /\ row.finding_id = <<"gitlab-vuln", s.flaw.name>> /\ row.tool_source = "gitlab"
           /\ row.category = (IF s.flaw.kind = "code" THEN "sast" ELSE "sca")
           /\ row.severity_canonical = "medium"
           /\ row.status_canonical = In(s.state, "open", "confirmed", "false_positive", "resolved")
           /\ row.cwe_id = (IF s.flaw.cwe = Null THEN Null ELSE <<"CWE-", s.flaw.cwe>>)
           /\ row.cve_id = s.flaw.cve /\ row.rule_id_native = s.flaw.rule
           /\ row.repository_id = Id(s.flaw.repo) /\ row.file_path = s.flaw.file
           /\ row.start_line = s.line /\ row.package_name = s.flaw.package
           /\ row.trigger_context = "periodic" /\ row.first_seen_at = 0 /\ row.last_seen_at = 1
<1> DEFINE r == Vulnerability(s)
           project == Id(s.flaw.repo)
           given == VulnerabilityToFinding(project, r)
<1>0. s.state \in States
  BY ReportIs
<1>1. row = [given EXCEPT
                !.severity_canonical = NormalizeSeverity(given.severity_native, GitLabSeverityYml),
                !.status_canonical   = NormalizeStatus(given.status_native, GitLabStatusYml)]
  BY ReportIs DEF RowsOf, GitLabRow
<1>2. /\ r.id = s.flaw.name /\ r.name = s.flaw.rule /\ r.severity = "medium"
      /\ r.report_type = (IF s.flaw.kind = "code" THEN "sast" ELSE "dependency_scanning")
      /\ r.state = In(s.state, "detected", "confirmed", "dismissed", "resolved") /\ r.file = s.flaw.file
      /\ r.line = s.line /\ r.package = s.flaw.package /\ r.created_at = 0 /\ r.updated_at = 1
  BY DEF Vulnerability
<1>3. /\ GitLabCwe(r) = (IF s.flaw.cwe = Null THEN Null ELSE <<"CWE-", s.flaw.cwe>>)
      /\ GitLabCve(r) = s.flaw.cve
  BY IdentifiersAre
<1>4. ReportTypeToCategory(Or(r.report_type, "")) = IF s.flaw.kind = "code" THEN "sast" ELSE "sca"
  <2>1. "sast" # Null /\ "dependency_scanning" # Null
    BY NullIsNone, LiteralsAssumption
  <2>2. Or("sast", "") = "sast" /\ Or("dependency_scanning", "") = "dependency_scanning"
    BY <2>1 DEF Or
  <2>3. ReportTypeToCategory("sast") = "sast" /\ ReportTypeToCategory("dependency_scanning") = "sca"
    BY DEF ReportTypeToCategory
  <2> HIDE DEF r
  <2> QED BY <1>2, <2>2, <2>3
<1>20. {"finding_id", "tool_source", "category", "cwe_id", "cve_id", "rule_id_native",
       "repository_id", "file_path", "start_line", "package_name", "trigger_context",
       "first_seen_at", "last_seen_at", "severity_canonical", "status_canonical"}
         \subseteq DOMAIN given
  BY DEF VulnerabilityToFinding, FindingRow, SilverColumns, RequiredColumns
<1>21. given = VulnerabilityToFinding(project, r)
  OBVIOUS
<1> HIDE DEF r, given, project
<1>22. /\ given.category = ReportTypeToCategory(Or(r.report_type, ""))
      /\ given.cwe_id = GitLabCwe(r) /\ given.cve_id = GitLabCve(r)
  BY <1>21, VulnerabilityNames
<1>5. /\ given.severity_native = "medium"
      /\ given.status_native = In(s.state, "detected", "confirmed", "dismissed", "resolved")
  BY <1>2, <1>21, VulnerabilityIs
<1>6. row.severity_canonical = "medium"
  BY <1>1, <1>5, <1>20, GitLabSeverityOf DEF NormalizeSeverity
<1>7. row.status_canonical = In(s.state, "open", "confirmed", "false_positive", "resolved")
  <2>1. NormalizeStatus(given.status_native, GitLabStatusYml)
          = In(s.state, "open", "confirmed", "false_positive", "resolved")
    BY <1>0, <1>5, GitLabStatusOf DEF NormalizeStatus, In, States
  <2> QED BY <1>1, <1>20, <2>1
<1>8. \A column \in {"finding_id", "tool_source", "category", "cwe_id", "cve_id", "rule_id_native",
                     "repository_id", "file_path", "start_line", "package_name",
                     "trigger_context", "first_seen_at", "last_seen_at"} :
         row[column] = given[column]
  BY <1>1, <1>20
<1>9. /\ given.category = (IF s.flaw.kind = "code" THEN "sast" ELSE "sca")
      /\ given.cwe_id = (IF s.flaw.cwe = Null THEN Null ELSE <<"CWE-", s.flaw.cwe>>)
      /\ given.cve_id = s.flaw.cve
  BY <1>3, <1>4, <1>22
<1>10. /\ given.finding_id = <<"gitlab-vuln", s.flaw.name>> /\ given.tool_source = "gitlab"
       /\ given.rule_id_native = s.flaw.rule
       /\ given.repository_id = project /\ given.file_path = s.flaw.file
       /\ given.start_line = s.line /\ given.package_name = s.flaw.package
       /\ given.trigger_context = "periodic" /\ given.first_seen_at = 0 /\ given.last_seen_at = 1
  BY <1>2, <1>21, VulnerabilityIs
<1> QED BY <1>6, <1>7, <1>8, <1>9, <1>10 DEF project

----------------------------------------------------------------------------
(* The rows of Dependency-Track. *)

\* The second of two identifiers is the first CVE, if only it is one.
LEMMA FirstCve ==
    ASSUME NEW a, NEW b, ~IsCve(a), IsCve(b)
    PROVE  FirstOf(<<>>, IsCve) = Null /\ FirstOf(<<a, b>>, IsCve) = b
<1>1. {i \in DOMAIN <<>> : IsCve(<<>>[i])} = {}
  OBVIOUS
<1>2. {i \in DOMAIN <<a, b>> : IsCve(<<a, b>>[i])} = {2}
  OBVIOUS
<1>3. FirstOf(<<>>, IsCve) = Null
  BY <1>1 DEF FirstOf
<1>4. FirstOf(<<a, b>>, IsCve) = b
  <2> DEFINE hits == {i \in DOMAIN <<a, b>> : IsCve(<<a, b>>[i])}
  <2>1. FirstOf(<<a, b>>, IsCve) =
           IF hits = {} THEN Null ELSE <<a, b>>[CHOOSE i \in hits : \A j \in hits : i <= j]
    BY DEF FirstOf
  <2>2. hits = {2}
    BY <1>2
  <2> HIDE DEF hits
  <2>3. (CHOOSE i \in hits : \A j \in hits : i <= j) = 2
    BY <2>2, OnlyHit
  <2> QED BY <2>1, <2>2, <2>3
<1> QED BY <1>3, <1>4

\* Whether an advisory goes by an id of its own.
Aliased(s) == s.quirk = "osv" \/ s.flaw.cve = Null

\* The state of its analysis.
AnalysisOf(s) == In(s.state, IF s.quirk = "triaged" THEN "IN_TRIAGE" ELSE "NOT_SET", "EXPLOITABLE",
                    "FALSE_POSITIVE", "RESOLVED")

\* The payload of a finding names the flaw's CVE whatever the advisory goes by.
LEMMA PayloadIs ==
    ASSUME NEW s \in PossibleReports, s.feed = "dependency_track"
    PROVE  LET b == DTPayload(s)
           IN  /\ b.repository_id = Id(s.flaw.repo) /\ b.package_name = s.flaw.package
               /\ b.cve_id = s.flaw.cve /\ b.cwe_id = s.flaw.cwe /\ b.attributed_on = 0
               /\ b.vuln_id_native = (IF Aliased(s) THEN s.flaw.rule ELSE s.flaw.cve)
               /\ b.advisory_source = (IF Aliased(s) THEN "OSV" ELSE "NVD")
               /\ b.severity_native = (IF s.quirk = "unscored" THEN "UNASSIGNED" ELSE "HIGH")
               /\ b.cvss_v3 = (IF s.quirk = "unscored" THEN 70 ELSE Null)
               /\ b.suppressed = (s.quirk = "suppressed" /\ s.state = "dismissed")
               /\ ~b.suppressed => b.state = AnalysisOf(s)
<1> DEFINE cve == [kind |-> "CVE", text |-> s.flaw.cve]
           own == [kind |-> "GHSA", text |-> s.flaw.rule]
           vulnerability == [vulnId |-> IF Aliased(s) THEN own ELSE cve,
                             source |-> IF Aliased(s) THEN "OSV" ELSE "NVD",
                             aliases |-> IF Aliased(s) /\ s.flaw.cve # Null THEN <<own, cve>> ELSE <<>>,
                             severity |-> IF s.quirk = "unscored" THEN "UNASSIGNED" ELSE "HIGH",
                             cvssV3 |-> IF s.quirk = "unscored" THEN 70 ELSE Null,
                             cweId |-> s.flaw.cwe]
           suppressed == s.quirk = "suppressed" /\ s.state = "dismissed"
           finding == [package |-> s.flaw.package, attributedOn |-> 0,
                       state |-> IF s.quirk = "suppressed" /\ s.state = "dismissed" THEN "NOT_SET"
                                 ELSE AnalysisOf(s),
                       isSuppressed |-> s.quirk = "suppressed" /\ s.state = "dismissed",
                       vulnerability |-> vulnerability]
           project == [repository_id |-> Id(s.flaw.repo)]
           b == DTPayload(s)
<1>1. b = FlattenFinding(project, finding)
  BY DEF DTPayload, Aliased, AnalysisOf
<1>2. /\ ~IsCve(own) /\ (s.flaw.cve # Null => IsCve(cve)) /\ own # Null
      /\ own.text = s.flaw.rule /\ cve.text = s.flaw.cve
  <2>1. own \in [kind : STRING, text : STRING]
        /\ (s.flaw.cve # Null => cve \in [kind : STRING, text : STRING])
    BY ReportIs, FlawIs, LiteralsAssumption
  <2>2. own # Null /\ (s.flaw.cve # Null => cve # Null)
    <3> HIDE DEF own, cve
    <3> QED BY <2>1, NullAssumption
  <2> QED BY <2>2 DEF IsCve
<1>3. ExtractCveId(vulnerability) = s.flaw.cve
  <2>1. /\ vulnerability.vulnId = (IF Aliased(s) THEN own ELSE cve)
        /\ vulnerability.aliases = (IF Aliased(s) /\ s.flaw.cve # Null THEN <<own, cve>> ELSE <<>>)
    OBVIOUS
  <2> HIDE DEF vulnerability, own, cve
  <2>2. s.flaw.cve # Null => FirstOf(<<own, cve>>, IsCve) = cve /\ cve # Null
    BY <1>2, FirstCve DEF IsCve
  <2>3. FirstOf(<<>>, IsCve) = Null
    BY DEF FirstOf
  <2>4. CASE ~Aliased(s)
    BY <1>2, <2>1, <2>4 DEF ExtractCveId, Aliased
  <2>5. CASE Aliased(s) /\ s.flaw.cve # Null
    BY <1>2, <2>1, <2>2, <2>5 DEF ExtractCveId
  <2>6. CASE Aliased(s) /\ s.flaw.cve = Null
    BY <1>2, <2>1, <2>3, <2>6 DEF ExtractCveId
  <2> QED BY <2>4, <2>5, <2>6
<1>4. vulnerability.vulnId # Null /\ vulnerability.vulnId.text = IF Aliased(s) THEN s.flaw.rule ELSE s.flaw.cve
  <2>1. vulnerability.vulnId = (IF Aliased(s) THEN own ELSE cve)
    OBVIOUS
  <2> HIDE DEF vulnerability, own, cve
  <2> QED BY <1>2, <2>1 DEF Aliased, IsCve
<1>5. /\ vulnerability.source = (IF Aliased(s) THEN "OSV" ELSE "NVD")
      /\ vulnerability.severity = (IF s.quirk = "unscored" THEN "UNASSIGNED" ELSE "HIGH")
      /\ vulnerability.cvssV3 = (IF s.quirk = "unscored" THEN 70 ELSE Null)
      /\ vulnerability.cweId = s.flaw.cwe
  OBVIOUS
<1> HIDE DEF vulnerability
<1>6. /\ b.repository_id = project.repository_id /\ b.package_name = finding.package
      /\ b.attributed_on = finding.attributedOn /\ b.state = finding.state
      /\ b.suppressed = finding.isSuppressed
  BY <1>1 DEF FlattenFinding
<1>7. /\ b.cve_id = s.flaw.cve /\ b.cwe_id = s.flaw.cwe
      /\ b.vuln_id_native = (IF Aliased(s) THEN s.flaw.rule ELSE s.flaw.cve)
      /\ b.advisory_source = (IF Aliased(s) THEN "OSV" ELSE "NVD")
      /\ b.severity_native = (IF s.quirk = "unscored" THEN "UNASSIGNED" ELSE "HIGH")
      /\ b.cvss_v3 = (IF s.quirk = "unscored" THEN 70 ELSE Null)
  BY <1>1, <1>3, <1>4, <1>5 DEF FlattenFinding
<1>8. /\ project.repository_id = Id(s.flaw.repo) /\ finding.package = s.flaw.package
      /\ finding.attributedOn = 0 /\ finding.isSuppressed = suppressed
      /\ ~suppressed => finding.state = AnalysisOf(s)
  OBVIOUS
<1> HIDE DEF project, finding, b
<1> QED BY <1>6, <1>7, <1>8 DEF b, suppressed

\* The columns of a payload's row.
LEMMA FlattenedIs ==
    ASSUME NEW b
    PROVE  LET row == FlattenToSilverRow(b)
           IN  /\ row.finding_id = DTFindingId(b) /\ row.tool_source = "dependency_track"
               /\ row.category = "sca" /\ row.severity_canonical = DTNormalizeSeverity(b)
               /\ row.status_canonical = DTNormalizeStatus(b)
               /\ row.cve_id = b.cve_id /\ row.rule_id_native = b.vuln_id_native
               /\ row.trigger_context = "periodic" /\ row.repository_id = b.repository_id
               /\ row.first_seen_at = b.attributed_on /\ row.last_seen_at = b.attributed_on
BY DEF FlattenToSilverRow, FindingRow, SilverColumns, RequiredColumns

\* The row of a finding.
LEMMA DTRowIs ==
    ASSUME NEW s \in PossibleReports, s.feed = "dependency_track", NEW row \in Rows[s]
    PROVE  /\ row.finding_id = <<"dependency-track", Id(s.flaw.repo), s.flaw.package, Advisory(s.flaw),
                                 IF Aliased(s) THEN "OSV" ELSE "NVD">>
           /\ row.tool_source = "dependency_track" /\ row.category = "sca"
           /\ row.severity_canonical = "high"
           /\ row.status_canonical =
                 (IF s.quirk = "suppressed" /\ s.state = "dismissed" THEN "wontfix"
                  ELSE In(s.state, "open", "confirmed", "false_positive", "resolved"))
           /\ row.cve_id = s.flaw.cve
           /\ row.rule_id_native = (IF Aliased(s) THEN s.flaw.rule ELSE s.flaw.cve)
           /\ row.trigger_context = "periodic" /\ row.repository_id = Id(s.flaw.repo)
           /\ row.first_seen_at = 0 /\ row.last_seen_at = 0
<1> DEFINE b == DTPayload(s)
<1>1. row = FlattenToSilverRow(b)
  BY ReportIs DEF RowsOf
<1>2. /\ b.repository_id = Id(s.flaw.repo) /\ b.package_name = s.flaw.package
      /\ b.cve_id = s.flaw.cve /\ b.attributed_on = 0
      /\ b.vuln_id_native = (IF Aliased(s) THEN s.flaw.rule ELSE s.flaw.cve)
      /\ b.advisory_source = (IF Aliased(s) THEN "OSV" ELSE "NVD")
  BY PayloadIs
<1>3. /\ b.severity_native = (IF s.quirk = "unscored" THEN "UNASSIGNED" ELSE "HIGH")
      /\ b.cvss_v3 = (IF s.quirk = "unscored" THEN 70 ELSE Null)
  BY PayloadIs
<1>4. /\ b.suppressed = (s.quirk = "suppressed" /\ s.state = "dismissed")
      /\ ~b.suppressed => b.state = AnalysisOf(s)
  BY PayloadIs
<1> HIDE DEF b
<1>5. DTFindingId(b) = <<"dependency-track", Id(s.flaw.repo), s.flaw.package, Advisory(s.flaw),
                         IF Aliased(s) THEN "OSV" ELSE "NVD">>
  <2>1. "OSV" # Null /\ "NVD" # Null
    BY NullIsNone, LiteralsAssumption
  <2>2. Or(b.advisory_source, "UNKNOWN") = IF Aliased(s) THEN "OSV" ELSE "NVD"
    BY <1>2, <2>1 DEF Or
  <2>3. (IF b.cve_id = Null THEN b.vuln_id_native ELSE b.cve_id) = Advisory(s.flaw)
    BY <1>2 DEF Advisory, Aliased
  <2> QED BY <1>2, <2>2, <2>3 DEF DTFindingId
<1>6. DTNormalizeSeverity(b) = "high"
  <2>1. CASE s.quirk = "unscored"
    <3>1. \A c \in DOMAIN DTSeverityYml : b.severity_native \notin DTSeverityYml[c]
      BY <1>3, <2>1 DEF DTSeverityYml
    <3>2. b.cvss_v3 = 70 /\ 70 # Null
      BY <1>3, <2>1, NullIsNone
    <3> QED BY <3>1, <3>2 DEF DTNormalizeSeverity, SeverityOfScore
  <2>2. CASE s.quirk # "unscored"
    <3>1. "high" \in DOMAIN DTSeverityYml /\ b.severity_native \in DTSeverityYml["high"]
      BY <1>3, <2>2 DEF DTSeverityYml
    <3>2. Lookup(DTSeverityYml, b.severity_native, "medium") = "high"
      BY <1>3, <2>2, DTSeverityOf
    <3> QED BY <3>1, <3>2 DEF DTNormalizeSeverity
  <2> QED BY <2>1, <2>2
<1>7. DTNormalizeStatus(b) = IF s.quirk = "suppressed" /\ s.state = "dismissed" THEN "wontfix"
                             ELSE In(s.state, "open", "confirmed", "false_positive", "resolved")
  <2>1. s.state \in States
    BY ReportIs
  <2>2. CASE b.suppressed
    BY <1>4, <2>2 DEF DTNormalizeStatus
  <2>3. CASE ~b.suppressed
    <3>1. NormalizeStatus(b.state, DTStatusYml) = In(s.state, "open", "confirmed", "false_positive", "resolved")
      BY <1>4, <2>1, <2>3, DTStatusOf DEF NormalizeStatus, In, AnalysisOf, States
    <3> QED BY <1>4, <2>3, <3>1 DEF DTNormalizeStatus
  <2> QED BY <2>2, <2>3
<1>8. /\ row.finding_id = DTFindingId(b) /\ row.tool_source = "dependency_track"
      /\ row.category = "sca" /\ row.severity_canonical = DTNormalizeSeverity(b)
      /\ row.status_canonical = DTNormalizeStatus(b) /\ row.trigger_context = "periodic"
  BY <1>1, FlattenedIs
<1>9. /\ row.cve_id = b.cve_id /\ row.rule_id_native = b.vuln_id_native
      /\ row.repository_id = b.repository_id
      /\ row.first_seen_at = b.attributed_on /\ row.last_seen_at = b.attributed_on
  BY <1>1, FlattenedIs
<1> QED BY <1>2, <1>5, <1>6, <1>7, <1>8, <1>9

----------------------------------------------------------------------------
(* The rows of TruffleHog, OWASP ZAP and AWS WAF. *)

\* The columns of a record of TruffleHog.
LEMMA RecordIs ==
    ASSUME NEW r
    PROVE  LET row == RecordToSilver(r)
           IN  /\ row.finding_id = <<r.repository, Or(r.commit, ""), Or(r.file, ""), Or(r.detector, "")>>
               /\ row.tool_source = "trufflehog" /\ row.category = "secrets"
               /\ row.severity_canonical = "high" /\ row.status_canonical = "open"
               /\ row.rule_id_native = r.detector /\ row.secret_type = r.detector
               /\ row.trigger_context = Null /\ row.repository_id = RepositoryId(r.repository)
               /\ row.commit_sha = r.commit /\ row.file_path = r.file
               /\ row.first_seen_at = Null /\ row.last_seen_at = Null
BY DEF RecordToSilver, FindingRow, SilverColumns, RequiredColumns

\* What the URL of a repository is read as, by its form.
ScannedAs(form, repo) == CASE form = "port"  -> "port/" \o repo.name
                           [] form = "token" -> "token@host/" \o repo.name
                           [] OTHER          -> repo.name

\* The row of a secret that TruffleHog finds.
LEMMA TruffleHogRowIs ==
    ASSUME NEW s \in PossibleReports, s.feed = "trufflehog", NEW row \in Rows[s]
    PROVE  /\ row.finding_id # Null /\ row.tool_source = "trufflehog" /\ row.category = "secrets"
           /\ row.severity_canonical = "high" /\ row.status_canonical = "open"
           /\ row.rule_id_native = s.flaw.rule /\ row.secret_type = s.flaw.rule
           /\ row.trigger_context = Null
           /\ row.repository_id = ScannedAs(s.quirk, s.flaw.repo)
           /\ row.commit_sha = "sha" /\ row.file_path = s.flaw.file
           /\ row.first_seen_at = Null /\ row.last_seen_at = Null
<1> DEFINE r == TruffleHogRecord(s)
           colon == CASE s.quirk = "port"  -> "port/"
                      [] s.quirk = "token" -> "token@host/"
                      [] OTHER             -> ""
           url == [scheme |-> s.quirk, path |-> s.flaw.repo.name, git |-> s.quirk = "ssh", colon |-> colon]
<1>0. s.flaw \in Flaws
  BY ReportIs
<1>1. row = RecordToSilver(r)
  BY ReportIs DEF RowsOf
<1>2. /\ r.repository = url /\ r.commit = "sha" /\ r.file = s.flaw.file /\ r.detector = s.flaw.rule
  BY DEF TruffleHogRecord
<1>3. url \in [scheme : STRING, colon : STRING, path : STRING, git : BOOLEAN]
  <2>1. s.quirk \in STRING
    BY QuirkIs, LiteralsAssumption
  <2>2. colon \in STRING
    BY LiteralsAssumption
  <2> HIDE DEF colon
  <2> QED BY <1>0, <2>1, <2>2, FlawIs
<1>4. url.colon = colon /\ url.path = s.flaw.repo.name
  OBVIOUS
<1> HIDE DEF r, url
<1>5. url \in Elements
  BY <1>3, ElementsAre
<1>6. url # Null
  BY <1>3, NullAssumption
<1>7. RepositoryId(url) = ScannedAs(s.quirk, s.flaw.repo)
  BY <1>4, <1>6 DEF RepositoryId, ScannedAs, colon
<1>8. <<r.repository, Or(r.commit, ""), Or(r.file, ""), Or(r.detector, "")>> # Null
  <2>1. Or(r.commit, "") = "sha" /\ Or(r.file, "") = s.flaw.file /\ Or(r.detector, "") = s.flaw.rule
    BY <1>0, <1>2, FlawIs, NullIsNone, LiteralsAssumption DEF Or
  <2>2. "sha" \in Elements /\ s.flaw.file \in Elements /\ s.flaw.rule \in Elements
    BY <1>0, FlawIs, ElementsAre, LiteralsAssumption
  <2> QED BY <1>2, <1>5, <2>1, <2>2, NoneIsNull
<1>9. /\ row.finding_id = <<r.repository, Or(r.commit, ""), Or(r.file, ""), Or(r.detector, "")>>
      /\ row.repository_id = RepositoryId(r.repository)
  BY <1>1, RecordIs
<1>10. /\ row.tool_source = "trufflehog" /\ row.category = "secrets"
       /\ row.severity_canonical = "high" /\ row.status_canonical = "open"
       /\ row.rule_id_native = r.detector /\ row.secret_type = r.detector
       /\ row.trigger_context = Null /\ row.commit_sha = r.commit /\ row.file_path = r.file
       /\ row.first_seen_at = Null /\ row.last_seen_at = Null
  BY <1>1, RecordIs
<1> QED BY <1>2, <1>7, <1>8, <1>9, <1>10

\* The columns that both projections of ZAP fill in.
LEMMA ZapFindingIs ==
    ASSUME NEW z, NEW severity, NEW cwe, NEW seen
    PROVE  LET row == ZapFinding(z, severity, cwe, seen)
           IN  /\ row.finding_id = <<z.pluginid, z.uri>> /\ row.tool_source = "owasp_zap"
               /\ row.category = "dast" /\ row.severity_canonical = severity
               /\ row.status_canonical = NormalizeStatus("open", ZapStatusYml)
               /\ row.rule_id_native = z.pluginid /\ row.trigger_context = z.trigger_context
               /\ row.url = z.uri /\ row.first_seen_at = seen /\ row.last_seen_at = seen
               /\ row.repository_id = Null
BY DEF ZapFinding, FindingRow, SilverColumns, RequiredColumns

\* What ZAP reports of a page.
LEMMA ZapTripleIs ==
    ASSUME NEW s \in PossibleReports, s.feed = "owasp_zap"
    PROVE  LET z == ZapTriple(s)
           IN  /\ z.name = (IF s.quirk = "nameless" THEN "" ELSE "site") /\ z.host = "host"
               /\ z.pluginid = s.flaw.rule /\ z.uri = <<"target", s.flaw.file>>
               /\ z.trigger_context = "cicd"
               /\ z.riskdesc.word = "Medium" /\ z.riskdesc.glued = (s.quirk = "glued")
               /\ z.cweid.text = (IF s.quirk = "unclassified" THEN "-1" ELSE s.flaw.cwe)
               /\ z.cweid.padded = (s.quirk = "padded")
               /\ z.riskdesc # Null /\ z.cweid # Null
               /\ z.generated = 0 /\ z.converted = 1 /\ z.ingested = 2
<1> DEFINE z == ZapTriple(s)
<1>1. /\ z.name = (IF s.quirk = "nameless" THEN "" ELSE "site") /\ z.host = "host"
      /\ z.pluginid = s.flaw.rule /\ z.uri = <<"target", s.flaw.file>>
      /\ z.trigger_context = "cicd"
      /\ z.riskdesc.word = "Medium" /\ z.riskdesc.glued = (s.quirk = "glued")
      /\ z.cweid.text = (IF s.quirk = "unclassified" THEN "-1" ELSE s.flaw.cwe)
      /\ z.cweid.padded = (s.quirk = "padded")
      /\ z.generated = 0 /\ z.converted = 1 /\ z.ingested = 2
  BY DEF ZapTriple
<1>2. z.riskdesc \in [word : STRING, glued : BOOLEAN]
  BY LiteralsAssumption DEF ZapTriple
<1>3. z.cweid \in [text : STRING \union {Null}, padded : BOOLEAN]
  BY ReportIs, FlawIs, LiteralsAssumption DEF ZapTriple
<1> HIDE DEF z
<1>4. z.riskdesc # Null /\ z.cweid # Null
  BY <1>2, <1>3, NullAssumption
<1> QED BY <1>1, <1>4 DEF z

\* The row of an alert.
LEMMA ZapRowIs ==
    ASSUME NEW s \in PossibleReports, s.feed = "owasp_zap", NEW row \in Rows[s]
    PROVE  /\ row.finding_id = <<s.flaw.rule, <<"target", s.flaw.file>>>>
           /\ row.tool_source = "owasp_zap" /\ row.category = "dast"
           /\ row.severity_canonical = "medium" /\ row.status_canonical = "open"
           /\ row.rule_id_native = s.flaw.rule /\ row.trigger_context = "cicd"
           /\ row.url = <<"target", s.flaw.file>>
           /\ row.first_seen_at = 2 /\ row.last_seen_at = 2 /\ row.repository_id = Null
<1> DEFINE z == ZapTriple(s)
           severity == Lookup(ZapSeverityYml, SplitRisk(z.riskdesc), "info")
           cwe == SparkCwe(z.cweid)
<1>1. row \in ZapTransform(z)
  BY ReportIs DEF RowsOf
<1>2. row = ZapFinding(z, severity, cwe, z.ingested)
  BY <1>1 DEF ZapTransform
<1>3. /\ z.pluginid = s.flaw.rule /\ z.uri = <<"target", s.flaw.file>> /\ z.trigger_context = "cicd"
      /\ z.ingested = 2
  BY ZapTripleIs
<1>4. severity = "medium"
  <2>1. z.riskdesc.word = "Medium" /\ z.riskdesc # Null
    BY ZapTripleIs
  <2> HIDE DEF z
  <2> QED BY <2>1, ZapSeverityOf DEF SplitRisk
<1>5. NormalizeStatus("open", ZapStatusYml) = "open"
  BY ZapStatusOf DEF NormalizeStatus
<1> HIDE DEF z, severity, cwe
<1>6. /\ row.finding_id = <<z.pluginid, z.uri>> /\ row.tool_source = "owasp_zap"
      /\ row.category = "dast" /\ row.severity_canonical = severity
      /\ row.status_canonical = NormalizeStatus("open", ZapStatusYml)
      /\ row.rule_id_native = z.pluginid /\ row.trigger_context = z.trigger_context
      /\ row.url = z.uri /\ row.first_seen_at = z.ingested /\ row.last_seen_at = z.ingested
      /\ row.repository_id = Null
  BY <1>2, ZapFindingIs
<1> QED BY <1>3, <1>4, <1>5, <1>6

\* The columns of an event of WAF.
LEMMA EventIs ==
    ASSUME NEW r
    PROVE  LET row == NormaliseEvent(r)
           IN  /\ row.finding_id = <<r.webaclId, r.requestId, r.timestamp>>
               /\ row.tool_source = "aws_waf" /\ row.category = "waf"
               /\ row.severity_canonical = DeriveSeverity(r.action) /\ row.status_canonical = "open"
               /\ row.rule_id_native = Or(r.terminatingRuleId, "UNKNOWN")
               /\ row.trigger_context = "live-traffic" /\ row.repository_id = Null
               /\ row.first_seen_at = r.timestamp /\ row.last_seen_at = r.timestamp
BY DEF NormaliseEvent, DeriveFindingId, FindingRow, SilverColumns, RequiredColumns

\* The row of an event.
LEMMA WafRowIs ==
    ASSUME NEW s \in PossibleReports, s.feed = "aws_waf", NEW row \in Rows[s]
    PROVE  /\ row.finding_id = <<"acl", s.flaw.rule, s.flaw.name>>
           /\ row.tool_source = "aws_waf" /\ row.category = "waf"
           /\ row.severity_canonical \in {"high", "medium"} /\ row.status_canonical = "open"
           /\ row.rule_id_native = "UNKNOWN" /\ row.trigger_context = "live-traffic"
           /\ row.first_seen_at = s.flaw.name /\ row.last_seen_at = s.flaw.name
           /\ row.repository_id = Null
<1> DEFINE r == WafEvent(s)
<1>1. row = NormaliseEvent(r)
  BY ReportIs DEF RowsOf
<1>2. /\ r.webaclId = "acl" /\ r.requestId = s.flaw.rule /\ r.timestamp = s.flaw.name
      /\ r.action = s.quirk /\ r.terminatingRuleId = Null
  BY DEF WafEvent
<1>3. DeriveSeverity(s.quirk) \in {"high", "medium"}
  BY QuirkIs, WafSeverityOf DEF DeriveSeverity
<1>4. Or(Null, "UNKNOWN") = "UNKNOWN"
  BY DEF Or
<1> HIDE DEF r
<1> QED BY <1>1, <1>2, <1>3, <1>4, EventIs

----------------------------------------------------------------------------
(* What a row says of its report. *)

\* The feeds, one by one.
LEMMA FeedIs ==
    ASSUME NEW s \in PossibleReports
    PROVE  s.feed \in {"sonarqube", "semgrep_json", "semgrep_sarif", "github_code", "github_secret",
                       "dependabot", "gitlab", "dependency_track", "trufflehog", "owasp_zap", "aws_waf"}
BY ReportIs DEF Feeds, Quirks

\* The row of Semgrep, column by column.
LEMMA SemgrepColumns ==
    ASSUME NEW s \in PossibleReports, s.feed \in {"semgrep_json", "semgrep_sarif"}, NEW row \in Rows[s]
    PROVE  /\ row.finding_id = <<Id(s.flaw.repo), s.flaw.file, s.flaw.rule, s.line>>
           /\ row.tool_source = "semgrep" /\ row.category = "sast"
           /\ row.severity_canonical = "medium" /\ row.status_canonical = "open"
           /\ row.cwe_id = (IF s.flaw.cwe = Null THEN Null ELSE <<"CWE-", s.flaw.cwe>>)
           /\ row.rule_id_native = s.flaw.rule /\ row.trigger_context = "cicd"
           /\ row.repository_id = Id(s.flaw.repo) /\ row.file_path = s.flaw.file
           /\ row.start_line = s.line /\ row.first_seen_at = Null /\ row.last_seen_at = Null
<1>1. row = SemgrepRow(s.flaw, s.line)
  BY SemgrepRowIs
<1> QED BY <1>1 DEF SemgrepRow, FindingRow, SilverColumns, RequiredColumns

\* The row of SonarQube, column by column.
LEMMA SonarColumns ==
    ASSUME NEW s \in PossibleReports, s.feed = "sonarqube", NEW row \in Rows[s]
    PROVE  /\ s.quirk # "hotspot"
           /\ row.finding_id = <<s.flaw.name>> /\ row.tool_source = "sonarqube"
           /\ row.category = "sast" /\ row.severity_canonical = "medium"
           /\ row.status_canonical = In(s.state, "open", "confirmed", "false_positive", "resolved")
           /\ row.rule_id_native = s.flaw.rule /\ row.trigger_context = "periodic"
           /\ row.repository_id = Id(s.flaw.repo)
           /\ row.file_path = (IF s.quirk = "whole_project" THEN Null ELSE s.flaw.file)
           /\ row.start_line = s.line /\ row.cwe_id = Null
           /\ row.first_seen_at = (IF s.quirk = "undated" THEN Null ELSE 0) /\ row.last_seen_at = 1
<1>1. s.quirk # "hotspot" /\ row = SonarFinding(SonarIssue(s), "medium")
  BY SonarRowIs
<1> QED BY <1>1, SonarIssueIs

\* The status of a row is one of those that the state at its source comes to.
LEMMA StatusIs ==
    ASSUME NEW s \in PossibleReports, NEW row \in Rows[s]
    PROVE  row.status_canonical \in StatusesOf(s)
<1>1. s.state \in States
  BY ReportIs
<1>2. CASE s.feed = "sonarqube"
  BY <1>1, <1>2, SonarColumns DEF In, States, StatusesOf, Trackers, Confirming
<1>3. CASE s.feed \in {"semgrep_json", "semgrep_sarif"}
  BY <1>3, SemgrepColumns DEF StatusesOf, Trackers
<1>4. CASE s.feed = "github_code"
  BY <1>1, <1>4, CodeRowIs DEF In, States, StatusesOf, Trackers, Confirming
<1>5. CASE s.feed = "github_secret"
  BY <1>1, <1>5, SecretRowIs DEF In, States, StatusesOf, Trackers, Confirming
<1>6. CASE s.feed = "dependabot"
  BY <1>1, <1>6, DependabotRowIs DEF In, States, StatusesOf, Trackers, Confirming
<1>7. CASE s.feed = "gitlab"
  BY <1>1, <1>7, GitLabRowIs DEF In, States, StatusesOf, Trackers, Confirming
<1>8. CASE s.feed = "dependency_track"
  BY <1>1, <1>8, DTRowIs DEF In, States, StatusesOf, Trackers, Confirming
<1>9. CASE s.feed = "trufflehog"
  BY <1>9, TruffleHogRowIs DEF StatusesOf, Trackers
<1>10. CASE s.feed = "owasp_zap"
  BY <1>10, ZapRowIs DEF StatusesOf, Trackers
<1>11. CASE s.feed = "aws_waf"
  BY <1>11, WafRowIs DEF StatusesOf, Trackers
<1> QED BY <1>2, <1>3, <1>4, <1>5, <1>6, <1>7, <1>8, <1>9, <1>10, <1>11, FeedIs

\* Whatever lands, in whatever order: a row of a tracker says the state in which it
\* held the flaw when it reported it, open, confirmed where it has a state for
\* that, dismissed or fixed; one of a scanner without a lifecycle says open.
THEOREM StatusesFollow == InventorySpec => []StatusFollowsTheSource
<1>1. FeedInv => StatusFollowsTheSource
  BY StatusIs DEF FeedInv, BronzeInv, StatusFollowsTheSource
<1> QED BY <1>1, FeedInvariant, PTL

\* Severity and status of a row are canonical.
LEMMA RowIsCanonical ==
    ASSUME NEW s \in PossibleReports, NEW row \in Rows[s]
    PROVE  row.severity_canonical \in Severities /\ row.status_canonical \in Statuses
<1>1. s.state \in States
  BY ReportIs
<1>2. CASE s.feed = "sonarqube"
  BY <1>1, <1>2, SonarColumns DEF In, States, Severities, Statuses
<1>3. CASE s.feed \in {"semgrep_json", "semgrep_sarif"}
  BY <1>3, SemgrepColumns DEF Severities, Statuses
<1>4. CASE s.feed = "github_code"
  BY <1>1, <1>4, CodeRowIs DEF In, States, Severities, Statuses
<1>5. CASE s.feed = "github_secret"
  BY <1>1, <1>5, SecretRowIs DEF In, States, Severities, Statuses
<1>6. CASE s.feed = "dependabot"
  BY <1>1, <1>6, DependabotRowIs DEF In, States, Severities, Statuses
<1>7. CASE s.feed = "gitlab"
  BY <1>1, <1>7, GitLabRowIs DEF In, States, Severities, Statuses
<1>8. CASE s.feed = "dependency_track"
  BY <1>1, <1>8, DTRowIs DEF In, States, Severities, Statuses
<1>9. CASE s.feed = "trufflehog"
  BY <1>9, TruffleHogRowIs DEF Severities, Statuses
<1>10. CASE s.feed = "owasp_zap"
  BY <1>10, ZapRowIs DEF Severities, Statuses
<1>11. CASE s.feed = "aws_waf"
  BY <1>11, WafRowIs DEF Severities, Statuses
<1> QED BY <1>2, <1>3, <1>4, <1>5, <1>6, <1>7, <1>8, <1>9, <1>10, <1>11, FeedIs

\* The columns a row leaves NULL, from those it does not.
LEMMA MissingIs ==
    ASSUME NEW row, NEW missing \in SUBSET {"trigger_context", "first_seen_at", "last_seen_at"},
           row.finding_id # Null, row.tool_source # Null, row.category # Null,
           row.severity_canonical # Null, row.status_canonical # Null, row.rule_id_native # Null,
           row.trigger_context = Null <=> "trigger_context" \in missing,
           row.first_seen_at = Null <=> "first_seen_at" \in missing,
           row.last_seen_at = Null <=> "last_seen_at" \in missing
    PROVE  MissingColumns(row) = missing
<1>1. \A column \in RequiredColumns : row[column] = Null <=> column \in missing
  BY DEF RequiredColumns
<1>2. missing \subseteq RequiredColumns
  BY DEF RequiredColumns
<1> QED BY <1>1, <1>2 DEF MissingColumns

\* What the columns that a projection must not leave NULL hold is no NULL.
LEMMA TextsAreFilled ==
    ASSUME NEW s \in PossibleReports
    PROVE  /\ s.flaw.name # Null /\ s.flaw.rule # Null /\ s.flaw.file # Null
           /\ <<s.flaw.name>> # Null /\ <<"GHSA-", s.flaw.name>> # Null
           /\ <<Id(s.flaw.repo), s.flaw.file, s.flaw.rule, s.line>> # Null
           /\ \A stream \in {"github-code", "github-secret", "github-dependabot"} :
                 <<stream, Id(s.flaw.repo), s.flaw.name>> # Null
           /\ <<"gitlab-vuln", s.flaw.name>> # Null
           /\ \A source \in {"OSV", "NVD"} :
                 <<"dependency-track", Id(s.flaw.repo), s.flaw.package, Advisory(s.flaw), source>> # Null
           /\ <<s.flaw.rule, <<"target", s.flaw.file>>>> # Null
           /\ <<"acl", s.flaw.rule, s.flaw.name>> # Null
<1>1. /\ s.flaw \in Flaws /\ s.line \in 1..2
  BY ReportIs
<1>2. /\ s.flaw.name \in STRING /\ s.flaw.rule \in STRING /\ s.flaw.file \in STRING
      /\ s.flaw.package \in STRING /\ Id(s.flaw.repo) \in STRING /\ Advisory(s.flaw) \in STRING
  BY <1>1, FlawIs DEF Advisory
<1>3. /\ "GHSA-" \in STRING /\ "github-code" \in STRING /\ "github-secret" \in STRING
      /\ "github-dependabot" \in STRING /\ "gitlab-vuln" \in STRING /\ "OSV" \in STRING
      /\ "NVD" \in STRING /\ "dependency-track" \in STRING /\ "target" \in STRING
      /\ "acl" \in STRING
  <2>1. "GHSA-" \in STRING /\ "github-code" \in STRING /\ "github-secret" \in STRING /\ "github-dependabot" \in STRING
    BY LiteralsAssumption
  <2>2. "gitlab-vuln" \in STRING /\ "OSV" \in STRING /\ "NVD" \in STRING /\ "dependency-track" \in STRING
    BY LiteralsAssumption
  <2>3. "target" \in STRING /\ "acl" \in STRING
    BY LiteralsAssumption
  <2> QED BY <2>1, <2>2, <2>3
<1>4. /\ s.flaw.name \in Elements /\ s.flaw.rule \in Elements /\ s.flaw.file \in Elements
      /\ s.flaw.package \in Elements /\ Id(s.flaw.repo) \in Elements
      /\ Advisory(s.flaw) \in Elements /\ s.line \in Elements
      /\ <<"target", s.flaw.file>> \in Elements
  <2>1. s.line \in STRING \union Nat
    BY <1>1
  <2> QED BY <1>2, <1>3, <2>1, ElementsAre
<1>5. \A text \in {"GHSA-", "github-code", "github-secret", "github-dependabot", "gitlab-vuln",
                   "OSV", "NVD", "dependency-track", "acl"} : text \in Elements
  BY <1>3, ElementsAre
<1>6. s.flaw.name # Null /\ s.flaw.rule # Null /\ s.flaw.file # Null
  BY <1>2, NullIsNone
<1> QED BY <1>4, <1>5, <1>6, NoneIsNull

\* A row leaves NULL what Unfilled says and no more.
LEMMA RowIsFilled ==
    ASSUME NEW s \in PossibleReports, NEW row \in Rows[s]
    PROVE  MissingColumns(row) = Unfilled(s)
<1>98. /\ "sonarqube" \in STRING /\ "semgrep" \in STRING /\ "github" \in STRING /\ "gitlab" \in STRING
      /\ "dependency_track" \in STRING /\ "trufflehog" \in STRING /\ "owasp_zap" \in STRING /\ "aws_waf" \in STRING
      /\ "sast" \in STRING /\ "sca" \in STRING /\ "secret" \in STRING /\ "secrets" \in STRING
      /\ "dast" \in STRING /\ "waf" \in STRING /\ "critical" \in STRING /\ "high" \in STRING
      /\ "medium" \in STRING /\ "low" \in STRING /\ "info" \in STRING /\ "open" \in STRING
      /\ "confirmed" \in STRING /\ "resolved" \in STRING /\ "false_positive" \in STRING /\ "wontfix" \in STRING
      /\ "periodic" \in STRING /\ "cicd" \in STRING /\ "live-traffic" \in STRING /\ "UNKNOWN" \in STRING
  <2>1. "sonarqube" \in STRING /\ "semgrep" \in STRING /\ "github" \in STRING /\ "gitlab" \in STRING
    BY LiteralsAssumption
  <2>2. "dependency_track" \in STRING /\ "trufflehog" \in STRING /\ "owasp_zap" \in STRING /\ "aws_waf" \in STRING
    BY LiteralsAssumption
  <2>3. "sast" \in STRING /\ "sca" \in STRING /\ "secret" \in STRING /\ "secrets" \in STRING
    BY LiteralsAssumption
  <2>4. "dast" \in STRING /\ "waf" \in STRING /\ "critical" \in STRING /\ "high" \in STRING
    BY LiteralsAssumption
  <2>5. "medium" \in STRING /\ "low" \in STRING /\ "info" \in STRING /\ "open" \in STRING
    BY LiteralsAssumption
  <2>6. "confirmed" \in STRING /\ "resolved" \in STRING /\ "false_positive" \in STRING /\ "wontfix" \in STRING
    BY LiteralsAssumption
  <2>7. "periodic" \in STRING /\ "cicd" \in STRING /\ "live-traffic" \in STRING /\ "UNKNOWN" \in STRING
    BY LiteralsAssumption
  <2> QED BY <2>1, <2>2, <2>3, <2>4, <2>5, <2>6, <2>7
<1>0. /\ "sonarqube" # Null /\ "semgrep" # Null /\ "github" # Null /\ "gitlab" # Null
      /\ "dependency_track" # Null /\ "trufflehog" # Null /\ "owasp_zap" # Null /\ "aws_waf" # Null
      /\ "sast" # Null /\ "sca" # Null /\ "secret" # Null /\ "secrets" # Null
      /\ "dast" # Null /\ "waf" # Null /\ "critical" # Null /\ "high" # Null
      /\ "medium" # Null /\ "low" # Null /\ "info" # Null /\ "open" # Null
      /\ "confirmed" # Null /\ "resolved" # Null /\ "false_positive" # Null /\ "wontfix" # Null
      /\ "periodic" # Null /\ "cicd" # Null /\ "live-traffic" # Null /\ "UNKNOWN" # Null
      /\ 0 # Null /\ 1 # Null /\ 2 # Null
  BY <1>98, NullIsNone
<1>1. row.severity_canonical # Null /\ row.status_canonical # Null
  BY <1>0, RowIsCanonical DEF Severities, Statuses
<1>2. CASE s.feed = "sonarqube"
  <2>1. /\ row.finding_id # Null /\ row.tool_source # Null /\ row.category # Null
        /\ row.rule_id_native # Null /\ row.trigger_context # Null
        /\ (row.first_seen_at = Null <=> s.quirk = "undated") /\ row.last_seen_at # Null
    BY <1>0, <1>2, SonarColumns, TextsAreFilled
  <2>2. Unfilled(s) = IF s.quirk = "undated" THEN {"first_seen_at"} ELSE {}
    BY <1>2, QuirkIs DEF Unfilled
  <2> QED BY <1>1, <2>1, <2>2, MissingIs
<1>3. CASE s.feed \in {"semgrep_json", "semgrep_sarif"}
  <2>1. /\ row.finding_id # Null /\ row.tool_source # Null /\ row.category # Null
        /\ row.rule_id_native # Null /\ row.trigger_context # Null
        /\ row.first_seen_at = Null /\ row.last_seen_at = Null
    BY <1>0, <1>3, SemgrepColumns, TextsAreFilled
  <2>2. Unfilled(s) = {"first_seen_at", "last_seen_at"}
    BY <1>3, QuirkIs DEF Unfilled
  <2> QED BY <1>1, <2>1, <2>2, MissingIs
<1>4. CASE s.feed = "github_code"
  <2>1. /\ row.finding_id # Null /\ row.tool_source # Null /\ row.category # Null
        /\ row.rule_id_native # Null /\ row.trigger_context # Null
        /\ row.first_seen_at # Null /\ row.last_seen_at # Null
    BY <1>0, <1>4, CodeRowIs, TextsAreFilled
  <2>2. Unfilled(s) = {}
    BY <1>4, QuirkIs DEF Unfilled
  <2> QED BY <1>1, <2>1, <2>2, MissingIs
<1>5. CASE s.feed = "github_secret"
  <2>1. /\ row.finding_id # Null /\ row.tool_source # Null /\ row.category # Null
        /\ row.rule_id_native # Null /\ row.trigger_context # Null
        /\ row.first_seen_at # Null /\ row.last_seen_at # Null
    BY <1>0, <1>5, SecretRowIs, TextsAreFilled
  <2>2. Unfilled(s) = {}
    BY <1>5, QuirkIs DEF Unfilled
  <2> QED BY <1>1, <2>1, <2>2, MissingIs
<1>6. CASE s.feed = "dependabot"
  <2>1. /\ row.finding_id # Null /\ row.tool_source # Null /\ row.category # Null
        /\ row.rule_id_native # Null /\ row.trigger_context # Null
        /\ row.first_seen_at # Null /\ row.last_seen_at # Null
    BY <1>0, <1>6, DependabotRowIs, TextsAreFilled, FlawIs, ReportIs
  <2>2. Unfilled(s) = {}
    BY <1>6, QuirkIs DEF Unfilled
  <2> QED BY <1>1, <2>1, <2>2, MissingIs
<1>7. CASE s.feed = "gitlab"
  <2>1. /\ row.finding_id # Null /\ row.tool_source # Null /\ row.category # Null
        /\ row.rule_id_native # Null /\ row.trigger_context # Null
        /\ row.first_seen_at # Null /\ row.last_seen_at # Null
    BY <1>0, <1>7, GitLabRowIs, TextsAreFilled
  <2>2. Unfilled(s) = {}
    BY <1>7, QuirkIs DEF Unfilled
  <2> QED BY <1>1, <2>1, <2>2, MissingIs
<1>8. CASE s.feed = "dependency_track"
  <2>1. /\ row.finding_id # Null /\ row.tool_source # Null /\ row.category # Null
        /\ row.rule_id_native # Null /\ row.trigger_context # Null
        /\ row.first_seen_at # Null /\ row.last_seen_at # Null
    BY <1>0, <1>8, DTRowIs, TextsAreFilled, FlawIs, ReportIs DEF Aliased
  <2>2. Unfilled(s) = {}
    BY <1>8, QuirkIs DEF Unfilled
  <2> QED BY <1>1, <2>1, <2>2, MissingIs
<1>9. CASE s.feed = "trufflehog"
  <2>1. /\ row.finding_id # Null /\ row.tool_source # Null /\ row.category # Null
        /\ row.rule_id_native # Null /\ row.trigger_context = Null
        /\ row.first_seen_at = Null /\ row.last_seen_at = Null
    BY <1>0, <1>9, TruffleHogRowIs, TextsAreFilled
  <2>2. Unfilled(s) = {"trigger_context", "first_seen_at", "last_seen_at"}
    BY <1>9, QuirkIs DEF Unfilled
  <2> QED BY <1>1, <2>1, <2>2, MissingIs
<1>10. CASE s.feed = "owasp_zap"
  <2>1. /\ row.finding_id # Null /\ row.tool_source # Null /\ row.category # Null
        /\ row.rule_id_native # Null /\ row.trigger_context # Null
        /\ row.first_seen_at # Null /\ row.last_seen_at # Null
    BY <1>0, <1>10, ZapRowIs, TextsAreFilled
  <2>2. Unfilled(s) = {}
    BY <1>10, QuirkIs DEF Unfilled
  <2> QED BY <1>1, <2>1, <2>2, MissingIs
<1>11. CASE s.feed = "aws_waf"
  <2>1. /\ row.finding_id # Null /\ row.tool_source # Null /\ row.category # Null
        /\ row.rule_id_native # Null /\ row.trigger_context # Null
        /\ row.first_seen_at # Null /\ row.last_seen_at # Null
    BY <1>0, <1>11, WafRowIs, TextsAreFilled
  <2>2. Unfilled(s) = {}
    BY <1>11, QuirkIs DEF Unfilled
  <2> QED BY <1>1, <2>1, <2>2, MissingIs
<1> QED BY <1>2, <1>3, <1>4, <1>5, <1>6, <1>7, <1>8, <1>9, <1>10, <1>11, FeedIs

\* The type invariant: what lands is bounded, and its rows are canonical and no
\* emptier than their source makes them.
THEOREM FeedsTypeCorrect == InventorySpec => []FeedTypeOK
<1>1. FeedInv => FeedTypeOK
  BY RowIsCanonical, RowIsFilled DEF FeedInv, FlawsInv, BronzeInv, FeedTypeOK
<1> QED BY <1>1, FeedInvariant, PTL

----------------------------------------------------------------------------
(* What names a flaw. *)

\* The tool of a row is that of its feed.
LEMMA ToolIs ==
    ASSUME NEW s \in PossibleReports, NEW row \in Rows[s]
    PROVE  row.tool_source = CASE s.feed \in {"semgrep_json", "semgrep_sarif"} -> "semgrep"
                               [] s.feed \in {"github_code", "github_secret", "dependabot"} -> "github"
                               [] OTHER -> s.feed
<1>1. CASE s.feed = "sonarqube"
  BY <1>1, SonarColumns
<1>2. CASE s.feed \in {"semgrep_json", "semgrep_sarif"}
  BY <1>2, SemgrepColumns
<1>3. CASE s.feed \in {"github_code", "github_secret", "dependabot"}
  BY <1>3, CodeRowIs, SecretRowIs, DependabotRowIs
<1>4. CASE s.feed = "gitlab"
  BY <1>4, GitLabRowIs
<1>5. CASE s.feed = "dependency_track"
  BY <1>5, DTRowIs
<1>6. CASE s.feed = "trufflehog"
  BY <1>6, TruffleHogRowIs
<1>7. CASE s.feed = "owasp_zap"
  BY <1>7, ZapRowIs
<1>8. CASE s.feed = "aws_waf"
  BY <1>8, WafRowIs
<1> QED BY <1>1, <1>2, <1>3, <1>4, <1>5, <1>6, <1>7, <1>8, FeedIs

\* The ids of the rows of tools that track alerts, and of ZAP's.
LEMMA IdIs ==
    ASSUME NEW s \in PossibleReports, NEW row \in Rows[s]
    PROVE  /\ s.feed = "sonarqube" => row.finding_id = <<s.flaw.name>>
           /\ s.feed = "github_code" =>
                 row.finding_id = <<"github-code", Id(s.flaw.repo), s.flaw.name>>
           /\ s.feed = "github_secret" =>
                 row.finding_id = <<"github-secret", Id(s.flaw.repo), s.flaw.name>>
           /\ s.feed = "dependabot" =>
                 row.finding_id = <<"github-dependabot", Id(s.flaw.repo), s.flaw.name>>
           /\ s.feed = "gitlab" =>
                 row.finding_id = <<"gitlab-vuln", s.flaw.name>>
           /\ s.feed = "dependency_track" =>
                 row.finding_id = <<"dependency-track", Id(s.flaw.repo), s.flaw.package, Advisory(s.flaw),
                           IF Aliased(s) THEN "OSV" ELSE "NVD">>
           /\ s.feed = "owasp_zap" =>
                 row.finding_id = <<s.flaw.rule, <<"target", s.flaw.file>>>>
<1>1. CASE s.feed = "sonarqube"
  BY <1>1, SonarColumns
<1>2. CASE s.feed = "github_code"
  BY <1>2, CodeRowIs
<1>3. CASE s.feed = "github_secret"
  BY <1>3, SecretRowIs
<1>4. CASE s.feed = "dependabot"
  BY <1>4, DependabotRowIs
<1>5. CASE s.feed = "gitlab"
  BY <1>5, GitLabRowIs
<1>6. CASE s.feed = "dependency_track"
  BY <1>6, DTRowIs
<1>7. CASE s.feed = "owasp_zap"
  BY <1>7, ZapRowIs
<1> QED BY <1>1, <1>2, <1>3, <1>4, <1>5, <1>6, <1>7

\* For a tool that tracks alerts, an id names one flaw.
LEMMA IdNamesFlaw ==
    ASSUME NEW a \in PossibleReports, NEW b \in PossibleReports, a.feed = b.feed,
           a.feed \in Trackers \union {"owasp_zap"}, NEW p \in Rows[a], NEW q \in Rows[b],
           p.finding_id = q.finding_id
    PROVE  a.flaw = b.flaw
<1>0. a.flaw \in Flaws /\ b.flaw \in Flaws
  BY ReportIs
<1>1. a.flaw.name = b.flaw.name => a.flaw = b.flaw
  BY <1>0, NamesAssumption
<1>2. CASE a.feed = "sonarqube"
  <2>1. p.finding_id = <<a.flaw.name>>
    BY <1>2, IdIs
  <2>2. q.finding_id = <<b.flaw.name>>
    BY <1>2, IdIs
  <2>3. <<a.flaw.name>> = <<b.flaw.name>>
    BY <2>1, <2>2, Zenon
  <2> QED BY <1>1, <2>3
<1>3. CASE a.feed \in {"github_code", "github_secret", "dependabot"}
  <2>1. \E stream : <<stream, Id(a.flaw.repo), a.flaw.name>> = <<stream, Id(b.flaw.repo), b.flaw.name>>
    BY <1>3, IdIs
  <2> QED BY <1>1, <2>1
<1>4. CASE a.feed = "gitlab"
  <2>1. p.finding_id = <<"gitlab-vuln", a.flaw.name>>
    BY <1>4, IdIs
  <2>2. q.finding_id = <<"gitlab-vuln", b.flaw.name>>
    BY <1>4, IdIs
  <2>3. <<"gitlab-vuln", a.flaw.name>> = <<"gitlab-vuln", b.flaw.name>>
    BY <2>1, <2>2, Zenon
  <2> QED BY <1>1, <2>3
<1>5. CASE a.feed = "dependency_track"
  <2> DEFINE source(s) == IF Aliased(s) THEN "OSV" ELSE "NVD"
  <2>1. p.finding_id = <<"dependency-track", Id(a.flaw.repo), a.flaw.package, Advisory(a.flaw), source(a)>>
    BY <1>5, IdIs
  <2>2. q.finding_id = <<"dependency-track", Id(b.flaw.repo), b.flaw.package, Advisory(b.flaw), source(b)>>
    BY <1>5, IdIs
  <2> HIDE DEF source
  <2>6. <<"dependency-track", Id(a.flaw.repo), a.flaw.package, Advisory(a.flaw), source(a)>>
          = <<"dependency-track", Id(b.flaw.repo), b.flaw.package, Advisory(b.flaw), source(b)>>
    BY <2>1, <2>2, Zenon
  <2>3. Id(a.flaw.repo) = Id(b.flaw.repo) /\ a.flaw.package = b.flaw.package
        /\ Advisory(a.flaw) = Advisory(b.flaw)
    BY <2>6
  <2>4. a.flaw.repo = b.flaw.repo
    BY <1>0, <2>3, RepositoriesAssumption
  <2>5. a.flaw.kind = "dependency" /\ b.flaw.kind = "dependency"
    BY <1>5, KindIs
  <2> QED BY <1>0, <2>3, <2>4, <2>5, NamesAssumption
<1>6. CASE a.feed = "owasp_zap"
  <2>1. p.finding_id = <<a.flaw.rule, <<"target", a.flaw.file>>>>
    BY <1>6, IdIs
  <2>2. q.finding_id = <<b.flaw.rule, <<"target", b.flaw.file>>>>
    BY <1>6, IdIs
  <2>6. <<a.flaw.rule, <<"target", a.flaw.file>>>> = <<b.flaw.rule, <<"target", b.flaw.file>>>>
    BY <2>1, <2>2, Zenon
  <2>3. <<"target", a.flaw.file>> = <<"target", b.flaw.file>> /\ a.flaw.rule = b.flaw.rule
    BY <2>6
  <2>4. a.flaw.file = b.flaw.file
    BY <2>3
  <2>5. a.flaw.kind = "page" /\ b.flaw.kind = "page"
    BY <1>6, KindIs
  <2> QED BY <1>0, <2>3, <2>4, <2>5, NamesAssumption
<1> QED BY <1>2, <1>3, <1>4, <1>5, <1>6 DEF Trackers

\* But for Dependency-Track, a flaw keeps its id.
LEMMA FlawKeepsId ==
    ASSUME NEW a \in PossibleReports, NEW b \in PossibleReports, a.feed = b.feed,
           a.feed \in (Trackers \union {"owasp_zap"}) \ {"dependency_track"}, a.flaw = b.flaw,
           NEW p \in Rows[a], NEW q \in Rows[b]
    PROVE  p.finding_id = q.finding_id
<1>1. CASE a.feed = "sonarqube"
  BY <1>1, IdIs
<1>2. CASE a.feed = "github_code"
  BY <1>2, IdIs
<1>3. CASE a.feed = "github_secret"
  BY <1>3, IdIs
<1>4. CASE a.feed = "dependabot"
  BY <1>4, IdIs
<1>5. CASE a.feed = "gitlab"
  BY <1>5, IdIs
<1>6. CASE a.feed = "owasp_zap"
  BY <1>6, IdIs
<1> QED BY <1>1, <1>2, <1>3, <1>4, <1>5, <1>6 DEF Trackers

\* An alert's id names one flaw for good, and no other.
THEOREM IdsNameFlaws == InventorySpec => []AlertIdsNameOneFlaw
<1>1. FeedInv => AlertIdsNameOneFlaw
  BY IdNamesFlaw, FlawKeepsId DEF FeedInv, BronzeInv, AlertIdsNameOneFlaw
<1> QED BY <1>1, FeedInvariant, PTL

\* The keys by which connectors deduplicate.
LEMMA KeyIs ==
    ASSUME NEW s \in PossibleReports, s.quirk \notin {"whole_project", "port", "token"}, NEW row \in Rows[s]
    PROVE  /\ s.feed \in {"sonarqube", "semgrep_json", "semgrep_sarif"} =>
                 KeyOf(s, row) = <<Id(s.flaw.repo), s.flaw.file, s.flaw.rule>>
           /\ s.feed = "github_code" \/ (s.feed = "gitlab" /\ s.flaw.kind = "code") =>
                 KeyOf(s, row) = <<Id(s.flaw.repo), s.flaw.file, s.line, s.flaw.rule>>
           /\ s.feed = "github_secret" =>
                 KeyOf(s, row) = <<Id(s.flaw.repo), s.flaw.rule, s.flaw.file, s.line>>
           /\ \/ s.feed \in {"dependabot", "dependency_track"}
              \/ s.feed = "gitlab" /\ s.flaw.kind = "dependency"
              => KeyOf(s, row) = <<Id(s.flaw.repo), s.flaw.package, s.flaw.cve>>
           /\ s.feed = "trufflehog" =>
                 KeyOf(s, row) = <<s.flaw.repo.name, "sha", s.flaw.rule, s.flaw.file>>
           /\ s.feed = "owasp_zap" => KeyOf(s, row) = <<"target", s.flaw.rule, s.flaw.file>>
           /\ s.feed = "aws_waf" => KeyOf(s, row) = <<"acl", s.flaw.rule, s.flaw.name>>
<1>1. CASE s.feed = "sonarqube"
  <2>1. KeyOf(s, row) = SonarDedupKey(row)
    BY <1>1 DEF KeyOf
  <2> QED BY <1>1, <2>1, SonarColumns DEF SonarDedupKey
<1>2. CASE s.feed \in {"semgrep_json", "semgrep_sarif"}
  <2>1. KeyOf(s, row) = SemgrepDedupKey(row)
    BY <1>2 DEF KeyOf
  <2> QED BY <1>2, <2>1, SemgrepColumns DEF SemgrepDedupKey
<1>3. CASE s.feed = "github_code"
  <2>1. KeyOf(s, row) = GitHubDedupKey(row)
    BY <1>3 DEF KeyOf
  <2> QED BY <1>3, <2>1, CodeRowIs DEF GitHubDedupKey
<1>4. CASE s.feed = "github_secret"
  <2>1. KeyOf(s, row) = GitHubDedupKey(row)
    BY <1>4 DEF KeyOf
  <2> QED BY <1>4, <2>1, SecretRowIs DEF GitHubDedupKey
<1>5. CASE s.feed = "dependabot"
  <2>1. KeyOf(s, row) = GitHubDedupKey(row)
    BY <1>5 DEF KeyOf
  <2> QED BY <1>5, <2>1, DependabotRowIs DEF GitHubDedupKey
<1>6. CASE s.feed = "gitlab"
  <2>1. KeyOf(s, row) = GitLabDedupKey(row)
    BY <1>6 DEF KeyOf
  <2>2. CASE s.flaw.kind = "code"
    BY <1>6, <2>1, <2>2, GitLabRowIs DEF GitLabDedupKey
  <2>3. CASE s.flaw.kind = "dependency"
    BY <1>6, <2>1, <2>3, GitLabRowIs DEF GitLabDedupKey
  <2> QED BY <1>6, <2>2, <2>3, KindIs
<1>7. CASE s.feed = "dependency_track"
  <2> DEFINE b == DTPayload(s)
  <2>1. KeyOf(s, row) = DTDedupKey(b)
    BY <1>7 DEF KeyOf
  <2>2. b.repository_id = Id(s.flaw.repo) /\ b.package_name = s.flaw.package /\ b.cve_id = s.flaw.cve
    BY <1>7, PayloadIs
  <2> HIDE DEF b
  <2> QED BY <1>7, <2>1, <2>2 DEF DTDedupKey
<1>8. CASE s.feed = "trufflehog"
  <2>1. KeyOf(s, row) = TruffleHogDedupKey(row)
    BY <1>8 DEF KeyOf
  <2> QED BY <1>8, <2>1, TruffleHogRowIs DEF TruffleHogDedupKey, ScannedAs
<1>9. CASE s.feed = "owasp_zap"
  <2>1. KeyOf(s, row) = ZapDedupKey(row)
    BY <1>9 DEF KeyOf
  <2>2. row.url[1] = "target" /\ row.url[2] = s.flaw.file /\ row.rule_id_native = s.flaw.rule
    BY <1>9, ZapRowIs
  <2> QED BY <1>9, <2>1, <2>2 DEF ZapDedupKey
<1>10. CASE s.feed = "aws_waf"
  <2>1. KeyOf(s, row) = row.finding_id
    BY <1>10 DEF KeyOf
  <2> QED BY <1>10, <2>1, WafRowIs
<1> QED BY <1>1, <1>2, <1>3, <1>4, <1>5, <1>6, <1>7, <1>8, <1>9, <1>10, FeedIs

\* Reports of one flaw by one tool have one key.
LEMMA SameKey ==
    ASSUME NEW a \in PossibleReports, NEW b \in PossibleReports,
           a.quirk \notin {"whole_project", "port", "token"}, b.quirk \notin {"whole_project", "port", "token"},
           a.flaw = b.flaw, NEW p \in Rows[a], NEW q \in Rows[b], p.tool_source = q.tool_source,
           a.line # b.line => a.feed \notin {"github_code", "github_secret", "gitlab"}
    PROVE  KeyOf(a, p) = KeyOf(b, q)
<1>1. a.feed = b.feed \/ {a.feed, b.feed} \subseteq {"semgrep_json", "semgrep_sarif"}
  BY ToolIs, KindIs, FeedIs
<1>2. CASE a.feed \in {"sonarqube", "semgrep_json", "semgrep_sarif"}
  BY <1>1, <1>2, KeyIs
<1>3. CASE a.feed = "github_code"
  BY <1>1, <1>3, KeyIs
<1>4. CASE a.feed = "github_secret"
  BY <1>1, <1>4, KeyIs
<1>5. CASE a.feed \in {"dependabot", "dependency_track"}
  BY <1>1, <1>5, KeyIs
<1>6. CASE a.feed = "gitlab"
  BY <1>1, <1>6, KeyIs, KindIs
<1>7. CASE a.feed \in {"trufflehog", "owasp_zap", "aws_waf"}
  BY <1>1, <1>7, KeyIs
<1> QED BY <1>2, <1>3, <1>4, <1>5, <1>6, <1>7, FeedIs

\* In whatever form a tool reports a flaw, its connector's key is the same.
THEOREM KeysAgree == InventorySpec => []OneFlawOneKey
<1>1. FeedInv => OneFlawOneKey
  BY SameKey DEF FeedInv, BronzeInv, OneFlawOneKey, SameTool
<1> QED BY <1>1, FeedInvariant, PTL

----------------------------------------------------------------------------
(* What links two tools' rows. *)

\* The columns that rows of code and of dependencies link by.
LEMMA SastLinks ==
    ASSUME NEW row, row.category = "sast"
    PROVE  Links(row) <=> /\ row.repository_id # Null /\ row.file_path # Null
                          /\ row.start_line # Null /\ row.cwe_id # Null
<1>1. /\ "sast" \in DOMAIN CATEGORY_DEDUP_KEYS
      /\ CATEGORY_DEDUP_KEYS["sast"] = {"repository_id", "file_path", "start_line", "cwe_id"}
  BY DEF CATEGORY_DEDUP_KEYS
<1>2. DOMAIN OverlapKey(row) = {"repository_id", "file_path", "start_line", "cwe_id"}
  BY <1>1 DEF OverlapKey
<1> QED BY <1>1, <1>2 DEF Links

\* A dependency's columns are the repository and the CVE.
LEMMA ScaLinks ==
    ASSUME NEW row, row.category = "sca"
    PROVE  Links(row) <=> row.repository_id # Null /\ row.cve_id # Null
<1>1. /\ "sca" \in DOMAIN CATEGORY_DEDUP_KEYS
      /\ CATEGORY_DEDUP_KEYS["sca"] = {"repository_id", "cve_id"}
  BY DEF CATEGORY_DEDUP_KEYS
<1>2. DOMAIN OverlapKey(row) = {"repository_id", "cve_id"}
  BY <1>1 DEF OverlapKey
<1> QED BY <1>1, <1>2 DEF Links

\* Rows that agree on them have one key.
LEMMA SameColumnsLink ==
    ASSUME NEW p, NEW q, p.category = q.category, p.repository_id = q.repository_id,
           \/ /\ p.category = "sast" /\ p.file_path = q.file_path
              /\ p.start_line = q.start_line /\ p.cwe_id = q.cwe_id
           \/ p.category = "sca" /\ p.cve_id = q.cve_id
    PROVE  OverlapKey(p) = OverlapKey(q)
<1>1. CASE p.category = "sast"
  <2> DEFINE columns == {"repository_id", "file_path", "start_line", "cwe_id"}
  <2>1. CATEGORY_DEDUP_KEYS["sast"] = columns
    BY DEF CATEGORY_DEDUP_KEYS
  <2>2. \A column \in columns : p[column] = q[column]
    BY <1>1
  <2> HIDE DEF columns
  <2> QED BY <1>1, <2>1, <2>2 DEF OverlapKey
<1>2. CASE p.category = "sca"
  <2> DEFINE columns == {"repository_id", "cve_id"}
  <2>1. CATEGORY_DEDUP_KEYS["sca"] = columns
    BY DEF CATEGORY_DEDUP_KEYS
  <2>2. \A column \in columns : p[column] = q[column]
    BY <1>2
  <2> HIDE DEF columns
  <2> QED BY <1>2, <2>1, <2>2 DEF OverlapKey
<1> QED BY <1>1, <1>2

\* Rows of one code flaw, or of one vulnerable dependency, agree on them.
LEMMA LinkColumns ==
    ASSUME NEW s \in PossibleReports, NEW row \in Rows[s]
    PROVE  /\ s.flaw.kind = "code" =>
                /\ row.category = "sast" /\ row.repository_id = Id(s.flaw.repo)
                /\ row.start_line = s.line
                /\ row.cwe_id = (IF s.flaw.cwe = Null \/ s.feed \in {"sonarqube", "github_code"}
                                 THEN Null ELSE <<"CWE-", s.flaw.cwe>>)
                /\ s.feed # "sonarqube" => row.file_path = s.flaw.file
           /\ s.flaw.kind = "dependency" =>
                /\ row.category = "sca" /\ row.repository_id = Id(s.flaw.repo)
                /\ row.cve_id = s.flaw.cve
<1>1. s.flaw.kind = "code" =>
         s.feed \in {"sonarqube", "semgrep_json", "semgrep_sarif", "github_code", "gitlab"}
  BY ReportIs DEF Reports
<1>2. s.flaw.kind = "dependency" => s.feed \in {"dependency_track", "dependabot", "gitlab"}
  BY ReportIs DEF Reports
<1>3. CASE s.feed = "sonarqube"
  BY <1>3, KindIs, SonarColumns
<1>4. CASE s.feed \in {"semgrep_json", "semgrep_sarif"}
  BY <1>4, KindIs, SemgrepColumns
<1>5. CASE s.feed = "github_code"
  BY <1>5, KindIs, CodeRowIs
<1>6. CASE s.feed = "gitlab"
  BY <1>6, KindIs, GitLabRowIs
<1>7. CASE s.feed = "dependency_track"
  BY <1>7, KindIs, DTRowIs
<1>8. CASE s.feed = "dependabot"
  BY <1>8, KindIs, DependabotRowIs
<1> QED BY <1>1, <1>2, <1>3, <1>4, <1>5, <1>6, <1>7, <1>8

\* Rows link if the tool names the CWE of the code flaw, or the flaw has a CVE.
LEMMA LinkIs ==
    ASSUME NEW s \in PossibleReports, NEW row \in Rows[s], s.flaw.kind \in {"code", "dependency"}
    PROVE  Links(row) <=> IF s.flaw.kind = "dependency" THEN s.flaw.cve # Null
                          ELSE s.flaw.cwe # Null /\ s.feed \notin {"sonarqube", "github_code"}
<1>0. s.flaw \in Flaws /\ s.line \in 1..2
  BY ReportIs
<1>1. Id(s.flaw.repo) # Null /\ s.flaw.file # Null /\ s.line # Null
  <2>1. Id(s.flaw.repo) \in STRING /\ s.flaw.file \in STRING
    BY <1>0, FlawIs
  <2>2. s.line \in Nat
    BY <1>0
  <2> QED BY <2>1, <2>2, NullIsNone
<1>2. s.flaw.cwe # Null => <<"CWE-", s.flaw.cwe>> # Null
  <2>1. "CWE-" \in Elements /\ (s.flaw.cwe # Null => s.flaw.cwe \in Elements)
    BY <1>0, FlawIs, ElementsAre, LiteralsAssumption
  <2> QED BY <2>1, NoneIsNull
<1>3. CASE s.flaw.kind = "code"
  <2>1. /\ row.category = "sast" /\ row.repository_id = Id(s.flaw.repo) /\ row.start_line = s.line
        /\ row.cwe_id = (IF s.flaw.cwe = Null \/ s.feed \in {"sonarqube", "github_code"}
                         THEN Null ELSE <<"CWE-", s.flaw.cwe>>)
        /\ s.feed # "sonarqube" => row.file_path = s.flaw.file
    BY <1>3, LinkColumns
  <2>2. row.cwe_id # Null <=> s.flaw.cwe # Null /\ s.feed \notin {"sonarqube", "github_code"}
    BY <1>2, <2>1
  <2> QED BY <1>1, <1>3, <2>1, <2>2, SastLinks
<1>4. CASE s.flaw.kind = "dependency"
  <2>1. row.category = "sca" /\ row.repository_id = Id(s.flaw.repo) /\ row.cve_id = s.flaw.cve
    BY <1>4, LinkColumns
  <2> QED BY <1>1, <1>4, <2>1, ScaLinks
<1> QED BY <1>3, <1>4

\* Rows of one flaw that link have one key.
LEMMA LinksMeet ==
    ASSUME NEW a \in PossibleReports, NEW b \in PossibleReports, NEW p \in Rows[a], NEW q \in Rows[b],
           a.flaw.kind \in {"code", "dependency"}, a.flaw = b.flaw, a.line = b.line,
           Links(p), Links(q)
    PROVE  OverlapKey(p) = OverlapKey(q)
<1>1. CASE a.flaw.kind = "code"
  <2>1. /\ a.flaw.cwe # Null /\ a.feed \notin {"sonarqube", "github_code"}
        /\ b.feed \notin {"sonarqube", "github_code"}
    BY <1>1, LinkIs
  <2>2. /\ p.category = "sast" /\ p.repository_id = Id(a.flaw.repo) /\ p.start_line = a.line
        /\ p.cwe_id = <<"CWE-", a.flaw.cwe>> /\ p.file_path = a.flaw.file
    BY <1>1, <2>1, LinkColumns
  <2>3. /\ q.category = "sast" /\ q.repository_id = Id(b.flaw.repo) /\ q.start_line = b.line
        /\ q.cwe_id = <<"CWE-", b.flaw.cwe>> /\ q.file_path = b.flaw.file
    BY <1>1, <2>1, LinkColumns
  <2>4. p.cwe_id = q.cwe_id
    BY <2>2, <2>3, Zenon
  <2> QED BY <2>2, <2>3, <2>4, SameColumnsLink
<1>2. CASE a.flaw.kind = "dependency"
  <2>1. p.category = "sca" /\ p.repository_id = Id(a.flaw.repo) /\ p.cve_id = a.flaw.cve
    BY <1>2, LinkColumns
  <2>2. q.category = "sca" /\ q.repository_id = Id(b.flaw.repo) /\ q.cve_id = b.flaw.cve
    BY <1>2, LinkColumns
  <2> QED BY <2>1, <2>2, SameColumnsLink
<1> QED BY <1>1, <1>2

\* The overlap notebook can see that two tools report one flaw.
THEOREM FlawsLink == InventorySpec => []SameFlawLinks
<1>1. FeedInv => SameFlawLinks
  <2> SUFFICES ASSUME FeedInv, NEW a \in bronze, a.flaw.kind \in {"code", "dependency"},
                      NEW p \in Rows[a]
               PROVE  /\ Links(p) <=> IF a.flaw.kind = "dependency" THEN a.flaw.cve # Null
                                      ELSE a.flaw.cwe # Null /\ a.feed \notin {"sonarqube", "github_code"}
                      /\ Links(p) => \A b \in bronze : \A q \in Rows[b] :
                            a.flaw = b.flaw /\ a.line = b.line /\ Links(q) =>
                                OverlapKey(p) = OverlapKey(q)
    BY DEF SameFlawLinks
  <2>1. bronze \subseteq PossibleReports
    BY DEF FeedInv, BronzeInv
  <2> QED BY <2>1, LinkIs, LinksMeet
<1> QED BY <1>1, FeedInvariant, PTL

----------------------------------------------------------------------------
(* Where a connector has two projections. *)

\* The projections of SonarQube differ in the severity or not at all.
LEMMA SonarDiffers ==
    ASSUME NEW r, NEW x, NEW y
    PROVE  Differing(SonarFinding(r, x), SonarFinding(r, y)) =
              IF x = y THEN {} ELSE {"severity_canonical"}
<1> DEFINE a == SonarFinding(r, x)
           b == SonarFinding(r, y)
<1>1. /\ DOMAIN a = SilverColumns /\ "severity_canonical" \in SilverColumns
      /\ a["severity_canonical"] = x /\ b["severity_canonical"] = y
  BY SonarFindingIs DEF SilverColumns, RequiredColumns
<1>2. \A column \in SilverColumns : column # "severity_canonical" => a[column] = b[column]
  BY DEF SonarFinding, FindingRow
<1> HIDE DEF a, b
<1>3. Differing(a, b) = IF x = y THEN {} ELSE {"severity_canonical"}
  BY <1>1, <1>2 DEF Differing
<1> QED BY <1>3 DEF a, b

\* The two projections of an issue.
LEMMA SonarTwins ==
    ASSUME NEW s \in PossibleReports, s.feed = "sonarqube"
    PROVE  LET tested == IssuesToSilver(SonarIssue(s))
               run    == SonarTransform(SonarIssue(s))
           IN  /\ \A a \in tested, b \in run :
                     Differing(a, b) = IF s.quirk = "unrated" THEN {"severity_canonical"} ELSE {}
               /\ run = {} <=> s.quirk = "hotspot"
               /\ tested = {} <=> s.quirk \in {"undated", "whole_project"}
<1> DEFINE r == SonarIssue(s)
           tested == IssuesToSilver(r)
           run == SonarTransform(r)
           low == IF s.quirk = "unrated" THEN "info" ELSE "medium"
<1>0. s.flaw \in Flaws
  BY ReportIs
<1>1. /\ r.type = (IF s.quirk = "hotspot" THEN "SECURITY_HOTSPOT" ELSE "BUG")
      /\ r.severity = (IF s.quirk = "unrated" THEN "UNRATED" ELSE "MAJOR")
      /\ r.creationDate = (IF s.quirk = "undated" THEN Null ELSE 0) /\ r.updateDate = 1
      /\ r.component = (IF s.quirk = "whole_project" THEN <<Id(s.flaw.repo)>>
                        ELSE <<Id(s.flaw.repo), s.flaw.file>>)
  BY DEF SonarIssue
<1>2. SplitsInTwo(r) <=> s.quirk # "whole_project"
  <2>1. Id(s.flaw.repo) \in Elements /\ s.flaw.file \in Elements
    BY <1>0, FlawIs, ElementsAre
  <2>2. Len(<<Id(s.flaw.repo)>>) = 1 /\ Len(<<Id(s.flaw.repo), s.flaw.file>>) = 2
    OBVIOUS
  <2>3. <<Id(s.flaw.repo), s.flaw.file>> # Null
    BY <2>1, NoneIsNull
  <2> HIDE DEF r
  <2> QED BY <1>1, <2>2, <2>3 DEF SplitsInTwo
<1>3. 0 # Null /\ 1 # Null
  BY NullIsNone
<1> HIDE DEF r
<1>4. /\ NormalizeSeverity(r.severity, SonarSeverityYml) = low
      /\ Lookup(SonarSeverityYml, r.severity, "medium") = "medium"
  BY <1>1, SonarSeverityOf DEF NormalizeSeverity
<1>5. tested = IF s.quirk \in {"undated", "whole_project"} THEN {} ELSE {SonarFinding(r, low)}
  BY <1>1, <1>2, <1>3, <1>4 DEF IssuesToSilver
<1>6. run = IF s.quirk = "hotspot" THEN {} ELSE {SonarFinding(r, "medium")}
  BY <1>1, <1>4 DEF SonarTransform, SilverTypes
<1>7. Differing(SonarFinding(r, low), SonarFinding(r, "medium")) =
         IF s.quirk = "unrated" THEN {"severity_canonical"} ELSE {}
  BY SonarDiffers
<1> HIDE DEF tested, run
<1>8. /\ \A a \in tested, b \in run :
            Differing(a, b) = IF s.quirk = "unrated" THEN {"severity_canonical"} ELSE {}
      /\ run = {} <=> s.quirk = "hotspot"
      /\ tested = {} <=> s.quirk \in {"undated", "whole_project"}
  BY <1>5, <1>6, <1>7
<1> QED BY <1>8 DEF tested, run, r

\* The projections of ZAP differ in severity, CWE and times at most.
LEMMA ZapDiffers ==
    ASSUME NEW z, NEW x, NEW y, NEW v, NEW w, NEW t, NEW u, NEW column
    PROVE  column \in Differing(ZapFinding(z, x, v, t), ZapFinding(z, y, w, u))
                        \ {"first_seen_at", "last_seen_at"}
             <=> (column = "severity_canonical" /\ x # y) \/ (column = "cwe_id" /\ v # w)
<1> DEFINE a == ZapFinding(z, x, v, t)
           b == ZapFinding(z, y, w, u)
<1>1. DOMAIN a = SilverColumns
  BY DEF ZapFinding, FindingRow, SilverColumns, RequiredColumns
<1>2. /\ a["severity_canonical"] = x /\ b["severity_canonical"] = y
      /\ a["cwe_id"] = v /\ b["cwe_id"] = w
  BY DEF ZapFinding, FindingRow, SilverColumns, RequiredColumns
<1>3. \A c \in SilverColumns :
         c \notin {"severity_canonical", "cwe_id", "first_seen_at", "last_seen_at"} => a[c] = b[c]
  BY DEF ZapFinding, FindingRow
<1>4. {"severity_canonical", "cwe_id"} \subseteq SilverColumns
  BY DEF SilverColumns, RequiredColumns
<1> HIDE DEF a, b
<1>5. column \in Differing(a, b) \ {"first_seen_at", "last_seen_at"}
        <=> (column = "severity_canonical" /\ x # y) \/ (column = "cwe_id" /\ v # w)
  BY <1>1, <1>2, <1>3, <1>4 DEF Differing
<1> QED BY <1>5 DEF a, b

\* The two projections of an alert.
LEMMA ZapTwins ==
    ASSUME NEW s \in PossibleReports, s.feed = "owasp_zap"
    PROVE  LET tested == AlertsToSilver(ZapTriple(s))
               run    == ZapTransform(ZapTriple(s))
           IN  /\ tested # {} /\ (run = {} <=> s.quirk = "nameless")
               /\ \A a \in tested, b \in run :
                     Differing(a, b) \ {"first_seen_at", "last_seen_at"} =
                         CASE s.quirk = "padded" -> {"cwe_id"}
                           [] s.quirk = "glued"  -> {"severity_canonical"}
                           [] OTHER              -> {}
<1> DEFINE z == ZapTriple(s)
           tested == AlertsToSilver(z)
           run == ZapTransform(z)
           x == NormalizeSeverity(ExtractRisk(z.riskdesc), ZapSeverityYml)
           v == ZapNormalizeCwe(z.cweid)
           t == IF z.generated = Null THEN z.converted ELSE z.generated
           w == SparkCwe(z.cweid)
<1>0. s.flaw \in Flaws
  BY ReportIs
<1>1. /\ z.name = (IF s.quirk = "nameless" THEN "" ELSE "site") /\ z.host = "host"
      /\ z.pluginid = s.flaw.rule /\ z.uri = <<"target", s.flaw.file>>
  BY ZapTripleIs
<1>2. /\ z.riskdesc.word = "Medium" /\ z.riskdesc.glued = (s.quirk = "glued")
      /\ z.cweid.text = (IF s.quirk = "unclassified" THEN "-1" ELSE s.flaw.cwe)
      /\ z.cweid.padded = (s.quirk = "padded") /\ z.riskdesc # Null /\ z.cweid # Null
  BY ZapTripleIs
<1> HIDE DEF z
<1>3. Locatable(z)
  <2>1. "target" \in Elements /\ s.flaw.file \in Elements
    BY <1>0, FlawIs, ElementsAre, LiteralsAssumption
  <2>2. z.uri # Null
    BY <1>1, <2>1, NoneIsNull
  <2>3. s.flaw.rule # Null /\ s.flaw.rule # ""
    BY <1>0, FlawIs, NullIsNone
  <2> QED BY <1>1, <2>2, <2>3 DEF Locatable
<1>4. "host" # Null /\ "site" # Null /\ "" # Null
  BY NullIsNone, LiteralsAssumption
<1>5. tested = {ZapFinding(z, x, v, t)}
  <2>1. Or(z.name, z.host) \notin {Null, ""}
    BY <1>1, <1>4 DEF Or
  <2> QED BY <1>3, <2>1 DEF AlertsToSilver
<1>6. Lookup(ZapSeverityYml, SplitRisk(z.riskdesc), "info") = "medium"
  BY <1>2, ZapSeverityOf DEF SplitRisk
<1>7. run = IF s.quirk = "nameless" THEN {} ELSE {ZapFinding(z, "medium", w, z.ingested)}
  BY <1>1, <1>3, <1>4, <1>6 DEF ZapTransform
<1>8. x = IF s.quirk = "glued" THEN "info" ELSE "medium"
  BY <1>2, ZapSeverityOf DEF ExtractRisk, NormalizeSeverity
<1>9. v # w <=> s.quirk = "padded"
  <2>1. CASE s.quirk = "padded"
    <3>1. z.cweid.padded /\ z.cweid.text = s.flaw.cwe
      BY <1>2, <2>1
    <3>2. w = <<" ", s.flaw.cwe, " ">>
      BY <1>2, <3>1 DEF SparkCwe
    <3>3. v = Null \/ v = <<s.flaw.cwe>>
      BY <3>1 DEF ZapNormalizeCwe
    <3>4. s.flaw.cwe # Null => <<" ", s.flaw.cwe, " ">> # Null
      <4>1. " " \in Elements /\ (s.flaw.cwe # Null => s.flaw.cwe \in Elements)
        BY <1>0, FlawIs, ElementsAre, LiteralsAssumption
      <4> QED BY <4>1, NoneIsNull
    <3>5. ASSUME s.flaw.cwe = Null PROVE v = <<s.flaw.cwe>>
      <4>1. "" # Null /\ "0" # Null /\ "-1" # Null
        BY NullIsNone, LiteralsAssumption
      <4>2. z.cweid # Null /\ z.cweid.text = Null
        BY <1>2, <3>1, <3>5
      <4>3. z.cweid.text \notin CwePlaceholders
        BY <4>1, <4>2 DEF CwePlaceholders
      <4>4. v = <<z.cweid.text>>
        BY <4>2, <4>3 DEF ZapNormalizeCwe
      <4> QED BY <3>1, <4>4, Zenon
    <3>6. <<" ", s.flaw.cwe, " ">> # <<s.flaw.cwe>>
      <4>1. Len(<<" ", s.flaw.cwe, " ">>) = 3 /\ Len(<<s.flaw.cwe>>) = 1
        OBVIOUS
      <4> QED BY <4>1
    <3> HIDE DEF v, w
    <3>7. v # w
      <4>1. v = <<s.flaw.cwe>> => v # w
        BY <3>2, <3>6, Zenon
      <4>2. v = Null /\ s.flaw.cwe # Null => v # w
        BY <3>2, <3>4, Zenon
      <4> QED BY <3>3, <3>5, <4>1, <4>2, Zenon
    <3> QED BY <2>1, <3>7
  <2>2. CASE s.quirk # "padded"
    BY <1>2, <2>2 DEF SparkCwe, ZapNormalizeCwe
  <2> QED BY <2>1, <2>2
<1> HIDE DEF x, v, w, t, tested, run
<1>10. ASSUME NEW a \in tested, NEW b \in run
       PROVE  Differing(a, b) \ {"first_seen_at", "last_seen_at"} =
                 CASE s.quirk = "padded" -> {"cwe_id"}
                   [] s.quirk = "glued"  -> {"severity_canonical"}
                   [] OTHER              -> {}
  <2> DEFINE columns == Differing(a, b) \ {"first_seen_at", "last_seen_at"}
  <2>1. a = ZapFinding(z, x, v, t) /\ b = ZapFinding(z, "medium", w, z.ingested)
    BY <1>5, <1>7, <1>10
  <2>2. \A column : column \in columns <=> \/ column = "severity_canonical" /\ x # "medium"
                                           \/ column = "cwe_id" /\ v # w
    BY <2>1, ZapDiffers
  <2> HIDE DEF columns
  <2>3. \A column : column \in columns <=> \/ column = "severity_canonical" /\ s.quirk = "glued"
                                           \/ column = "cwe_id" /\ s.quirk = "padded"
    BY <1>8, <1>9, <2>2
  <2>4. columns = CASE s.quirk = "padded" -> {"cwe_id"}
                    [] s.quirk = "glued"  -> {"severity_canonical"}
                    [] OTHER              -> {}
    <3>1. CASE s.quirk = "padded"
      BY <2>3, <3>1
    <3>2. CASE s.quirk = "glued"
      BY <2>3, <3>2
    <3>3. CASE s.quirk \notin {"padded", "glued"}
      BY <2>3, <3>3
    <3> QED BY <3>1, <3>2, <3>3
  <2> QED BY <2>4 DEF columns
<1>11. tested # {} /\ (run = {} <=> s.quirk = "nameless")
  BY <1>5, <1>7
<1> QED BY <1>10, <1>11 DEF tested, run, z

\* The plans that run do what the projections do that the tests run, up to the
\* differences that TwinPipelinesAgree names.
THEOREM TwinsAgree == InventorySpec => []TwinPipelinesAgree
<1>1. FeedInv => TwinPipelinesAgree
  <2> SUFFICES ASSUME FeedInv, NEW s \in bronze
               PROVE  /\ s.feed = "sonarqube" =>
                            LET tested == IssuesToSilver(SonarIssue(s))
                                run    == SonarTransform(SonarIssue(s))
                            IN  /\ \A a \in tested, b \in run :
                                      Differing(a, b) = IF s.quirk = "unrated" THEN {"severity_canonical"} ELSE {}
                                /\ run = {} <=> s.quirk = "hotspot"
                                /\ tested = {} <=> s.quirk \in {"undated", "whole_project"}
                      /\ s.feed = "owasp_zap" =>
                            LET tested == AlertsToSilver(ZapTriple(s))
                                run    == ZapTransform(ZapTriple(s))
                            IN  /\ tested # {} /\ (run = {} <=> s.quirk = "nameless")
                                /\ \A a \in tested, b \in run :
                                      Differing(a, b) \ {"first_seen_at", "last_seen_at"} =
                                          CASE s.quirk = "padded" -> {"cwe_id"}
                                            [] s.quirk = "glued"  -> {"severity_canonical"}
                                            [] OTHER              -> {}
    BY Zenon DEF TwinPipelinesAgree
  <2>1. s \in PossibleReports
    BY DEF FeedInv, BronzeInv
  <2> QED BY <2>1, SonarTwins, ZapTwins
<1> QED BY <1>1, FeedInvariant, PTL

----------------------------------------------------------------------------
(* The repository of a finding. *)

\* A row bears the id of its flaw's repository; TruffleHog's bears a path, and
\* that of a page or an event nothing.
LEMMA RepositoryIdIs ==
    ASSUME NEW s \in PossibleReports, NEW row \in Rows[s]
    PROVE  row.repository_id =
              CASE s.feed = "trufflehog" -> ScannedAs(s.quirk, s.flaw.repo)
                [] s.feed \in {"owasp_zap", "aws_waf"} -> Null
                [] s.feed \notin {"trufflehog", "owasp_zap", "aws_waf"} -> Id(s.flaw.repo)
<1>1. CASE s.feed = "trufflehog"
  BY <1>1, TruffleHogRowIs
<1>2. CASE s.feed \in {"owasp_zap", "aws_waf"}
  BY <1>2, ZapRowIs, WafRowIs
<1>3. CASE s.feed \in {"sonarqube", "semgrep_json", "semgrep_sarif"}
  BY <1>3, SonarColumns, SemgrepColumns
<1>4. CASE s.feed \in {"github_code", "github_secret", "dependabot"}
  BY <1>4, CodeRowIs, SecretRowIs, DependabotRowIs
<1>5. CASE s.feed \in {"gitlab", "dependency_track"}
  BY <1>5, GitLabRowIs, DTRowIs
<1> QED BY <1>1, <1>2, <1>3, <1>4, <1>5, FeedIs

\* It is the id of a repository if the two are one, and the connector names it.
LEMMA ResolvesIff ==
    ASSUME NEW s \in PossibleReports, NEW row \in Rows[s], NEW repo \in Repositories
    PROVE  row.repository_id = Id(repo) <=> Resolves(s, repo)
<1> DEFINE repos == Repositories \union {f.repo : f \in Flaws}
           own == s.flaw.repo
<1>0. own \in repos /\ repo \in repos
  BY ReportIs
<1>1. /\ Id(repo) = Id(own) => repo = own
      /\ \A form : Id(repo) # ScannedAs(form, own)
  <2>1. \A r, q \in repos :
           /\ Id(r) = Id(q) => r = q
           /\ Id(r) \notin {q.name, "port/" \o q.name, "token@host/" \o q.name}
    BY RepositoriesAssumption
  <2> HIDE DEF own, repos
  <2> QED BY <1>0, <2>1 DEF ScannedAs
<1>2. Id(repo) # Null
  <2>1. {repo.node, repo.number, repo.name} \subseteq STRING
    BY <1>0, RepositoriesAssumption
  <2> QED BY <2>1, NullIsNone DEF Id
<1>3. row.repository_id =
         CASE s.feed = "trufflehog" -> ScannedAs(s.quirk, own)
           [] s.feed \in {"owasp_zap", "aws_waf"} -> Null
           [] s.feed \notin {"trufflehog", "owasp_zap", "aws_waf"} -> Id(own)
  BY RepositoryIdIs
<1>4. Resolves(s, repo) <=> s.feed \notin {"trufflehog", "owasp_zap", "aws_waf"} /\ own = repo
  BY DEF Resolves
<1> HIDE DEF own
<1>5. CASE s.feed = "trufflehog"
  BY <1>1, <1>3, <1>4, <1>5
<1>6. CASE s.feed \in {"owasp_zap", "aws_waf"}
  BY <1>2, <1>3, <1>4, <1>6
<1>7. CASE s.feed \notin {"trufflehog", "owasp_zap", "aws_waf"}
  BY <1>1, <1>3, <1>4, <1>7
<1> QED BY <1>5, <1>6, <1>7

\* In every form that a repository is reported in but the one without node_id,
\* silver.repositories has the id that the findings bear.
LEMMA RepositoryRowIs ==
    ASSUME NEW e, e.repo \in Repositories, e.quirk \in RepositoryQuirks(e.repo)
    PROVE  RepositoryRow(e).repository_id = IF e.quirk = "legacy" THEN e.repo.number ELSE Id(e.repo)
<1> DEFINE raw == GitHubRepository(e)
           graphql == e.quirk = "graphql"
           id == [text |-> graphql, value |-> IF graphql THEN e.repo.node ELSE e.repo.number]
<1>0. e.repo.scm \in {"github", "gitlab"} /\ {e.repo.node, e.repo.number, e.repo.name} \subseteq STRING
  BY RepositoriesAssumption
<1>1. CASE e.repo.scm = "gitlab"
  <2>1. RepositoryRow(e).repository_id = e.repo.number
    BY <1>1 DEF RepositoryRow, ProjectToRepository, GitLabProject
  <2> QED BY <1>1, <2>1 DEF Id
<1>2. CASE e.repo.scm = "github"
  <2>1. e.quirk \in {"graphql", "rest", "legacy"}
    BY <1>2 DEF RepositoryQuirks
  <2>2. raw.id = id /\ raw.node_id = IF e.quirk = "rest" THEN e.repo.node ELSE Null
    BY DEF GitHubRepository
  <2>3. id.text = graphql /\ id.value = IF graphql THEN e.repo.node ELSE e.repo.number
    OBVIOUS
  <2>4. id # Null
    <3>1. id \in [text : BOOLEAN, value : STRING]
      BY <1>0
    <3> HIDE DEF id
    <3> QED BY <3>1, NullAssumption
  <2>5. e.repo.node # Null
    BY <1>0, NullIsNone
  <2>6. RepositoryRow(e).repository_id = RepositoryToSilver(raw).repository_id
    BY <1>2 DEF RepositoryRow
  <2> HIDE DEF raw, id
  <2>7. RepositoryToSilver(raw).repository_id =
           CASE raw.id # Null /\ raw.id.text -> raw.id.value
             [] raw.node_id # Null /\ (raw.id # Null => ~raw.id.text) -> raw.node_id
             [] raw.node_id = Null /\ raw.id # Null /\ ~raw.id.text -> raw.id.value
             [] raw.node_id = Null /\ raw.id = Null -> Null
    BY DEF RepositoryToSilver
  <2>8. Id(e.repo) = e.repo.node
    BY <1>2 DEF Id
  <2> QED BY <2>1, <2>2, <2>3, <2>4, <2>5, <2>6, <2>7, <2>8
<1> QED BY <1>0, <1>1, <1>2

\* And the link of an application has the id that its operator has entered.
LEMMA AppLinkIs ==
    ASSUME NEW e, e.repo \in Repositories \union {Null}, NEW link \in NormaliseAppRepoLink(BusinessApp(e))
    PROVE  e.repo \in Repositories /\ link.repository_id = Id(e.repo)
<1>1. BusinessApp(e).u_repository_id = IF e.repo = Null THEN Null ELSE Id(e.repo)
  BY DEF BusinessApp
<1>2. /\ BusinessApp(e).u_repository_id # Null
      /\ link.repository_id = BusinessApp(e).u_repository_id
  BY DEF NormaliseAppRepoLink
<1> QED BY <1>1, <1>2

\* A finding meets its own repository and no other, and through it the link of the
\* CMDB, whatever the repositories are and whoever reports them.
THEOREM FindingsReach == InventorySpec => []FindingsReachTheirRepository
<1>1. FeedInv => FindingsReachTheirRepository
  <2> SUFFICES ASSUME FeedInv, NEW s \in bronze, NEW row \in Rows[s]
               PROVE  /\ \A e \in RepositoryReports :
                            row.repository_id = RepositoryRow(e).repository_id <=>
                                IF e.quirk = "legacy" THEN row.repository_id = e.repo.number
                                ELSE Resolves(s, e.repo)
                      /\ \A e \in ApplicationReports : \A link \in NormaliseAppRepoLink(BusinessApp(e)) :
                            row.repository_id = link.repository_id <=> Resolves(s, e.repo)
    BY Zenon DEF FindingsReachTheirRepository
  <2>1. s \in PossibleReports
    BY DEF FeedInv, BronzeInv
  <2>2. ASSUME NEW e \in RepositoryReports
        PROVE  row.repository_id = RepositoryRow(e).repository_id <=>
                   IF e.quirk = "legacy" THEN row.repository_id = e.repo.number
                   ELSE Resolves(s, e.repo)
    <3>1. e.repo \in Repositories /\ e.quirk \in RepositoryQuirks(e.repo)
      BY DEF RepositoryReports, FeedInv, InventoryInv
    <3>2. RepositoryRow(e).repository_id = IF e.quirk = "legacy" THEN e.repo.number ELSE Id(e.repo)
      BY <3>1, RepositoryRowIs
    <3>3. row.repository_id = Id(e.repo) <=> Resolves(s, e.repo)
      BY <2>1, <3>1, ResolvesIff
    <3> QED BY <3>2, <3>3
  <2>3. ASSUME NEW e \in ApplicationReports, NEW link \in NormaliseAppRepoLink(BusinessApp(e))
        PROVE  row.repository_id = link.repository_id <=> Resolves(s, e.repo)
    <3>1. e.repo \in Repositories \union {Null}
      BY DEF ApplicationReports, FeedInv, InventoryInv
    <3>2. e.repo \in Repositories /\ link.repository_id = Id(e.repo)
      BY <3>1, AppLinkIs
    <3> QED BY <2>1, <3>2, ResolvesIff
  <2> QED BY <2>2, <2>3
<1> QED BY <1>1, FeedInvariant, PTL

=============================================================================
