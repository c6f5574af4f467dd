------------------------------ MODULE ScoreProofs ------------------------------
(***************************************************************************)
(* What a run of the posture notebook publishes, whatever rows the tables  *)
(* hold and whatever is written to them between its three reads, and what  *)
(* GET /v1/score may answer while its Online Table follows the notebook    *)
(* row by row.  The invariant of the first is RunInv: tables grow, so     *)
(* what a run has collected lies between its start and the present.        *)
(* That of the second is that every row, in gold or in the replica and of  *)
(* whatever run, counts no more than is linked by now.                     *)
(***************************************************************************)
EXTENDS Score, FiniteSetTheorems, TLAPS

----------------------------------------------------------------------------
(* The posture notebook: the aggregation. *)

\* The joined rows that survive.
LEMMA SurvivesMeans ==
    ASSUME NEW tables, NEW t, NEW f, NEW m
    PROVE  <<f, m>> \in Surviving(tables, t) <=>
              /\ f \in tables.findings /\ m \in LinksOf(f, tables.mapping)
              /\ ~IsRowSuppressed(JoinedRow(f, m), tables.rules, t)
<1>1. <<f, m>> \in UNION {{g} \X LinksOf(g, tables.mapping) : g \in tables.findings}
        <=> f \in tables.findings /\ m \in LinksOf(f, tables.mapping)
  OBVIOUS
<1> QED BY <1>1 DEF Surviving

\* What survives the rules is a finding with a link of its repository.
LEMMA SurvivorsArePairs ==
    ASSUME NEW tables, NEW t, NEW p \in Surviving(tables, t)
    PROVE  \E f \in tables.findings : \E m \in LinksOf(f, tables.mapping) : p = <<f, m>>
<1>1. p \in UNION {{g} \X LinksOf(g, tables.mapping) : g \in tables.findings}
  BY DEF Surviving
<1> QED BY <1>1

\* A joined row of the application app, if it is not the sentinel, comes from a
\* link.
LEMMA LinkedPairs ==
    ASSUME NEW f, NEW links, NEW m
    PROVE  m \in LinksOf(f, links) /\ m.application_id # UNMAPPED <=>
              m \in links /\ m.repository_id = f.repository_id /\ m.application_id # UNMAPPED
BY DEF LinksOf, Unlinked

Pairs == FindingRows \X (LinkRows \union {Unlinked})

\* There are finitely many joined rows, and so a finite count of any of them.
LEMMA SurvivingFinite ==
    ASSUME NEW tables, NEW t,
           tables.findings \subseteq FindingRows, tables.mapping \subseteq LinkRows
    PROVE  Surviving(tables, t) \subseteq Pairs /\ IsFiniteSet(Surviving(tables, t))
<1>1. Surviving(tables, t) \subseteq Pairs
  <2> SUFFICES ASSUME NEW p \in Surviving(tables, t) PROVE p \in Pairs
    OBVIOUS
  <2>1. PICK f \in tables.findings : \E m \in LinksOf(f, tables.mapping) : p = <<f, m>>
    BY SurvivorsArePairs
  <2> PICK m \in LinksOf(f, tables.mapping) : p = <<f, m>>
    BY <2>1
  <2>2. m \in LinkRows \union {Unlinked}
    BY DEF LinksOf
  <2> QED BY <2>2 DEF Pairs
<1>2. IsFiniteSet(Pairs)
  BY RowsAssumption, FS_AddElement, FS_Product DEF Pairs
<1> QED BY <1>1, <1>2, FS_Subset

OpenPairs(tables, t, app, severity) ==
    {p \in Surviving(tables, t) : /\ p[2].application_id = app
                                  /\ p[1].severity_canonical = severity
                                  /\ p[1].status_canonical = OPEN_STATUS}

\* The open count of a severity is the number of its open pairs.
LEMMA OpenCountMeans ==
    ASSUME NEW tables, NEW t, NEW app, NEW severity
    PROVE  OpenCount(tables, t, app, severity)
             = Cardinality(OpenPairs(tables, t, app, severity))
<1>1. {p \in Bucket(Surviving(tables, t), app, severity) :
          p[1].status_canonical \in {OPEN_STATUS}} = OpenPairs(tables, t, app, severity)
  BY DEF Bucket, OpenPairs
<1> QED BY <1>1 DEF OpenCount, Tally

\* More findings, more links and fewer rules count no less for an application;
\* where there are no rules, time does not matter.
LEMMA OpenCountGrows ==
    ASSUME NEW A, NEW B, NEW t, NEW u, NEW app, NEW severity, app # UNMAPPED,
           A.findings \subseteq B.findings, A.mapping \subseteq B.mapping,
           B.rules = {} \/ (B.rules \subseteq A.rules /\ t = u),
           B.findings \subseteq FindingRows, B.mapping \subseteq LinkRows
    PROVE  /\ OpenCount(A, t, app, severity) <= OpenCount(B, u, app, severity)
           /\ OpenCount(B, u, app, severity) \in Nat
<1>1. OpenPairs(A, t, app, severity) \subseteq OpenPairs(B, u, app, severity)
  <2> SUFFICES ASSUME NEW p \in OpenPairs(A, t, app, severity)
               PROVE  p \in Surviving(B, u)
    BY DEF OpenPairs
  <2>0. p \in Surviving(A, t)
    BY DEF OpenPairs
  <2>1. PICK f \in A.findings : \E m \in LinksOf(f, A.mapping) : p = <<f, m>>
    BY <2>0, SurvivorsArePairs
  <2> PICK m \in LinksOf(f, A.mapping) : p = <<f, m>>
    BY <2>1
  <2>2. m.application_id # UNMAPPED
    BY DEF OpenPairs
  <2>3. m \in LinksOf(f, B.mapping)
    BY <2>2, LinkedPairs
  <2>4. ~IsRowSuppressed(JoinedRow(f, m), B.rules, u)
    BY <2>0, SurvivesMeans DEF IsRowSuppressed
  <2> QED BY <2>3, <2>4, SurvivesMeans
<1>2. IsFiniteSet(OpenPairs(B, u, app, severity))
  BY SurvivingFinite, FS_Subset DEF OpenPairs
<1> QED BY <1>1, <1>2, FS_Subset, FS_CardinalityType, OpenCountMeans

\* The rows that are computed: one for each application and severity of a
\* surviving pair, with natural counts.
LEMMA ComputedRows ==
    ASSUME NEW tables, NEW t
    PROVE  /\ \A row \in ComputePostureRows(tables, t) :
                 /\ row.snapshot_date = t
                 /\ row.open_count = OpenCount(tables, t, row.application_id,
                                               row.severity_canonical)
                 /\ row.closed_count = Tally(Bucket(Surviving(tables, t), row.application_id,
                                                    row.severity_canonical), CLOSED_STATUSES)
                 /\ \E p \in Surviving(tables, t) :
                       /\ p[2].application_id = row.application_id
                       /\ p[1].severity_canonical = row.severity_canonical
           /\ \A p \in Surviving(tables, t) :
                 \E row \in ComputePostureRows(tables, t) :
                    /\ row.application_id = p[2].application_id
                    /\ row.severity_canonical = p[1].severity_canonical
           /\ \A r1, r2 \in ComputePostureRows(tables, t) :
                 r1.application_id = r2.application_id
                   /\ r1.severity_canonical = r2.severity_canonical => r1 = r2
<1> DEFINE S == Surviving(tables, t)
           R(app, severity) ==
              [snapshot_date |-> t, application_id |-> app, severity_canonical |-> severity,
               open_count   |-> Tally(Bucket(S, app, severity), {OPEN_STATUS}),
               closed_count |-> Tally(Bucket(S, app, severity), CLOSED_STATUSES)]
           K == {<<p[2].application_id, p[1].severity_canonical>> : p \in S}
<1>1. ComputePostureRows(tables, t) = {R(key[1], key[2]) : key \in K}
  BY DEF ComputePostureRows
<1>2. \A row \in ComputePostureRows(tables, t) :
         \E p \in S : row = R(p[2].application_id, p[1].severity_canonical)
  <2> SUFFICES ASSUME NEW key \in K
               PROVE  \E p \in S : R(key[1], key[2])
                                      = R(p[2].application_id, p[1].severity_canonical)
    BY <1>1
  <2>1. PICK p \in S : key = <<p[2].application_id, p[1].severity_canonical>>
    OBVIOUS
  <2>2. key[1] = p[2].application_id /\ key[2] = p[1].severity_canonical
    BY <2>1
  <2> HIDE DEF K, R
  <2> QED BY <2>2
<1>3. \A p \in S : R(p[2].application_id, p[1].severity_canonical)
                       \in ComputePostureRows(tables, t)
  <2> SUFFICES ASSUME NEW p \in S
               PROVE  R(p[2].application_id, p[1].severity_canonical)
                        \in {R(key[1], key[2]) : key \in K}
    BY <1>1
  <2> DEFINE key == <<p[2].application_id, p[1].severity_canonical>>
  <2>1. key \in K /\ key[1] = p[2].application_id /\ key[2] = p[1].severity_canonical
    OBVIOUS
  <2> HIDE DEF key, K, R
  <2> QED BY <2>1
<1>4. \A app, severity :
         /\ R(app, severity).snapshot_date = t
         /\ R(app, severity).application_id = app
         /\ R(app, severity).severity_canonical = severity
         /\ R(app, severity).open_count = OpenCount(tables, t, app, severity)
         /\ R(app, severity).closed_count = Tally(Bucket(S, app, severity), CLOSED_STATUSES)
  BY DEF OpenCount
<1> HIDE DEF R, K, S
<1>5. \A row \in ComputePostureRows(tables, t) :
         /\ row.snapshot_date = t
         /\ row.open_count = OpenCount(tables, t, row.application_id, row.severity_canonical)
         /\ row.closed_count = Tally(Bucket(S, row.application_id, row.severity_canonical),
                                     CLOSED_STATUSES)
         /\ \E p \in S : /\ p[2].application_id = row.application_id
                         /\ p[1].severity_canonical = row.severity_canonical
  BY <1>2, <1>4
<1>6. \A p \in S : \E row \in ComputePostureRows(tables, t) :
         /\ row.application_id = p[2].application_id
         /\ row.severity_canonical = p[1].severity_canonical
  BY <1>3, <1>4
<1>7. ASSUME NEW r1 \in ComputePostureRows(tables, t), NEW r2 \in ComputePostureRows(tables, t),
             r1.application_id = r2.application_id,
             r1.severity_canonical = r2.severity_canonical
      PROVE  r1 = r2
  BY <1>2, <1>4, <1>7
<1> QED BY <1>5, <1>6, <1>7 DEF S
\* What is published for an application and severity is the count.
LEMMA PublishedIsCount ==
    ASSUME NEW tables, NEW t, NEW app, NEW severity,
           tables.findings \subseteq FindingRows, tables.mapping \subseteq LinkRows,
           gold' = ComputePostureRows(tables, t)
    PROVE  PublishedOpen(app, severity)' = OpenCount(tables, t, app, severity)
<1> DEFINE rows == {row \in gold' : row.application_id = app
                                     /\ row.severity_canonical = severity}
<1>1. CASE rows = {}
  <2>1. OpenPairs(tables, t, app, severity) = {}
    BY <1>1, ComputedRows DEF OpenPairs
  <2> QED BY <1>1, <2>1, OpenCountMeans, FS_EmptySet DEF PublishedOpen
<1>2. CASE rows # {}
  <2>1. (CHOOSE row \in rows : TRUE) \in rows
    BY <1>2
  <2>2. \A row \in rows : row.open_count = OpenCount(tables, t, app, severity)
    BY ComputedRows
  <2>3. PublishedOpen(app, severity)' = (CHOOSE row \in rows : TRUE).open_count
    BY <1>2 DEF PublishedOpen
  <2> HIDE DEF rows
  <2> QED BY <2>1, <2>2, <2>3
<1> QED BY <1>1, <1>2

----------------------------------------------------------------------------
(* The run. *)

TablesType == [findings : SUBSET FindingRows, mapping : SUBSET LinkRows, rules : SUBSET Rules]

\* Types of what a run reads.
ReadInv ==
    /\ TypeOK
    /\ findings \subseteq FindingRows /\ mapping \subseteq LinkRows
    /\ step \in Steps /\ runs \in 0..MaxRuns
    /\ collected \in TablesType /\ atStart \in TablesType

\* The tables grow: what has been collected lies between the start and now.
RunInv ==
    /\ atStart.findings \subseteq findings /\ atStart.mapping \subseteq mapping
    /\ atStart.rules \subseteq rules
    /\ step \in {"mapping", "rules", "compute"} =>
          /\ atStart.findings \subseteq collected.findings
          /\ collected.findings \subseteq findings
    /\ step \in {"rules", "compute"} =>
          /\ atStart.mapping \subseteq collected.mapping
          /\ collected.mapping \subseteq mapping
    /\ step = "compute" =>
          /\ atStart.rules \subseteq collected.rules
          /\ collected.rules \subseteq rules

\* What is in gold was computed by some run.
GoldInv ==
    \/ gold = {}
    \/ \E tables \in TablesType, t \in Nat : gold = ComputePostureRows(tables, t)

PInv == ReadInv /\ RunInv /\ GoldInv

\* The invariant of the notebook holds at first.
LEMMA InitPInv == PostureInit => PInv
<1> SUFFICES ASSUME PostureInit PROVE PInv
  OBVIOUS
<1>1. ReadInv
  BY TimeAssumption, RunsAssumption
     DEF PostureInit, Init, ReadInv, TypeOK, Nothing, TablesType, Steps
<1>2. RunInv
  BY DEF PostureInit, Init, RunInv, Nothing
<1> QED BY <1>1, <1>2 DEF PInv, GoldInv, PostureInit

\* A step of the rules is one of Suppression.
LEMMA RulesStepKeepsTypes ==
    ASSUME TypeOK, RulesStep
    PROVE  TypeOK' /\ rules \subseteq rules'
<1>1. CASE Tick
  BY <1>1, TimeAssumption DEF Tick, TypeOK, IsRuleActive
<1>2. ASSUME NEW scope \in CanonicalScopes, NEW pattern \in Muting,
             NEW days \in 0..MaxDays, Insert(scope, pattern, days)
      PROVE  TypeOK' /\ rules \subseteq rules'
  <2> DEFINE new == RuleRow(scope, pattern, days)
  <2>1. pattern \in Patterns
    BY MutingAssumption
  <2>2. new \in Rules /\ IsRuleActive(new, new.created_at)
    BY <1>2, <2>1, TimeAssumption
       DEF Insert, ValidInputs, RuleRow, Rules, IsRuleActive, TypeOK
  <2>3. rules' = rules \union {new} /\ now' = now
    BY <1>2 DEF Insert
  <2> HIDE DEF new
  <2> QED BY <2>2, <2>3 DEF TypeOK, IsRuleActive
<1> QED BY <1>1, <1>2 DEF RulesStep

\* It holds after every step of the notebook and of the writers.
LEMMA StepPInv == PInv /\ [PostureNext]_postureVars => PInv'
<1> SUFFICES ASSUME PInv, [PostureNext]_postureVars PROVE PInv'
  OBVIOUS
<1> USE DEF PInv
<1>1. ASSUME NEW f \in FindingRows, AppendFinding(f) PROVE PInv'
  BY <1>1 DEF AppendFinding, ReadInv, RunInv, GoldInv, TypeOK, vars, runVars
<1>2. ASSUME NEW m \in LinkRows, MergeLink(m) PROVE PInv'
  BY <1>2 DEF MergeLink, ReadInv, RunInv, GoldInv, TypeOK, vars, runVars
<1>3. CASE RulesStep
  <2>1. TypeOK' /\ rules \subseteq rules'
    BY <1>3, RulesStepKeepsTypes DEF ReadInv
  <2>2. UNCHANGED <<silverVars, runVars>>
    BY <1>3 DEF RulesStep
  <2> QED BY <2>1, <2>2 DEF ReadInv, RunInv, GoldInv, silverVars, runVars
<1>4. ASSUME NEW parameters \in Parameters, Start(parameters) PROVE PInv'
  BY <1>4, RunsAssumption
     DEF Start, ReadInv, RunInv, GoldInv, TypeOK, vars, silverVars, Steps
<1>5. CASE ReadWidget
  <2>1. CASE "catalog" \in widgets
    <3>1. /\ step' = "findings" /\ atStart' = Tables
          /\ UNCHANGED <<vars, silverVars, collected, gold, runs>>
      BY <1>5, <2>1 DEF ReadWidget
    <3>2. atStart' \in TablesType
      BY <3>1 DEF Tables, TablesType, ReadInv, TypeOK
    <3>3. ReadInv'
      BY <3>1, <3>2 DEF ReadInv, TypeOK, vars, silverVars, Steps
    <3>4. RunInv'
      BY <3>1 DEF RunInv, Tables, vars, silverVars
    <3> QED BY <3>1, <3>3, <3>4 DEF GoldInv
  <2>2. CASE "catalog" \notin widgets
    BY <1>5, <2>2 DEF ReadWidget, ReadInv, RunInv, GoldInv, TypeOK, vars, silverVars, Steps
  <2> QED BY <2>1, <2>2
<1>6. CASE Collect
  <2>1. CASE CollectTable("findings", "mapping")
    <3>1. /\ step' = "mapping" /\ collected' = [collected EXCEPT !["findings"] = findings]
          /\ UNCHANGED <<vars, silverVars, widgets, atStart, gold, runs>>
      BY <2>1 DEF CollectTable, Tables
    <3>2. collected' \in TablesType /\ collected'.findings = findings
      BY <3>1 DEF TablesType, ReadInv
    <3> QED BY <3>1, <3>2 DEF ReadInv, RunInv, GoldInv, TypeOK, vars, silverVars, Steps
  <2>2. CASE CollectTable("mapping", "rules")
    <3>1. /\ step = "mapping" /\ step' = "rules"
          /\ collected' = [collected EXCEPT !["mapping"] = mapping]
          /\ UNCHANGED <<vars, silverVars, widgets, atStart, gold, runs>>
      BY <2>2 DEF CollectTable, Tables
    <3>2. /\ collected' \in TablesType /\ collected'.mapping = mapping
          /\ collected'.findings = collected.findings
      BY <3>1 DEF TablesType, ReadInv
    <3> QED BY <3>1, <3>2 DEF ReadInv, RunInv, GoldInv, TypeOK, vars, silverVars, Steps
  <2>3. CASE CollectTable("rules", "compute")
    <3>1. /\ step = "rules" /\ step' = "compute"
          /\ collected' = [collected EXCEPT !["rules"] = rules]
          /\ UNCHANGED <<vars, silverVars, widgets, atStart, gold, runs>>
      BY <2>3 DEF CollectTable, Tables
    <3>2. /\ collected' \in TablesType /\ collected'.rules = rules
          /\ collected'.findings = collected.findings
          /\ collected'.mapping = collected.mapping
      BY <3>1 DEF TablesType, ReadInv, TypeOK
    <3> QED BY <3>1, <3>2 DEF ReadInv, RunInv, GoldInv, TypeOK, vars, silverVars, Steps
  <2> QED BY <1>6, <2>1, <2>2, <2>3 DEF Collect
<1>7. CASE Write
  <2>1. /\ step' = "written" /\ gold' = ComputePostureRows(collected, now)
        /\ collected' = Nothing /\ atStart' = Nothing
        /\ UNCHANGED <<vars, silverVars, widgets, runs>>
    BY <1>7 DEF Write
  <2>2. Nothing \in TablesType
    BY DEF Nothing, TablesType
  <2>3. ReadInv'
    BY <2>1, <2>2 DEF ReadInv, TypeOK, vars, silverVars, Steps
  <2>4. RunInv'
    BY <2>1 DEF RunInv, Nothing
  <2>5. collected \in TablesType /\ now \in Nat
    BY TimeAssumption DEF ReadInv, TypeOK
  <2>6. GoldInv'
    BY <2>1, <2>5 DEF GoldInv
  <2> QED BY <2>3, <2>4, <2>6
<1>8. CASE UNCHANGED postureVars
  BY <1>8 DEF postureVars, ReadInv, RunInv, GoldInv, TypeOK, vars, silverVars, runVars
<1> QED BY <1>1, <1>2, <1>3, <1>4, <1>5, <1>6, <1>7, <1>8 DEF PostureNext, Notebook
\* PInv is an invariant.
LEMMA PostureInvariant == PostureSpec => []PInv
BY InitPInv, StepPInv, PTL DEF PostureSpec

\* Types, and one row for each application and severity.
LEMMA PInvTypes == PInv => PostureTypeOK
<1> SUFFICES ASSUME PInv PROVE PostureTypeOK
  OBVIOUS
<1>1. ASSUME NEW tables \in TablesType, NEW t \in Nat, gold = ComputePostureRows(tables, t)
      PROVE  \A row \in gold : row.open_count \in Nat /\ row.closed_count \in Nat
  <2>1. ASSUME NEW app, NEW severity, NEW statuses
        PROVE  Tally(Bucket(Surviving(tables, t), app, severity), statuses) \in Nat
    <3>1. IsFiniteSet(Surviving(tables, t))
      BY SurvivingFinite DEF TablesType
    <3>2. {p \in Bucket(Surviving(tables, t), app, severity) :
              p[1].status_canonical \in statuses} \in SUBSET Surviving(tables, t)
      BY DEF Bucket
    <3> QED BY <3>1, <3>2, FS_Subset, FS_CardinalityType DEF Tally
  <2> QED BY <1>1, <2>1, ComputedRows DEF OpenCount
<1>2. ASSUME NEW tables \in TablesType, NEW t \in Nat, gold = ComputePostureRows(tables, t),
             NEW r1 \in gold, NEW r2 \in gold, r1.application_id = r2.application_id,
             r1.severity_canonical = r2.severity_canonical
      PROVE  r1 = r2
  BY <1>2, ComputedRows
<1> QED BY <1>1, <1>2 DEF PInv, ReadInv, GoldInv, PostureTypeOK

----------------------------------------------------------------------------
(* What is published. *)

\* A run publishes in one step only.
LEMMA OnlyWritePublishes ==
    ASSUME [PostureNext]_postureVars, step = "compute", step' = "written"
    PROVE  Write
<1>1. \A f \in FindingRows : ~AppendFinding(f)
  BY DEF AppendFinding, runVars
<1>2. \A m \in LinkRows : ~MergeLink(m)
  BY DEF MergeLink, runVars
<1>3. ~RulesStep
  BY DEF RulesStep, runVars
<1>4. ~Collect /\ ~ReadWidget /\ ~UNCHANGED postureVars
  BY DEF Collect, CollectTable, ReadWidget, postureVars, runVars
<1>5. \A parameters \in Parameters : ~Start(parameters)
  BY DEF Start
<1> QED BY <1>1, <1>2, <1>3, <1>4, <1>5 DEF PostureNext, Notebook

\* What a run publishes lies between the open counts at its start, under the rules
\* by now, and those by now, under the rules at its start.
LEMMA CountsAreBounded ==
    ASSUME PInv, [PostureNext]_postureVars, step = "compute", step' = "written",
           NEW app \in Applications \ {UNMAPPED}, NEW severity
    PROVE  /\ OpenCount([atStart EXCEPT !.rules = rules], now, app, severity)
                <= PublishedOpen(app, severity)'
           /\ PublishedOpen(app, severity)'
                <= OpenCount([Tables EXCEPT !.rules = atStart.rules], now, app, severity)
<1>1. /\ Write /\ gold' = ComputePostureRows(collected, now)
      /\ collected \in TablesType /\ atStart \in TablesType
  BY OnlyWritePublishes DEF Write, PInv, ReadInv
<1>2. collected.findings \subseteq FindingRows /\ collected.mapping \subseteq LinkRows
  BY <1>1 DEF TablesType
<1>3. PublishedOpen(app, severity)' = OpenCount(collected, now, app, severity)
  BY <1>1, <1>2, PublishedIsCount
<1> DEFINE low  == [atStart EXCEPT !.rules = rules]
           high == [Tables EXCEPT !.rules = atStart.rules]
<1>4. low.findings = atStart.findings /\ low.mapping = atStart.mapping /\ low.rules = rules
  BY <1>1 DEF TablesType
<1>5. high.findings = findings /\ high.mapping = mapping /\ high.rules = atStart.rules
  BY DEF Tables
<1>6. OpenCount(low, now, app, severity) <= OpenCount(collected, now, app, severity)
  <2> HIDE DEF low
  <2> QED BY <1>2, <1>4, OpenCountGrows DEF PInv, RunInv
<1>7. OpenCount(collected, now, app, severity) <= OpenCount(high, now, app, severity)
  <2> HIDE DEF high
  <2> QED BY <1>5, OpenCountGrows DEF PInv, ReadInv, RunInv
<1> QED BY <1>3, <1>6, <1>7

\* Whatever is written while a run reads its three tables, each open count of an
\* application lies between those of its start and of its end.
THEOREM CountsLieWithinTheRun == PostureSpec => OpenCountsWithinTheRun
<1>1. PInv /\ [PostureNext]_postureVars =>
        [step = "compute" /\ step' = "written" =>
           \A app \in Applications \ {UNMAPPED}, severity \in Severities :
              /\ OpenCount([atStart EXCEPT !.rules = rules], now, app, severity)
                   <= PublishedOpen(app, severity)'
              /\ PublishedOpen(app, severity)'
                   <= OpenCount([Tables EXCEPT !.rules = atStart.rules], now, app, severity)
        ]_postureVars
  BY CountsAreBounded
<1> QED BY <1>1, PostureInvariant, PTL DEF PostureSpec, OpenCountsWithinTheRun

\* A pair of a finding and one of its links that no rule of the table mutes has
\* a row, and had fewer rules before.
LEMMA PairIsShown ==
    ASSUME NEW tables, NEW t, NEW f \in tables.findings, NEW m \in LinksOf(f, tables.mapping),
           gold' = ComputePostureRows(tables, t), tables.rules \subseteq rules', now' = t
    PROVE  Shown(f, m)'
<1>1. CASE IsRowSuppressed(JoinedRow(f, m), rules', now')
  BY <1>1 DEF Shown
<1>2. CASE ~IsRowSuppressed(JoinedRow(f, m), rules', now')
  <2>1. ~IsRowSuppressed(JoinedRow(f, m), tables.rules, t)
    BY <1>2 DEF IsRowSuppressed
  <2>2. <<f, m>> \in Surviving(tables, t)
    BY <2>1, SurvivesMeans
  <2>3. <<f, m>>[1] = f /\ <<f, m>>[2] = m
    OBVIOUS
  <2> QED BY <2>2, <2>3, ComputedRows DEF Shown
<1> QED BY <1>1, <1>2

\* Every finding of the start is shown for the applications linked then, and
\* under the sentinel if none is linked at the end.
THEOREM FindingsAppear == PostureSpec => EveryFindingAppears
<1> DEFINE Appears == \A f \in atStart.findings :
              /\ \A m \in atStart.mapping : m.repository_id = f.repository_id => Shown(f, m)'
              /\ (\A m \in mapping : m.repository_id # f.repository_id) => Shown(f, Unlinked)'
<1>1. ASSUME PInv, [PostureNext]_postureVars, step = "compute", step' = "written"
      PROVE  Appears
  <2>1. /\ gold' = ComputePostureRows(collected, now) /\ now' = now /\ rules' = rules
        /\ collected.rules \subseteq rules /\ collected.mapping \subseteq mapping
        /\ atStart.mapping \subseteq collected.mapping
        /\ atStart.findings \subseteq collected.findings
    BY <1>1, OnlyWritePublishes DEF Write, PInv, RunInv, vars
  <2> TAKE f \in atStart.findings
  <2>2. ASSUME NEW m \in LinksOf(f, collected.mapping) PROVE Shown(f, m)'
    BY <2>1, PairIsShown
  <2>3. ASSUME NEW m \in atStart.mapping, m.repository_id = f.repository_id
        PROVE  m \in LinksOf(f, collected.mapping)
    BY <2>1, <2>3 DEF LinksOf
  <2>4. ASSUME \A m \in mapping : m.repository_id # f.repository_id
        PROVE  Unlinked \in LinksOf(f, collected.mapping)
    BY <2>1, <2>4 DEF LinksOf
  <2> QED BY <2>2, <2>3, <2>4
<1>2. PInv /\ [PostureNext]_postureVars =>
        [step = "compute" /\ step' = "written" => Appears]_postureVars
  BY <1>1
<1> QED BY <1>2, PostureInvariant, PTL DEF PostureSpec, EveryFindingAppears

\* An application that a rule mutes during the whole run has no row.
THEOREM MutedVanish == PostureSpec => MutedApplicationsVanish
<1> DEFINE Vanish == \A rule \in atStart.rules, row \in gold' :
              rule.scope = "application_id" /\ IsRuleActive(rule, now)
                 => ~RuleMatchesValue(rule, row.application_id)
<1>1. ASSUME PInv, [PostureNext]_postureVars, step = "compute", step' = "written"
      PROVE  Vanish
  <2>1. /\ gold' = ComputePostureRows(collected, now)
        /\ atStart.rules \subseteq collected.rules
    BY <1>1, OnlyWritePublishes DEF Write, PInv, RunInv
  <2> TAKE rule \in atStart.rules, row \in gold'
  <2> HAVE rule.scope = "application_id" /\ IsRuleActive(rule, now)
  <2>2. PICK p \in Surviving(collected, now) : p[2].application_id = row.application_id
    BY <2>1, ComputedRows
  <2>3. PICK f \in collected.findings : \E m \in LinksOf(f, collected.mapping) : p = <<f, m>>
    BY SurvivorsArePairs
  <2> PICK m \in LinksOf(f, collected.mapping) : p = <<f, m>>
    BY <2>3
  <2>4. ~IsRowSuppressed(JoinedRow(f, m), collected.rules, now)
    BY SurvivesMeans
  <2>5. /\ rule.scope \in DOMAIN JoinedRow(f, m)
        /\ JoinedRow(f, m)[rule.scope] = row.application_id
    BY <2>2 DEF JoinedRow
  <2> QED BY <2>1, <2>4, <2>5 DEF IsRowSuppressed
<1>2. PInv /\ [PostureNext]_postureVars =>
        [step = "compute" /\ step' = "written" => Vanish]_postureVars
  BY <1>1
<1> QED BY <1>2, PostureInvariant, PTL DEF PostureSpec, MutedApplicationsVanish

----------------------------------------------------------------------------
(* The score and its replica. *)

\* The replica leaves the notebook alone: what is proved of Posture holds here.
THEOREM ReplicaOnlyReads == ScoreSpec => PostureSpec
<1>1. ScoreInit => PostureInit
  BY DEF ScoreInit
<1>2. [ScoreNext]_scoreVars => [PostureNext]_postureVars
  BY DEF ScoreNext, Replicate, Sync, scoreVars
<1> QED BY <1>1, <1>2, PTL DEF ScoreSpec, PostureSpec

----------------------------------------------------------------------------
(* The rows in gold and in the replica. *)

RowInv(row) ==
    /\ row.snapshot_date \in Nat /\ row.open_count \in Nat
    /\ row.application_id # UNMAPPED =>
          row.open_count <= LinkedOpen(row.application_id, row.severity_canonical)

ReplicaInv ==
    /\ \A row \in gold : RowInv(row)
    /\ \A row \in online : RowInv(row)
    /\ \A r1, r2 \in online : PrimaryKey(r1) = PrimaryKey(r2) => r1 = r2

\* The notebook writes to gold alone, and its inputs grow.
LEMMA TablesGrow ==
    ASSUME [PostureNext]_postureVars
    PROVE  /\ findings \subseteq findings' /\ mapping \subseteq mapping'
           /\ \/ gold' = gold
              \/ gold' = ComputePostureRows(collected, now) /\ step = "compute"
<1>1. ASSUME NEW f \in FindingRows, AppendFinding(f)
      PROVE  findings \subseteq findings' /\ mapping' = mapping /\ gold' = gold
  BY <1>1 DEF AppendFinding, runVars
<1>2. ASSUME NEW m \in LinkRows, MergeLink(m)
      PROVE  findings' = findings /\ mapping \subseteq mapping' /\ gold' = gold
  BY <1>2 DEF MergeLink, runVars
<1>3. CASE RulesStep
  BY <1>3 DEF RulesStep, silverVars, runVars
<1>4. ASSUME NEW parameters \in Parameters, Start(parameters)
      PROVE  findings' = findings /\ mapping' = mapping /\ gold' = gold
  BY <1>4 DEF Start, silverVars
<1>5. CASE Notebook
  BY <1>5 DEF Notebook, ReadWidget, Collect, CollectTable, Write, silverVars
<1>6. CASE UNCHANGED postureVars
  BY <1>6 DEF postureVars, silverVars, runVars
<1> QED BY <1>1, <1>2, <1>3, <1>4, <1>5, <1>6 DEF PostureNext

\* What is linked by now was counted at any instant before.
LEMMA LinkedOpenGrows ==
    ASSUME findings \subseteq findings', mapping \subseteq mapping',
           findings' \subseteq FindingRows, mapping' \subseteq LinkRows,
           NEW tables, NEW t, NEW app, NEW severity, app # UNMAPPED,
           tables.findings \subseteq findings, tables.mapping \subseteq mapping
    PROVE  /\ OpenCount(tables, t, app, severity) <= LinkedOpen(app, severity)'
           /\ LinkedOpen(app, severity)' \in Nat
<1> DEFINE B == [findings |-> findings', mapping |-> mapping', rules |-> {}]
<1>1. LinkedOpen(app, severity)' = OpenCount(B, now', app, severity)
  BY DEF LinkedOpen, Tables
<1>2. B.findings = findings' /\ B.mapping = mapping' /\ B.rules = {}
  OBVIOUS
<1> HIDE DEF B
<1> QED BY <1>1, <1>2, OpenCountGrows

\* What is counted as linked and open is a number.
LEMMA LinkedOpenIsNat ==
    ASSUME PInv, NEW app, NEW severity
    PROVE  LinkedOpen(app, severity) \in Nat
<1> DEFINE B == [Tables EXCEPT !.rules = {}]
<1>1. B.findings \subseteq FindingRows /\ B.mapping \subseteq LinkRows
  BY DEF Tables, PInv, ReadInv
<1> HIDE DEF B
<1>2. IsFiniteSet(OpenPairs(B, now, app, severity))
  BY <1>1, SurvivingFinite, FS_Subset DEF OpenPairs
<1> QED BY <1>2, FS_CardinalityType, OpenCountMeans DEF LinkedOpen, B

\* A row keeps its place below what is linked.
LEMMA RowKept ==
    ASSUME PInv, PInv', [PostureNext]_postureVars, NEW row, RowInv(row)
    PROVE  RowInv(row)'
<1>1. SUFFICES ASSUME row.application_id # UNMAPPED
               PROVE  row.open_count <= LinkedOpen(row.application_id, row.severity_canonical)'
  BY DEF RowInv
<1> DEFINE A == [Tables EXCEPT !.rules = {}]
           was == LinkedOpen(row.application_id, row.severity_canonical)
           is  == LinkedOpen(row.application_id, row.severity_canonical)'
<1>2. A.findings = findings /\ A.mapping = mapping
  BY DEF Tables
<1>3. was = OpenCount(A, now, row.application_id, row.severity_canonical)
  BY DEF LinkedOpen
<1> HIDE DEF A
<1>4. was <= is /\ is \in Nat
  BY <1>1, <1>2, <1>3, TablesGrow, LinkedOpenGrows DEF PInv, ReadInv
<1>5. was \in Nat /\ row.open_count \in Nat /\ row.open_count <= was
  BY <1>1, LinkedOpenIsNat DEF RowInv
<1> QED BY <1>4, <1>5

\* So does a row as the notebook writes it.
LEMMA RowWritten ==
    ASSUME PInv, PInv', [PostureNext]_postureVars, step = "compute",
           NEW row \in ComputePostureRows(collected, now)
    PROVE  RowInv(row)'
<1>1. /\ collected \in TablesType /\ now \in Nat
      /\ collected.findings \subseteq findings /\ collected.mapping \subseteq mapping
  BY TimeAssumption DEF PInv, ReadInv, RunInv, TypeOK
<1>2. /\ row.snapshot_date = now
      /\ row.open_count = OpenCount(collected, now, row.application_id, row.severity_canonical)
  BY ComputedRows
<1>3. row.open_count \in Nat
  <2>1. IsFiniteSet(OpenPairs(collected, now, row.application_id, row.severity_canonical))
    BY <1>1, SurvivingFinite, FS_Subset DEF OpenPairs, PInv, ReadInv
  <2> QED BY <1>2, <2>1, FS_CardinalityType, OpenCountMeans
<1>4. ASSUME row.application_id # UNMAPPED
      PROVE  row.open_count <= LinkedOpen(row.application_id, row.severity_canonical)'
  BY <1>1, <1>2, <1>4, TablesGrow, LinkedOpenGrows DEF PInv, ReadInv
<1> QED BY <1>1, <1>2, <1>3, <1>4 DEF RowInv

\* The replica starts empty.
LEMMA InitReplicaInv == ScoreInit => ReplicaInv
BY DEF ScoreInit, PostureInit, ReplicaInv

\* Neither a run nor a synchronisation puts a row into the replica that exceeds what
\* is linked by then.
LEMMA StepReplicaInv ==
    ASSUME PInv, PInv', ReplicaInv, [ScoreNext]_scoreVars
    PROVE  ReplicaInv'
<1>1. [PostureNext]_postureVars
  BY DEF ScoreNext, Replicate, Sync, scoreVars
<1>2. ASSUME NEW row, RowInv(row) PROVE RowInv(row)'
  BY <1>1, <1>2, RowKept
<1>3. \A row \in gold' : RowInv(row)'
  <2>1. CASE gold' = gold
    BY <1>2, <2>1 DEF ReplicaInv
  <2>2. CASE gold' = ComputePostureRows(collected, now) /\ step = "compute"
    BY <1>1, <2>2, RowWritten
  <2> QED BY <1>1, <2>1, <2>2, TablesGrow
<1>4. CASE online' = online
  BY <1>2, <1>3, <1>4 DEF ReplicaInv, PrimaryKey
<1>5. ASSUME NEW r \in gold \union online, Sync(PrimaryKey(r))
      PROVE  ReplicaInv'
  <2> DEFINE source == RowsAt(PrimaryKey(r), gold)
             held   == RowsAt(PrimaryKey(r), online)
  <2>1. online' = online \ held \/ \E row \in source : online' = (online \ held) \union {row}
    BY <1>5 DEF Sync
  <2>2. \A row \in online' : row \in gold \/ row \in online
    BY <2>1 DEF RowsAt
  <2>3. \A row \in online' : RowInv(row)'
    BY <1>2, <2>2 DEF ReplicaInv
  <2>4. \A r1, r2 \in online' : PrimaryKey(r1) = PrimaryKey(r2) => r1 = r2
    <3>1. CASE online' = online \ held
      BY <3>1 DEF ReplicaInv
    <3>2. ASSUME NEW row \in source, online' = (online \ held) \union {row}
          PROVE  \A r1, r2 \in online' : PrimaryKey(r1) = PrimaryKey(r2) => r1 = r2
      <4>1. PrimaryKey(row) = PrimaryKey(r)
        BY DEF RowsAt
      <4>2. \A other \in online \ held : other \in online /\ PrimaryKey(other) # PrimaryKey(r)
        BY DEF RowsAt
      <4> HIDE DEF source, held
      <4> QED BY <3>2, <4>1, <4>2 DEF ReplicaInv
    <3> QED BY <2>1, <3>1, <3>2
  <2> QED BY <1>3, <2>3, <2>4 DEF ReplicaInv, PrimaryKey
<1> QED BY <1>4, <1>5 DEF ScoreNext, Replicate, scoreVars

\* Both invariants hold in every reachable state.
LEMMA ScoreInvariant == ScoreSpec => [](PInv /\ ReplicaInv)
<1>1. ScoreSpec => []PInv
  BY ReplicaOnlyReads, PostureInvariant, PTL
<1>2. PInv /\ PInv' /\ ReplicaInv /\ [ScoreNext]_scoreVars => ReplicaInv'
  BY StepReplicaInv
<1> QED BY <1>1, <1>2, InitReplicaInv, PTL DEF ScoreSpec

----------------------------------------------------------------------------
(* The answers. *)

\* However far the replica is behind, no answer counts more open findings than
\* are linked by now.
THEOREM NeverInflated == ScoreSpec => []ScoreNeverInflated
<1>1. ASSUME PInv, ReplicaInv PROVE ScoreNeverInflated
  <2> SUFFICES ASSUME NEW app \in Applications \ {UNMAPPED}, GetScore(app) # NotFound,
                      NEW severity \in DOMAIN Weights
               PROVE  GetScore(app).severity_breakdown[severity] <= LinkedOpen(app, severity)
    BY DEF ScoreNeverInflated
  <2> DEFINE own == {row \in LatestRows(app) : row.severity_canonical = severity}
  <2>1. GetScore(app).severity_breakdown = Breakdown(LatestRows(app))
    BY DEF GetScore, FetchScore
  <2>2. Breakdown(LatestRows(app))[severity]
          = IF own = {} THEN 0 ELSE (CHOOSE row \in own : TRUE).open_count
    BY DEF Breakdown
  <2>3. CASE own = {}
    BY <1>1, <2>1, <2>2, <2>3, LinkedOpenIsNat
  <2>4. CASE own # {}
    <3>1. (CHOOSE row \in own : TRUE) \in own
      BY <2>4
    <3>2. \A row \in own : row.open_count <= LinkedOpen(app, severity)
      BY <1>1 DEF LatestRows, ReplicaInv, RowInv
    <3> HIDE DEF own
    <3> QED BY <2>1, <2>2, <2>4, <3>1, <3>2
  <2> QED BY <2>3, <2>4
<1> QED BY <1>1, ScoreInvariant, PTL

\* Types, and one row for each key in gold, in the replica and in an answer.
THEOREM TypeCorrect == ScoreSpec => []ScoreTypeOK
<1>1. ASSUME PInv, ReplicaInv PROVE ScoreTypeOK
  <2>1. \A r1, r2 \in online : PrimaryKey(r1) = PrimaryKey(r2) => r1 = r2
    BY <1>1 DEF ReplicaInv
  <2>2. ASSUME NEW row \in online, NEW r1 \in LatestRows(row.application_id),
               NEW r2 \in LatestRows(row.application_id),
               r1.severity_canonical = r2.severity_canonical
        PROVE  r1 = r2
    <3>1. r1 \in online /\ r2 \in online /\ r1.application_id = r2.application_id
      BY DEF LatestRows
    <3>2. r1.snapshot_date <= r2.snapshot_date /\ r2.snapshot_date <= r1.snapshot_date
      BY DEF LatestRows
    <3>3. r1.snapshot_date \in Nat /\ r2.snapshot_date \in Nat
      BY <1>1, <3>1 DEF ReplicaInv, RowInv
    <3>4. r1.snapshot_date = r2.snapshot_date
      BY <3>2, <3>3
    <3> QED BY <2>1, <2>2, <3>1, <3>4 DEF PrimaryKey
  <2> QED BY <1>1, <2>1, <2>2, PInvTypes DEF ScoreTypeOK
<1> QED BY <1>1, ScoreInvariant, PTL
=============================================================================
