-------------------------- MODULE PreMergeGateProofs --------------------------
(***************************************************************************)
(* Theorems about SonarQubeJob, for any sets of issues and native states,  *)
(* any lookups and any number of retries and losses, and on top of them    *)
(* theorems about PreMergeGate, which serves what the job delivers, for any*)
(* applications and repositories and any threshold.                        *)
(***************************************************************************)
EXTENDS PreMergeGate, FiniteSetTheorems, TLAPS

----------------------------------------------------------------------------
(* The SonarQube job. *)

\* What is fetched, has been fetched or is projected was reported.
Reports ==
    /\ \A i \in Issues : source[i] # Unreported => <<i, source[i]>> \in had
    /\ \A i \in todo : source[i] # Unreported
    /\ \A i \in Issues, n \in Natives :
          bronze[<<i, n>>] > 0 \/ batch[<<i, n>>] > 0 => <<i, n>> \in had

\* Bronze is written by the ingest task alone, so a transform attempt projects
\* the table as it is, and silver then has all of it.
Delivered(i, n) == bronze[<<i, n>>] > 0 => silver[<<i, StandingOf(n)>>] > 0
Transforms ==
    /\ task = "projecting" => batch = bronze
    /\ task \in {"appended", "delivered"} =>
          \A i \in SecurityIssues, n \in Natives : Delivered(i, n)

\* What stands still since the run began is in bronze once it is fetched.
Landed(i) == bronze[<<i, source[i]>>] > 0
AfterIngest == {"ingest_done", "transform", "projecting", "appended", "transform_lost",
                "delivered"}
Ingests ==
    \A i \in Reported \intersect steady :
        /\ task = "ingesting" => i \in todo \/ Landed(i)
        /\ task \in AfterIngest => Landed(i)

SonarInv == SonarTypeOK /\ Reports /\ FindingsHaveEvidence /\ Transforms /\ Ingests

----------------------------------------------------------------------------
(* Counts. *)

\* A saturating count is zero exactly if what it counts is.
LEMMA CappedCounts ==
    ASSUME NEW n \in Nat
    PROVE  Capped(n) \in 0..Many /\ (Capped(n) > 0 <=> n > 0)
BY DEF Capped, Many

\* Whatever the native severity, the lookup gives a canonical one.
LEMMA SeverityIsCanonical == ASSUME NEW n PROVE SeverityCanonical(n) \in Severities
BY StatesAssumption DEF SeverityCanonical, Severities

\* The rows projected of an issue can be counted.
LEMMA ProjectedIsCounted ==
    ASSUME NEW i, NEW s
    PROVE  /\ Cardinality(Projected(i, s)) \in Nat
           /\ Cardinality(Projected(i, s)) > 0 <=> Projected(i, s) # {}
<1>1. IsFiniteSet(1..Many)
  <2>1. 1 \in Int /\ Many \in Int
    BY DEF Many
  <2> QED
    BY <2>1, FS_Interval
<1>2. IsFiniteSet(Natives \X (1..Many))
  BY <1>1, FS_Product, IssuesAssumption
<1>3. IsFiniteSet(Projected(i, s))
  BY <1>2, FS_Subset DEF Projected
<1> QED
  BY <1>3, FS_CardinalityType, FS_EmptySet

\* A row is made of a security issue in every state that is in the batch.
LEMMA ProjectedRows ==
    ASSUME SonarTypeOK, NEW i \in Issues, NEW s
    PROVE  Projected(i, s) # {} <=>
              i \in SecurityIssues /\ \E n \in Natives : StandingOf(n) = s /\ batch[<<i, n>>] > 0
<1>1. ASSUME NEW n \in Natives PROVE batch[<<i, n>>] \in 0..2
  BY DEF SonarTypeOK, BronzeKeys, Many
<1>2. ASSUME Projected(i, s) # {}
      PROVE  i \in SecurityIssues /\ \E n \in Natives : StandingOf(n) = s /\ batch[<<i, n>>] > 0
  <2>1. PICK p \in Natives \X (1..2) :
            i \in SecurityIssues /\ StandingOf(p[1]) = s /\ p[2] <= batch[<<i, p[1]>>]
    BY <1>2 DEF Projected, Many
  <2>2. p[1] \in Natives /\ p[2] \in 1..2
    OBVIOUS
  <2> QED
    BY <2>1, <2>2, <1>1
<1>3. ASSUME i \in SecurityIssues, NEW n \in Natives, StandingOf(n) = s, batch[<<i, n>>] > 0
      PROVE  Projected(i, s) # {}
  <2>1. <<n, 1>> \in Natives \X (1..2) /\ 1 <= batch[<<i, n>>]
    BY <1>1, <1>3
  <2>2. <<n, 1>> \in Projected(i, s)
    BY <1>3, <2>1 DEF Projected, Many
  <2> QED
    BY <2>2
<1> QED
  BY <1>2, <1>3

\* What the append of a transform does to a count.
LEMMA AppendCounts ==
    ASSUME SonarTypeOK, Append, NEW i \in Issues, NEW s \in Standings
    PROVE  /\ silver'[<<i, s>>] \in 0..Many
           /\ silver'[<<i, s>>] > 0 <=> silver[<<i, s>>] > 0 \/ Projected(i, s) # {}
<1> DEFINE new == Cardinality(Projected(i, s))
<1>1. silver'[<<i, s>>] = Capped(silver[<<i, s>>] + new)
  BY DEF Append, SilverKeys
<1>2. silver[<<i, s>>] \in Nat
  BY DEF SonarTypeOK, SilverKeys, Many
<1>3. new \in Nat /\ (new > 0 <=> Projected(i, s) # {})
  BY ProjectedIsCounted
<1> HIDE DEF new
<1>4. silver[<<i, s>>] + new \in Nat
      /\ (silver[<<i, s>>] + new > 0 <=> silver[<<i, s>>] > 0 \/ new > 0)
  BY <1>2, <1>3
<1> QED
  BY <1>1, <1>3, <1>4, CappedCounts

----------------------------------------------------------------------------
(* The inductive invariant. *)

\* The invariant holds at first.
LEMMA InitSonarInv == SonarInit => SonarInv
<1> SUFFICES ASSUME SonarInit PROVE SonarInv
  OBVIOUS
<1> USE DEF SonarInit
<1>1. SonarTypeOK
  BY LimitsAssumption DEF SonarTypeOK, Empty, Many, Task, Waiting
<1>2. Reports
  BY DEF Reports, Empty, BronzeKeys
<1>3. FindingsHaveEvidence
  BY DEF FindingsHaveEvidence, SilverKeys
<1>4. Transforms /\ Ingests
  BY DEF Transforms, Ingests, AfterIngest
<1> QED
  BY <1>1, <1>2, <1>3, <1>4 DEF SonarInv

\* The server only adds to what has been reported.
LEMMA ServerKeepsInv == SonarInv /\ ServerStep => SonarInv'
<1> SUFFICES ASSUME SonarInv, NEW i \in Issues, NEW n \in Natives, IssueChanges(i, n)
             PROVE  SonarInv'
  BY DEF ServerStep
<1> USE DEF SonarInv, IssueChanges, jobVars
<1>1. SonarTypeOK'
  BY DEF SonarTypeOK, BronzeKeys
<1>2. Reports'
  BY StatesAssumption DEF Reports, SonarTypeOK
<1>3. FindingsHaveEvidence'
  BY DEF FindingsHaveEvidence
<1>4. Transforms'
  BY DEF Transforms, Delivered
<1>5. Ingests'
  <2>1. \A j \in Issues : j # i => source'[j] = source[j]
    BY DEF SonarTypeOK
  <2>2. \A j \in Reported' \intersect steady' :
            j \in Reported \intersect steady /\ source'[j] = source[j]
    BY <2>1 DEF Reported
  <2> QED
    BY <2>2 DEF Ingests, Landed
<1> QED
  BY <1>1, <1>2, <1>3, <1>4, <1>5

\* The schedule and the ingest task keep what the tables owe one another.
LEMMA IngestKeepsInv ==
    SonarInv /\ (CronFires \/ FetchSome \/ IngestDone \/ RetryIngest) => SonarInv'
<1> USE DEF SonarInv, server
<1>1. ASSUME SonarInv, BeginIngest, steady' = Issues \/ steady' = steady, retries' \in 0..MaxRetries
      PROVE  SonarInv'
  <2> USE <1>1 DEF BeginIngest
  <2>1. SonarTypeOK'
    BY DEF SonarTypeOK, Task, Reported
  <2>2. Reports'
    BY DEF Reports, Reported
  <2>3. FindingsHaveEvidence'
    BY DEF FindingsHaveEvidence
  <2>4. Transforms' /\ Ingests'
    BY DEF Transforms, Ingests, Reported, AfterIngest
  <2> QED
    BY <2>1, <2>2, <2>3, <2>4
<1>2. ASSUME SonarInv, CronFires PROVE SonarInv'
  <2>1. 0 \in 0..MaxRetries
    BY LimitsAssumption
  <2> QED
    BY <1>1, <1>2, <2>1 DEF CronFires
<1>3. ASSUME SonarInv, RetryIngest PROVE SonarInv'
  <2>1. retries + 1 \in 0..MaxRetries
    BY <1>3, LimitsAssumption DEF RetryIngest, SonarTypeOK
  <2> QED
    BY <1>1, <1>3, <2>1 DEF RetryIngest
<1>4. ASSUME SonarInv, NEW i \in Issues, Fetch(i) PROVE SonarInv'
  <2> USE <1>4 DEF Fetch
  <2> DEFINE key == <<i, source[i]>>
  <2>1. source[i] \in Natives /\ key \in BronzeKeys /\ key \in had
    BY DEF Reports, SonarTypeOK, BronzeKeys
  <2>2. bronze[key] \in Nat /\ bronze[key] + 1 \in Nat /\ bronze[key] + 1 > 0
    BY <2>1 DEF SonarTypeOK, Many
  <2>3. /\ bronze' = [bronze EXCEPT ![key] = Capped(bronze[key] + 1)]
        /\ Capped(bronze[key] + 1) \in 0..Many /\ Capped(bronze[key] + 1) > 0
    BY <2>2, CappedCounts
  <2> HIDE DEF key
  <2>4. SonarTypeOK'
    BY <2>1, <2>3 DEF SonarTypeOK
  <2>5. /\ bronze'[key] > 0
        /\ \A other \in BronzeKeys : other # key => bronze'[other] = bronze[other]
    BY <2>1, <2>3 DEF SonarTypeOK
  <2>6. Reports'
    <3>1. ASSUME NEW j \in Issues, NEW n \in Natives, bronze'[<<j, n>>] > 0 \/ batch'[<<j, n>>] > 0
          PROVE  <<j, n>> \in had
      <4>1. <<j, n>> \in BronzeKeys
        BY DEF BronzeKeys
      <4> QED
        BY <2>1, <2>5, <3>1, <4>1 DEF Reports
    <3> QED
      BY <3>1 DEF Reports
  <2>7. FindingsHaveEvidence' /\ Transforms'
    BY DEF FindingsHaveEvidence, Transforms
  <2>8. Ingests'
    <3>1. ASSUME NEW j \in Reported \intersect steady PROVE j \in todo' \/ Landed(j)'
      <4>1. CASE j = i
        BY <2>5, <4>1 DEF Landed, key
      <4>2. CASE j # i
        <5>1. j \in todo \/ bronze[<<j, source[j]>>] > 0
          BY DEF Ingests, Landed
        <5>2. <<j, source[j]>> \in BronzeKeys /\ <<j, source[j]>> # key
          BY <4>2 DEF BronzeKeys, Reported, SonarTypeOK, key
        <5> QED
          BY <2>5, <4>2, <5>1, <5>2 DEF Landed
      <4> QED
        BY <4>1, <4>2
    <3>2. Reported' = Reported /\ steady' = steady /\ task' = "ingesting"
      BY DEF Reported
    <3> QED
      BY <3>1, <3>2 DEF Ingests, AfterIngest
  <2> QED
    BY <2>4, <2>6, <2>7, <2>8
<1>5. ASSUME SonarInv, IngestDone PROVE SonarInv'
  <2> USE <1>5 DEF IngestDone
  <2>1. SonarTypeOK'
    BY DEF SonarTypeOK, Task
  <2>2. Reports' /\ FindingsHaveEvidence' /\ Transforms'
    BY DEF Reports, FindingsHaveEvidence, Transforms
  <2>3. Ingests'
    BY DEF Ingests, Reported, Landed
  <2> QED
    BY <2>1, <2>2, <2>3
<1> QED
  BY <1>2, <1>3, <1>4, <1>5 DEF FetchSome

\* So does every step of the transform task but the append, and the loss of a task.
LEMMA TransformKeepsInv ==
    SonarInv /\ (StartTransform \/ ReadBronze \/ Deliver \/ RetryTransform \/ RunFails \/ TaskLost)
        => SonarInv'
<1> SUFFICES ASSUME SonarInv,
                    StartTransform \/ ReadBronze \/ Deliver \/ RetryTransform \/ RunFails
                        \/ TaskLost
             PROVE  SonarInv'
  OBVIOUS
<1> USE DEF SonarInv, server, StartTransform, ReadBronze, Deliver, RetryTransform, RunFails,
            TaskLost
<1>1. SonarTypeOK'
  BY LimitsAssumption DEF SonarTypeOK, Task, Waiting, Empty, Many
<1>2. Reports'
  BY DEF Reports, Empty, BronzeKeys
<1>3. FindingsHaveEvidence'
  BY DEF FindingsHaveEvidence
<1>4. Transforms'
  BY DEF Transforms, Delivered
<1>5. Ingests'
  BY DEF Ingests, Reported, Landed, AfterIngest
<1> QED
  BY <1>1, <1>2, <1>3, <1>4, <1>5

\* The append gives silver all that bronze holds.
LEMMA AppendKeepsInv == SonarInv /\ Append => SonarInv'
<1> SUFFICES ASSUME SonarInv, Append PROVE SonarInv'
  OBVIOUS
<1> USE DEF SonarInv
<1>0. /\ UNCHANGED <<source, had, steady, bronze, retries, faults, todo>>
      /\ task = "projecting" /\ task' = "appended" /\ batch' = Empty
  BY DEF Append, server
<1>1. SonarTypeOK'
  <2>1. silver' \in [SilverKeys -> 0..Many]
    <3>1. silver' = [key \in SilverKeys |-> silver'[key]]
      BY DEF Append
    <3>2. \A key \in SilverKeys : silver'[key] \in 0..Many
      BY AppendCounts DEF SilverKeys
    <3> QED
      BY <3>1, <3>2
  <2>2. Empty \in [BronzeKeys -> 0..Many]
    BY DEF Empty, Many
  <2> QED
    BY <1>0, <2>1, <2>2 DEF SonarTypeOK, Task
<1>2. Reports'
  BY <1>0 DEF Reports, Empty, BronzeKeys
<1>3. FindingsHaveEvidence'
  <2> SUFFICES ASSUME NEW i \in Issues, NEW s \in Standings, silver'[<<i, s>>] > 0
               PROVE  i \in SecurityIssues /\ \E n \in Natives : <<i, n>> \in had /\ StandingOf(n) = s
    BY <1>0 DEF FindingsHaveEvidence
  <2>1. CASE silver[<<i, s>>] > 0
    BY <2>1 DEF FindingsHaveEvidence
  <2>2. CASE Projected(i, s) # {}
    BY <2>2, ProjectedRows DEF Reports
  <2> QED
    BY <2>1, <2>2, AppendCounts
<1>4. Transforms'
  <2>1. ASSUME NEW i \in SecurityIssues, NEW n \in Natives, bronze[<<i, n>>] > 0
        PROVE  silver'[<<i, StandingOf(n)>>] > 0
    <3>1. i \in Issues /\ StandingOf(n) \in Standings
      BY IssuesAssumption DEF Standings
    <3>2. batch[<<i, n>>] > 0
      BY <1>0, <2>1 DEF Transforms
    <3>3. Projected(i, StandingOf(n)) # {}
      BY <3>1, <3>2, ProjectedRows
    <3> QED
      BY <3>1, <3>3, AppendCounts
  <2> QED
    BY <1>0, <2>1 DEF Transforms, Delivered
<1>5. Ingests'
  BY <1>0 DEF Ingests, Reported, Landed, AfterIngest
<1> QED
  BY <1>1, <1>2, <1>3, <1>4, <1>5

\* So every step of the job keeps the invariant.
LEMMA NextSonarInv == SonarInv /\ [SonarNext]_sonarVars => SonarInv'
<1>1. SonarInv /\ SonarNext => SonarInv'
  BY ServerKeepsInv, IngestKeepsInv, TransformKeepsInv, AppendKeepsInv DEF SonarNext, JobStep
<1>2. SonarInv /\ UNCHANGED sonarVars => SonarInv'
  BY DEF sonarVars, server, jobVars, SonarInv, SonarTypeOK, Reports, FindingsHaveEvidence,
         Transforms, Delivered, Ingests, Landed, Reported
<1> QED
  BY <1>1, <1>2

\* SonarInv is an invariant of the job.
LEMMA SonarInvHolds == SonarSpec => []SonarInv
BY InitSonarInv, NextSonarInv, PTL DEF SonarSpec

----------------------------------------------------------------------------
(* Theorems. *)

\* Every variable of the job keeps its type, for all lookups with canonical
\* values and every limit on retries (resources/job.yml).
THEOREM TypeCorrect == SonarSpec => []SonarTypeOK
BY SonarInvHolds, PTL DEF SonarInv

\* No row of silver.findings is made up, however often bronze is projected again
\* (transform_entry.py:40-45).
THEOREM FindingsRestOnEvidence == SonarSpec => []FindingsHaveEvidence
BY SonarInvHolds, PTL DEF SonarInv

\* A delivered run leaves nothing behind in bronze, whichever run landed it.
THEOREM BronzeIsDelivered == SonarSpec => []NothingStaysInBronze
<1>1. SonarInv => NothingStaysInBronze
  BY DEF SonarInv, Transforms, Delivered, NothingStaysInBronze
<1> QED
  BY <1>1, SonarInvHolds, PTL

\* A delivered run has delivered the state of every security issue that stood
\* still, whatever was lost and retried on the way (resources/job.yml:17).
THEOREM RunsDeliver == SonarSpec => []RunDelivers
<1>1. SonarInv => RunDelivers
  <2> SUFFICES ASSUME SonarInv, task = "delivered",
                      NEW i \in SecurityIssues \intersect Reported \intersect steady
               PROVE  silver[<<i, StandingOf(source[i])>>] > 0
    BY DEF RunDelivers
  <2>1. bronze[<<i, source[i]>>] > 0 /\ source[i] \in Natives
    BY DEF SonarInv, SonarTypeOK, Ingests, Landed, AfterIngest, Reported
  <2> QED
    BY <2>1 DEF SonarInv, Transforms, Delivered
<1> QED
  BY <1>1, SonarInvHolds, PTL

----------------------------------------------------------------------------
(* The gate and its view. *)

\* Past or present rows of the view are what the replica holds.
ReplicaInv ==
    /\ replica \in [Candidates -> Rows \union {NoRow}]
    /\ \A f \in Candidates : replica[f] # NoRow => replica[f].finding_id = f /\ replica[f] \in View

\* What blocks is a row of the view, and its finding stays in the replica, be it
\* for another application.
Blocks(row) == /\ row \in View /\ Rank(row) >= SEVERITY_RANK[Threshold]
               /\ row.finding_id \in verdict.asked /\ replica[row.finding_id] # NoRow
VerdictInv == verdict.asked \subseteq Candidates /\ \A row \in verdict.blocking : Blocks(row)

GateInv == SonarInv /\ ReplicaInv /\ VerdictInv

----------------------------------------------------------------------------
(* Rows. *)

\* A row bears an issue, which can be a candidate, and a canonical severity.
LEMMA RowIs ==
    ASSUME NEW row \in Rows
    PROVE  /\ row.finding_id \in Issues /\ row.finding_id \in Candidates
           /\ row.severity_canonical \in Severities
BY GateAssumption, SeverityIsCanonical DEF Rows, Row

\* The ranks say what the policy asks.
LEMMA RanksAreSevere ==
    ASSUME NEW row, row.severity_canonical \in Severities
    PROVE  Rank(row) >= SEVERITY_RANK[Threshold] <=> Severe(row.severity_canonical)
<1>1. DOMAIN SEVERITY_RANK = Severities
  BY DEF SEVERITY_RANK, Severities
<1>2. Rank(row) = SEVERITY_RANK[row.severity_canonical]
  BY <1>1 DEF Rank
<1>3. CASE PolicyThreshold \in Severities
  BY <1>1, <1>2, <1>3 DEF Severe, Threshold
<1>4. CASE PolicyThreshold \notin Severities
  <2>1. Threshold = "high"
    BY <1>1, <1>4 DEF Threshold
  <2>2. \A v \in Severities : SEVERITY_RANK[v] >= SEVERITY_RANK["high"] <=> v \in {"high", "critical"}
    BY DEF SEVERITY_RANK, Severities
  <2> QED
    BY <1>2, <1>4, <2>1, <2>2 DEF Severe
<1> QED
  BY <1>3, <1>4

\* What the view shows was open on the server in the severity it shows.
LEMMA ViewIs ==
    ASSUME SonarInv, NEW row \in View
    PROVE  \E n \in Natives :
              <<row.finding_id, n>> \in had /\ StandingOf(n) = <<"open", row.severity_canonical>>
<1> DEFINE standing == <<"open", row.severity_canonical>>
<1>1. row.finding_id \in Issues /\ standing \in Standings /\ silver[<<row.finding_id, standing>>] > 0
  BY RowIs DEF View, Held
<1> HIDE DEF standing
<1>2. \E n \in Natives : <<row.finding_id, n>> \in had /\ StandingOf(n) = standing
  BY <1>1 DEF SonarInv, FindingsHaveEvidence
<1> QED
  BY <1>2 DEF standing

\* Silver forgets nothing.
LEMMA SilverGrows ==
    ASSUME SonarInv, [SonarNext]_sonarVars, NEW i \in Issues, NEW s \in Standings,
           silver[<<i, s>>] > 0
    PROVE  silver'[<<i, s>>] > 0
<1>1. CASE Append
  BY <1>1, AppendCounts DEF SonarInv
<1>2. CASE ~Append
  <2>1. silver' = silver
    BY <1>2 DEF SonarNext, ServerStep, IssueChanges, JobStep, CronFires, BeginIngest, FetchSome,
                Fetch, IngestDone, StartTransform, ReadBronze, Deliver, RetryIngest,
                RetryTransform, RunFails, TaskLost, sonarVars, jobVars
  <2> QED
    BY <2>1
<1> QED
  BY <1>1, <1>2

\* Nor does the view.
LEMMA ViewGrows ==
    ASSUME SonarInv, [GateNext]_allVars PROVE View \subseteq View' /\ links \subseteq links'
<1>1. [SonarNext]_sonarVars /\ links \subseteq links'
  BY DEF GateNext, Link, SyncSome, Sync, Precommit, allVars, gateVars
<1>2. ASSUME NEW row \in View PROVE row \in View'
  <2> DEFINE standing == <<"open", row.severity_canonical>>
  <2>1. row \in Rows /\ row.finding_id \in Issues /\ standing \in Standings
        /\ silver[<<row.finding_id, standing>>] > 0
    BY RowIs DEF View, Held
  <2> HIDE DEF standing
  <2>2. silver'[<<row.finding_id, standing>>] > 0
    BY <1>1, <2>1, SilverGrows
  <2>3. Held(row, "open")'
    BY <2>1, <2>2 DEF Held, standing
  <2> QED
    BY <1>1, <2>1, <2>3 DEF View, Linked
<1> QED
  BY <1>1, <1>2

----------------------------------------------------------------------------
(* The inductive invariant. *)

\* The invariant of the gate holds at first.
LEMMA InitGateInv == GateInit => GateInv
BY InitSonarInv DEF GateInit, GateInv, ReplicaInv, VerdictInv

\* What is fetched for a pull request is of the view and of what was asked.
LEMMA FetchedIs ==
    ASSUME ReplicaInv, NEW asked \in SUBSET Candidates, NEW row \in Fetched(asked)
    PROVE  row \in View /\ row.finding_id \in asked /\ replica[row.finding_id] # NoRow
<1>1. PICK f \in asked : row = replica[f] /\ row # NoRow
  BY DEF Fetched
<1>2. row.finding_id = f /\ row \in View
  BY <1>1 DEF ReplicaInv
<1> QED
  BY <1>1, <1>2

\* A finding that is in the view stays in the replica.
LEMMA ReplicaStays ==
    ASSUME SonarInv, ReplicaInv, [GateNext]_allVars
    PROVE  /\ ReplicaInv'
           /\ \A f \in Candidates : replica[f] # NoRow => replica'[f] # NoRow
<1>1. ASSUME NEW f \in Candidates, Sync(f)
      PROVE  /\ replica' \in [Candidates -> Rows \union {NoRow}]
             /\ \A g \in Candidates : replica'[g] # NoRow =>
                   replica'[g].finding_id = g /\ replica'[g] \in View
             /\ \A g \in Candidates : replica[g] # NoRow => replica'[g] # NoRow
  <2>1. PICK row \in Shown(f) : replica' = [replica EXCEPT ![f] = row]
    BY <1>1 DEF Sync
  <2>2. CASE RowsFor(f) = {}
    <3>1. row = NoRow
      BY <2>2 DEF Shown
    <3>2. replica[f] = NoRow
      BY <2>2 DEF ReplicaInv, RowsFor
    <3> QED
      BY <2>1, <3>1, <3>2 DEF ReplicaInv
  <2>3. CASE RowsFor(f) # {}
    <3>1. row \in View /\ row \in Rows /\ row.finding_id = f /\ row # NoRow
      BY <2>3, RowAssumption DEF Shown, RowsFor, View
    <3> QED
      BY <2>1, <3>1 DEF ReplicaInv
  <2> QED
    BY <2>2, <2>3
<1>2. CASE SyncSome
  BY <1>1, <1>2, ViewGrows DEF SyncSome, ReplicaInv
<1>3. CASE ~SyncSome
  <2>1. replica' = replica
    BY <1>3 DEF GateNext, Link, Precommit, allVars, gateVars
  <2> QED
    BY <2>1, ViewGrows DEF ReplicaInv
<1> QED
  BY <1>2, <1>3

\* It holds after every step of the job, the linker, the replica and the gate.
LEMMA NextGateInv == GateInv /\ [GateNext]_allVars => GateInv'
<1> SUFFICES ASSUME GateInv, [GateNext]_allVars PROVE GateInv'
  OBVIOUS
<1> USE DEF GateInv
<1>1. SonarInv'
  <2>1. [SonarNext]_sonarVars
    BY DEF GateNext, Link, SyncSome, Sync, Precommit, allVars
  <2> QED
    BY <2>1, NextSonarInv
<1>2. ReplicaInv'
  BY ReplicaStays
<1>3. VerdictInv'
  <2>1. CASE verdict' = verdict
    <3>1. ASSUME NEW row \in verdict.blocking PROVE Blocks(row)'
      <4>1. Blocks(row) /\ row \in Rows
        BY DEF VerdictInv, Blocks, View
      <4>2. replica'[row.finding_id] # NoRow
        BY <4>1, RowIs, ReplicaStays DEF Blocks
      <4> QED
        BY <2>1, <4>1, <4>2, ViewGrows DEF Blocks
    <3> QED
      BY <2>1, <3>1 DEF VerdictInv
  <2>2. ASSUME NEW asked \in SUBSET Candidates, Precommit(asked) PROVE VerdictInv'
    <3>1. /\ verdict'.asked = asked /\ verdict'.blocking = Evaluate(Fetched(asked))
          /\ UNCHANGED <<silver, links, replica>>
      BY <2>2 DEF Precommit, sonarVars, jobVars
    <3>2. ASSUME NEW row \in Evaluate(Fetched(asked)) PROVE Blocks(row)'
      <4>1. row \in Fetched(asked) /\ Rank(row) >= SEVERITY_RANK[Threshold]
        BY DEF Evaluate
      <4> QED
        BY <3>1, <4>1, FetchedIs, ViewGrows DEF Blocks
    <3> QED
      BY <3>1, <3>2 DEF VerdictInv
  <2> QED
    BY <2>1, <2>2 DEF GateNext, Link, SyncSome, Sync, allVars, gateVars
<1> QED
  BY <1>1, <1>2, <1>3

\* GateInv is an invariant.
LEMMA GateInvHolds == GateSpec => []GateInv
BY InitGateInv, NextGateInv, PTL DEF GateSpec

----------------------------------------------------------------------------
(* Theorems. *)

\* The gate blocks only for a finding it was asked about, in a linked repository,
\* that was open on the server at some time in a severity the policy asks to be
\* blocked (policy.py:50-90, queries.py:120-170).
THEOREM BlocksHaveCause == GateSpec => []BlocksForCause
<1>1. GateInv => BlocksForCause
  <2> SUFFICES ASSUME GateInv, NEW row \in verdict.blocking
               PROVE  /\ row.finding_id \in verdict.asked
                      /\ Severe(row.severity_canonical)
                      /\ Linked(row)
                      /\ \E n \in Natives : /\ <<row.finding_id, n>> \in had
                                           /\ StandingOf(n) = <<"open", row.severity_canonical>>
    BY DEF BlocksForCause
  <2>1. Blocks(row) /\ row \in View /\ row \in Rows
    BY DEF GateInv, VerdictInv, Blocks, View
  <2>2. Severe(row.severity_canonical)
    BY <2>1, RowIs, RanksAreSevere DEF Blocks
  <2> QED
    BY <2>1, <2>2, ViewIs DEF Blocks, View, GateInv
<1> QED
  BY <1>1, GateInvHolds, PTL

\* What the gate has blocked it lets through again only when the replica holds a
\* row of the finding that is below the threshold, from a time when the server
\* reported it so: no run, link or synchronisation takes a finding out of the
\* replica (online_tables.yml:9-14), but each may change the row it is shown by.
THEOREM LiftsHaveCause == GateSpec => BlocksLiftForCause
<1>1. GateInv /\ [GateNext]_allVars
        => [verdict.asked \subseteq verdict'.asked /\ Allowed'
              => \A row \in verdict.blocking : OnceMild(row.finding_id)]_allVars
  <2> SUFFICES ASSUME GateInv, [GateNext]_allVars, verdict.asked \subseteq verdict'.asked, Allowed',
                      NEW row \in verdict.blocking
               PROVE  OnceMild(row.finding_id)
    OBVIOUS
  <2>1. Blocks(row)
    BY DEF GateInv, VerdictInv
  <2>2. CASE verdict' = verdict
    BY <2>2 DEF Allowed
  <2>3. ASSUME NEW asked \in SUBSET Candidates, Precommit(asked) PROVE OnceMild(row.finding_id)
    <3> DEFINE f     == row.finding_id
               other == replica[f]
    <3>1. f \in asked /\ f \in Candidates /\ other # NoRow
      BY <2>1, <2>3 DEF Precommit, Blocks
    <3>2. other \in View /\ other \in Rows /\ other.finding_id = f
      BY <3>1 DEF GateInv, ReplicaInv, View
    <3>3. verdict'.blocking = Evaluate(Fetched(asked))
      BY <2>3 DEF Precommit
    <3>4. ~(Rank(other) >= SEVERITY_RANK[Threshold])
      BY <3>1, <3>3 DEF Allowed, Evaluate, Fetched
    <3> HIDE DEF f, other
    <3>5. ~Severe(other.severity_canonical)
      BY <3>2, <3>4, RowIs, RanksAreSevere
    <3>6. PICK n \in Natives : <<f, n>> \in had /\ StandingOf(n) = <<"open", other.severity_canonical>>
      BY <3>2, ViewIs DEF GateInv
    <3>7. StatusOf(n) = "open" /\ SeverityCanonical(n) = other.severity_canonical
      BY <3>6 DEF StandingOf
    <3> QED
      BY <3>5, <3>6, <3>7 DEF OnceMild, f
  <2> QED
    BY <2>2, <2>3 DEF GateNext, Link, SyncSome, Sync, allVars, gateVars
<1> QED
  BY <1>1, GateInvHolds, PTL DEF GateSpec, BlocksLiftForCause
=============================================================================
