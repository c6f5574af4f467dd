--------------------------- MODULE AppRepoLinkProofs ---------------------------
(***************************************************************************)
(* What AppRepoLink guarantees for any applications, repositories, codes    *)
(* and bounds: proofs of its type invariant, of its safety and action       *)
(* properties, and that it implements LinkRegistry.                         *)
(***************************************************************************)
EXTENDS AppRepoLink, FiniteSetTheorems, TLAPS

----------------------------------------------------------------------------
(* Lemmas about the join. *)

\* Rows of a finite table's columns are finitely many.
LEMMA TripleProductFinite ==
    ASSUME NEW A, NEW B, NEW C,
           IsFiniteSet(A), IsFiniteSet(B), IsFiniteSet(C)
    PROVE  IsFiniteSet(A \X B \X C)
<1> DEFINE P == (A \X B) \X C
           Flat(x) == <<x[1][1], x[1][2], x[2]>>
           F == [x \in P |-> Flat(x)]
<1>1. IsFiniteSet(P)
  BY FS_Product
<1>2. A \X B \X C \subseteq {F[x] : x \in P}
  <2> SUFFICES ASSUME NEW t \in A \X B \X C
               PROVE  \E x \in P : F[x] = t
    OBVIOUS
  <2> DEFINE x == << <<t[1], t[2]>>, t[3] >>
  <2>1. x \in P /\ F[x] = t
    OBVIOUS
  <2> QED BY <2>1
<1>3. F \in [P -> {F[x] : x \in P}] /\ IsFiniteSet({F[x] : x \in P})
  <2>1. F \in Surjection(P, {F[x] : x \in P})
    BY DEF Surjection
  <2> QED BY <1>1, <2>1, FS_Surjection
<1> QED BY <1>2, <1>3, FS_Subset

\* The staged rows of a key are finitely many, so their number is a natural
\* number, and zero exactly when there are none.
LEMMA StagedFinite ==
    ASSUME TypeOK, NEW k
    PROVE  /\ IsFiniteSet(Staged(k))
           /\ Cardinality(Staged(k)) \in Nat
           /\ Cardinality(Staged(k)) = 0 <=> Staged(k) = {}
<1>1. IsFiniteSet(Codes \union {NoCode}) /\ IsFiniteSet(Copies)
  <2>1. IsFiniteSet(Codes \union {NoCode})
    BY FiniteAssumption, FS_AddElement
  <2>2. IsFiniteSet(1..MaxCopies)
    BY BoundsAssumption, FS_Interval
  <2> QED BY <2>1, <2>2 DEF Copies
<1>2. IsFiniteSet(AppRows) /\ IsFiniteSet(RepoRows)
  BY <1>1, FiniteAssumption, TripleProductFinite DEF AppRows, RepoRows
<1>3. IsFiniteSet(appsRead \X reposRead)
  BY <1>2, FS_Subset, FS_Product DEF TypeOK
<1>4. Staged(k) \subseteq appsRead \X reposRead
  BY DEF Staged, LinkByName
<1>5. IsFiniteSet(Staged(k))
  BY <1>3, <1>4, FS_Subset
<1> QED BY <1>5, FS_CardinalityType, FS_EmptySet

\* A merged link is a link.
LEMMA MergedType ==
    ASSUME TypeOK, run_ts # 0, NEW k \in Keys
    PROVE  Merged(k) \in [rows : Nat, linked_at : Nat]
<1>1. Cardinality(Staged(k)) \in Nat
  BY StagedFinite
<1>2. run_ts \in Nat /\ links[k] \in [rows : Nat, linked_at : Nat]
  BY BoundsAssumption DEF TypeOK
<1> QED BY <1>1, <1>2 DEF Merged

----------------------------------------------------------------------------
(* Type correctness. *)

\* TypeOK is inductive.
LEMMA TypeInductive == TypeOK /\ [Next]_vars => TypeOK'
<1> SUFFICES ASSUME TypeOK, [Next]_vars PROVE TypeOK'
  OBVIOUS
<1> USE BoundsAssumption
<1>1. CASE Tick
  BY <1>1 DEF Tick, TypeOK, inputs, seen, reads
<1>2. CASE Upstream
  <2>1. ASSUME NEW rows \in SUBSET AppRows, AppsBecome(rows) PROVE TypeOK'
    BY <2>1 DEF AppsBecome, TypeOK, reads
  <2>2. ASSUME NEW rows \in SUBSET RepoRows, ReposBecome(rows) PROVE TypeOK'
    BY <2>2 DEF ReposBecome, TypeOK, reads
  <2>3. CASE \E a \in Apps, code \in Codes \union {NoCode} : CmdbUpsert(a, code)
    BY <2>1, <2>3 DEF CmdbUpsert, TypeOK, AppRows, Copies
  <2>4. CASE \E r \in Repos, name \in Names : ScmUpsert(r, name)
    BY <2>2, <2>4 DEF ScmUpsert, TypeOK, RepoRows, Copies
  <2>5. CASE \E row \in apps, i \in Copies : CmdbReplay(row, i)
    <3>1. PICK row \in apps, i \in Copies : CmdbReplay(row, i)
      BY <2>5
    <3>2. apps \union {<<row[1], row[2], i>>} \in SUBSET AppRows
      BY <3>1 DEF TypeOK, AppRows
    <3> QED BY <2>1, <3>1, <3>2 DEF CmdbReplay
  <2>6. CASE \E row \in repos, i \in Copies : ScmReplay(row, i)
    <3>1. PICK row \in repos, i \in Copies : ScmReplay(row, i)
      BY <2>6
    <3>2. repos \union {<<row[1], row[2], i>>} \in SUBSET RepoRows
      BY <3>1 DEF TypeOK, RepoRows
    <3> QED BY <2>2, <3>1, <3>2 DEF ScmReplay
  <2> QED BY <1>2, <2>3, <2>4, <2>5, <2>6 DEF Upstream
<1>3. CASE Trigger
  BY <1>3 DEF Trigger, StartAttempt, TypeOK, Task, reads
<1>4. CASE ReadApps
  BY <1>4 DEF ReadApps, TypeOK, inputs, seen
<1>5. CASE ReadRepos
  BY <1>5 DEF ReadRepos, TypeOK, inputs, seen
<1>6. CASE Stamp
  BY <1>6 DEF Stamp, TypeOK, inputs, seen, reads
<1>7. CASE Merge
  <2>1. links' \in [Keys -> [rows : Nat, linked_at : Nat]]
    BY <1>7, MergedType DEF Merge, ReadyToMerge
  <2> QED BY <1>7, <2>1 DEF Merge, Forget, TypeOK, Task, inputs
<1>8. CASE MergeRefused \/ AttemptLost
  BY <1>8 DEF MergeRefused, AttemptLost, LoseAttempt, Forget, TypeOK, Task, inputs
<1>9. CASE Report
  BY <1>9 DEF Report, TypeOK, Task, Ended, inputs, seen, reads
<1>10. CASE Retry
  BY <1>10 DEF Retry, StartAttempt, TypeOK, Task, reads
<1>11. CASE GiveUp
  BY <1>11 DEF GiveUp, TypeOK, Task, Ended, inputs, seen, reads
<1>12. CASE UNCHANGED vars
  BY <1>12 DEF vars, TypeOK, inputs, seen, reads
<1> QED
  BY <1>1, <1>2, <1>3, <1>4, <1>5, <1>6, <1>7, <1>8, <1>9, <1>10, <1>11, <1>12
     DEF Next, Job

\* Every behaviour of the job keeps every variable in its type.
THEOREM TypeCorrect == Spec => []TypeOK
<1>1. Init => TypeOK
  BY BoundsAssumption DEF Init, TypeOK, Task, Ended, Absent
<1> QED BY <1>1, TypeInductive, PTL DEF Spec

----------------------------------------------------------------------------
(* No composite key has two rows. *)

OneRowEach(rows) == \A x, y \in rows : x[1] = y[1] => x = y

\* The strengthening: under natural-key upserts the inputs, and what an attempt
\* has read of them, have one row for each entity.
UniqueInv == MaxCopies = 1 => /\ OneRowEach(apps) /\ OneRowEach(repos)
                              /\ OneRowEach(appsRead) /\ OneRowEach(reposRead)
                              /\ \A k \in Keys : links[k].rows <= 1

\* Inputs with one row for each entity stage at most one row for a key.
LEMMA StagedOnce ==
    ASSUME TypeOK, OneRowEach(appsRead), OneRowEach(reposRead), NEW k
    PROVE  Cardinality(Staged(k)) <= 1
<1>1. ASSUME NEW p \in Staged(k), NEW q \in Staged(k) PROVE p = q
  <2>1. p \in appsRead \X reposRead /\ q \in appsRead \X reposRead
    BY DEF Staged, LinkByName
  <2>2. p[1][1] = q[1][1] /\ p[2][1] = q[2][1]
    BY DEF Staged
  <2> QED BY <2>1, <2>2 DEF OneRowEach
<1>2. CASE Staged(k) = {}
  BY <1>2, FS_EmptySet
<1>3. CASE Staged(k) # {}
  <2>1. PICK p : p \in Staged(k)
    BY <1>3
  <2>2. Staged(k) = {p}
    BY <1>1, <2>1
  <2>3. Cardinality({p}) = 1
    BY FS_Singleton
  <2> QED BY <2>2, <2>3
<1> QED BY <1>2, <1>3

\* UniqueInv is inductive relative to TypeOK.
LEMMA UniqueInductive == TypeOK /\ UniqueInv /\ [Next]_vars => UniqueInv'
<1> SUFFICES ASSUME TypeOK, UniqueInv, [Next]_vars, MaxCopies = 1
             PROVE  UniqueInv'
  BY DEF UniqueInv
<1> USE DEF UniqueInv
<1>1. CASE Upstream
  <2>1. CASE \E a \in Apps, code \in Codes \union {NoCode} : CmdbUpsert(a, code)
    BY <2>1 DEF CmdbUpsert, AppsBecome, OneRowEach, reads
  <2>2. CASE \E r \in Repos, name \in Names : ScmUpsert(r, name)
    BY <2>2 DEF ScmUpsert, ReposBecome, OneRowEach, reads
  <2>3. \A i \in Copies : ~(i > 1)
    BY DEF Copies
  <2> QED BY <1>1, <2>1, <2>2, <2>3 DEF Upstream, CmdbReplay, ScmReplay
<1>2. CASE ReadApps
  BY <1>2 DEF ReadApps, inputs
<1>3. CASE ReadRepos
  BY <1>3 DEF ReadRepos, inputs
<1>4. CASE Merge
  <2>1. ASSUME NEW k \in Keys PROVE links'[k].rows <= 1
    <3>1. Cardinality(Staged(k)) <= 1
      BY StagedOnce
    <3>2. links[k] \in [rows : Nat, linked_at : Nat] /\ links'[k] = Merged(k)
      BY <1>4 DEF Merge, TypeOK
    <3> QED BY <3>1, <3>2 DEF Merged
  <2> QED BY <1>4, <2>1 DEF Merge, Forget, OneRowEach, inputs
<1>5. CASE Tick \/ Stamp \/ Report \/ GiveUp \/ UNCHANGED vars
  BY <1>5 DEF Tick, Stamp, Report, GiveUp, vars, inputs, seen, reads
<1>6. CASE Trigger \/ Retry
  BY <1>6 DEF Trigger, Retry, StartAttempt, reads
<1>7. CASE MergeRefused \/ AttemptLost
  BY <1>7 DEF MergeRefused, AttemptLost, LoseAttempt, Forget, OneRowEach, inputs
<1> QED
  BY <1>1, <1>2, <1>3, <1>4, <1>5, <1>6, <1>7 DEF Next, Job

\* With natural-key upserts upstream, the mapping never has two rows for one
\* composite key, whatever is retried after its commit.
THEOREM KeysStayUnique == Spec => []KeyUnique
<1>1. Init => UniqueInv
  BY DEF Init, UniqueInv, OneRowEach, Absent
<1>2. UniqueInv => KeyUnique
  BY DEF UniqueInv, KeyUnique
<1> QED BY <1>1, <1>2, UniqueInductive, TypeCorrect, PTL DEF Spec

----------------------------------------------------------------------------
(* A quiet successful run has linked every match. *)

\* The strengthening: what a quiet attempt has read is what its inputs still
\* hold, and once its MERGE is in, every match of them is linked.
QuietInv ==
    quiet =>
      /\ task = "running" => /\ "apps" \in got => appsRead = apps
                             /\ "repos" \in got => reposRead = repos
      /\ task \in {"merged", "succeeded"} =>
            \A p \in LinkByName(apps, repos) : Linked(p)

\* Only a running attempt has read anything.
IdleInv == task # "running" => got = {} /\ appsRead = {} /\ reposRead = {}

\* IdleInv is inductive.
LEMMA IdleInductive == IdleInv /\ [Next]_vars => IdleInv'
<1> SUFFICES ASSUME IdleInv, [Next]_vars PROVE IdleInv'
  OBVIOUS
<1> USE DEF IdleInv
<1>1. CASE Upstream
  BY <1>1 DEF Upstream, CmdbUpsert, ScmUpsert, CmdbReplay, ScmReplay,
              AppsBecome, ReposBecome, reads
<1>2. CASE Tick \/ Trigger \/ Stamp \/ Report \/ Retry \/ GiveUp \/ UNCHANGED vars
  BY <1>2 DEF Tick, Trigger, Stamp, Report, Retry, GiveUp, vars, StartAttempt, reads
<1>3. CASE ReadApps \/ ReadRepos
  BY <1>3 DEF ReadApps, ReadRepos
<1>4. CASE Merge \/ MergeRefused \/ AttemptLost
  BY <1>4 DEF Merge, MergeRefused, AttemptLost, LoseAttempt, Forget
<1> QED BY <1>1, <1>2, <1>3, <1>4 DEF Next, Job

\* A merge links every match of what the attempt has read.
LEMMA MergeLinks ==
    ASSUME TypeOK, Merge, NEW p \in LinkByName(appsRead, reposRead)
    PROVE  Linked(p)'
<1> DEFINE k == <<p[1][1], p[2][1]>>
<1>1. p[1] \in AppRows /\ p[2] \in RepoRows
  BY DEF LinkByName, TypeOK
<1>2. k \in Keys
  BY <1>1 DEF AppRows, RepoRows, Keys
<1>3. p \in Staged(k)
  BY DEF Staged
<1>4. Cardinality(Staged(k)) \in Nat /\ Cardinality(Staged(k)) > 0
  BY <1>3, StagedFinite
<1>5. links[k] \in [rows : Nat, linked_at : Nat] /\ links'[k] = Merged(k)
  BY <1>2 DEF Merge, TypeOK
<1>6. links'[k].rows > 0 /\ links'[k].linked_at = run_ts
  BY <1>3, <1>4, <1>5 DEF Merged
<1> QED BY <1>6 DEF Linked, Merge

\* QuietInv is inductive relative to TypeOK and IdleInv.
LEMMA QuietInductive ==
    TypeOK /\ IdleInv /\ QuietInv /\ [Next]_vars => QuietInv'
<1> SUFFICES ASSUME TypeOK, IdleInv, QuietInv, [Next]_vars, quiet'
             PROVE  QuietInv'
  BY DEF QuietInv
<1> USE DEF QuietInv
<1>1. CASE Upstream
  BY <1>1 DEF Upstream, CmdbUpsert, ScmUpsert, CmdbReplay, ScmReplay,
              AppsBecome, ReposBecome
<1>2. CASE Trigger \/ Retry
  <2>1. task # "running"
    BY <1>2 DEF Trigger, Retry, Ended
  <2> QED BY <1>2, <2>1 DEF Trigger, Retry, StartAttempt, IdleInv, reads
<1>3. CASE Merge
  <2>1. quiet /\ appsRead = apps /\ reposRead = repos
    BY <1>3 DEF Merge, ReadyToMerge
  <2>2. \A p \in LinkByName(apps, repos) : Linked(p)'
    BY <1>3, <2>1, MergeLinks
  <2>3. LinkByName(apps, repos)' = LinkByName(apps, repos)
    BY <1>3 DEF Merge, inputs, LinkByName
  <2> QED BY <1>3, <2>2, <2>3 DEF Merge
<1>4. CASE Tick \/ Stamp \/ Report \/ GiveUp \/ UNCHANGED vars
  <2>1. task' = "running" => task = "running" /\ UNCHANGED <<got, appsRead, reposRead>>
    BY <1>4 DEF Tick, Stamp, Report, GiveUp, vars, reads
  <2>2. task' \in {"merged", "succeeded"} =>
           task \in {"merged", "succeeded"} /\ UNCHANGED <<links, run_ts>>
    BY <1>4 DEF Tick, Stamp, Report, GiveUp, vars
  <2>3. UNCHANGED <<apps, repos, quiet>>
    BY <1>4 DEF Tick, Stamp, Report, GiveUp, vars, inputs
  <2> QED BY <2>1, <2>2, <2>3 DEF LinkByName, Linked
<1>5. CASE ReadApps \/ ReadRepos
  <2>1. quiet /\ task' = "running" /\ task = "running" /\ UNCHANGED <<apps, repos>>
    BY <1>5 DEF ReadApps, ReadRepos, inputs
  <2>2. "apps" \in got' => appsRead' = apps
    BY <1>5, <2>1 DEF ReadApps, ReadRepos
  <2>3. "repos" \in got' => reposRead' = repos
    BY <1>5, <2>1 DEF ReadApps, ReadRepos
  <2> QED BY <2>1, <2>2, <2>3
<1>6. CASE MergeRefused \/ AttemptLost
  BY <1>6 DEF MergeRefused, AttemptLost, LoseAttempt
<1> QED BY <1>1, <1>2, <1>3, <1>4, <1>5, <1>6 DEF Next, Job

\* A run that succeeds while its inputs stand still has linked every pair that
\* matches, under its own timestamp.
THEOREM QuietRunIsComplete == Spec => []CompleteAfterQuietRun
<1>1. Init => IdleInv /\ QuietInv
  BY DEF Init, IdleInv, QuietInv
<1>2. QuietInv => CompleteAfterQuietRun
  BY DEF QuietInv, CompleteAfterQuietRun
<1> QED
  BY <1>1, <1>2, IdleInductive, QuietInductive, TypeCorrect, PTL DEF Spec

----------------------------------------------------------------------------
(* Fresh evidence. *)

\* The strengthening: what an attempt has read, and what its inputs hold now,
\* is part of what they have held while it ran.
SeenInv == task = "running" => /\ apps \subseteq appsSeen
                               /\ repos \subseteq reposSeen
                               /\ appsRead \subseteq appsSeen
                               /\ reposRead \subseteq reposSeen

\* SeenInv is inductive relative to IdleInv.
LEMMA SeenInductive == IdleInv /\ SeenInv /\ [Next]_vars => SeenInv'
<1> SUFFICES ASSUME IdleInv, SeenInv, [Next]_vars, task' = "running"
             PROVE  SeenInv'
  BY DEF SeenInv
<1> USE DEF SeenInv
<1>1. CASE Upstream
  <2>1. ASSUME NEW rows, AppsBecome(rows) PROVE SeenInv'
    BY <2>1 DEF AppsBecome, reads
  <2>2. ASSUME NEW rows, ReposBecome(rows) PROVE SeenInv'
    BY <2>2 DEF ReposBecome, reads
  <2> QED BY <1>1, <2>1, <2>2
             DEF Upstream, CmdbUpsert, ScmUpsert, CmdbReplay, ScmReplay
<1>2. CASE Trigger \/ Retry
  <2>1. appsRead = {} /\ reposRead = {}
    BY <1>2 DEF Trigger, Retry, Ended, IdleInv
  <2> QED BY <1>2, <2>1 DEF Trigger, Retry, StartAttempt, reads
<1>3. CASE ReadApps \/ ReadRepos
  BY <1>3 DEF ReadApps, ReadRepos, inputs, seen
<1>4. CASE Tick \/ Stamp \/ Report \/ GiveUp \/ UNCHANGED vars
  BY <1>4 DEF Tick, Stamp, Report, GiveUp, vars, inputs, seen, reads
<1>5. CASE Merge \/ MergeRefused \/ AttemptLost
  BY <1>5 DEF Merge, MergeRefused, AttemptLost, LoseAttempt
<1> QED BY <1>1, <1>2, <1>3, <1>4, <1>5 DEF Next, Job

\* A step that changes a link is a MERGE, and the pair that made it do so was
\* read from the inputs.
LEMMA ChangedLinkIsStaged ==
    ASSUME TypeOK, [Next]_vars, NEW k \in Keys, links'[k] # links[k]
    PROVE  Merge /\ Staged(k) # {}
<1>1. Merge
  BY DEF Next, Job, Upstream, CmdbUpsert, ScmUpsert, CmdbReplay, ScmReplay,
         AppsBecome, ReposBecome, Tick, Trigger, Retry, StartAttempt, ReadApps,
         ReadRepos, Stamp, MergeRefused, AttemptLost, LoseAttempt, Report,
         GiveUp, vars
<1>2. links'[k] = Merged(k)
  BY <1>1 DEF Merge
<1> QED BY <1>1, <1>2 DEF Merged

\* The job writes a link only on rows its inputs held during the attempt that
\* writes it.
THEOREM LinksRestOnFreshEvidence == Spec => FreshEvidence
<1>1. Init => IdleInv /\ SeenInv
  BY DEF Init, IdleInv, SeenInv
<1>2. TypeOK /\ SeenInv /\ [Next]_vars
        => [\A k \in Keys : links'[k] # links[k] => Supported(k)]_vars
  <2> SUFFICES ASSUME TypeOK, SeenInv, [Next]_vars,
                      NEW k \in Keys, links'[k] # links[k]
               PROVE  Supported(k)
    OBVIOUS
  <2>1. Merge /\ Staged(k) # {}
    BY ChangedLinkIsStaged
  <2>2. PICK p \in appsRead \X reposRead :
           Matches(p[1], p[2]) /\ p[1][1] = k[1] /\ p[2][1] = k[2]
    BY <2>1 DEF Staged, LinkByName
  <2>3. p[1] \in appsSeen /\ p[2] \in reposSeen
    BY <2>1, <2>2 DEF Merge, ReadyToMerge, SeenInv
  <2> QED BY <2>2, <2>3 DEF Supported
<1> QED
  BY <1>1, <1>2, IdleInductive, SeenInductive, TypeCorrect, PTL
     DEF Spec, FreshEvidence

----------------------------------------------------------------------------
(* Idempotence in the rows. *)

\* Re-runs and retries never add a row to a key the mapping has, or drop one.
THEOREM RowsStayFixed == Spec => RowsAreFixed
<1>1. TypeOK /\ [Next]_vars
        => [\A k \in Keys : links[k].rows > 0 => links'[k].rows = links[k].rows]_vars
  <2> SUFFICES ASSUME TypeOK, [Next]_vars, NEW k \in Keys, links[k].rows > 0
               PROVE  links'[k].rows = links[k].rows
    OBVIOUS
  <2>1. CASE links'[k] = links[k]
    BY <2>1
  <2>2. CASE links'[k] # links[k]
    <3>1. links'[k] = Merged(k) /\ Staged(k) # {}
      BY <2>2, ChangedLinkIsStaged DEF Merge
    <3>2. links[k] \in [rows : Nat, linked_at : Nat]
      BY DEF TypeOK
    <3> QED BY <3>1, <3>2 DEF Merged
  <2> QED BY <2>1, <2>2
<1> QED BY <1>1, TypeCorrect, PTL DEF Spec, RowsAreFixed

----------------------------------------------------------------------------
(* The job implements the registry. *)

\* The strengthening: no link is stamped after now, and the timestamp a running
\* attempt has taken is not before that of any link.
StampInv ==
    /\ run_ts <= clock
    /\ \A k \in Keys : links[k].linked_at <= clock
    /\ task = "running" /\ run_ts # 0 =>
          \A k \in Keys : links[k].linked_at <= run_ts

\* StampInv is inductive relative to TypeOK.
LEMMA StampInductive == TypeOK /\ StampInv /\ [Next]_vars => StampInv'
<1> SUFFICES ASSUME TypeOK, StampInv, [Next]_vars PROVE StampInv'
  OBVIOUS
<1> USE DEF StampInv
<1>0. /\ clock \in Nat /\ run_ts \in Nat
      /\ \A k \in Keys : links[k].linked_at \in Nat
  BY BoundsAssumption DEF TypeOK
<1>1. CASE Tick
  BY <1>0, <1>1 DEF Tick
<1>2. CASE Upstream
  BY <1>0, <1>2 DEF Upstream, CmdbUpsert, ScmUpsert, CmdbReplay, ScmReplay,
                    AppsBecome, ReposBecome
<1>3. CASE Trigger \/ Retry
  BY <1>0, <1>3 DEF Trigger, Retry, StartAttempt
<1>4. CASE ReadApps \/ ReadRepos \/ Stamp \/ Report \/ GiveUp \/ UNCHANGED vars
  BY <1>0, <1>4 DEF ReadApps, ReadRepos, Stamp, Report, GiveUp, vars
<1>5. CASE MergeRefused \/ AttemptLost
  BY <1>0, <1>5 DEF MergeRefused, AttemptLost, LoseAttempt
<1>6. CASE Merge
  <2>1. ASSUME NEW k \in Keys PROVE links'[k].linked_at <= clock
    <3>1. links[k] \in [rows : Nat, linked_at : Nat] /\ links'[k] = Merged(k)
      BY <1>6 DEF Merge, TypeOK
    <3> QED BY <1>0, <3>1 DEF Merged
  <2> QED BY <1>0, <1>6, <2>1 DEF Merge
<1> QED BY <1>1, <1>2, <1>3, <1>4, <1>5, <1>6 DEF Next, Job

\* Every step of the job is a step of the registry or leaves it as it is.
LEMMA StepImplementsRegistry ==
    TypeOK /\ StampInv /\ [Next]_vars => [Registry!Next]_(Registry!vars)
<1> SUFFICES ASSUME TypeOK, StampInv, [Next]_vars
             PROVE  Registry!Next \/ UNCHANGED Registry!vars
  OBVIOUS
<1> USE DEF Registry!vars
<1>1. CASE Tick
  BY <1>1 DEF Tick, Registry!Next, Registry!Tick
<1>2. CASE Merge
  <2> DEFINE linked == {k \in Keys : Staged(k) # {}}
  <2>1. run_ts \in 1..clock
    BY <1>2, BoundsAssumption DEF Merge, ReadyToMerge, TypeOK, StampInv
  <2>2. \A k \in Keys : links[k].linked_at <= run_ts
    BY <1>2 DEF Merge, ReadyToMerge, StampInv
  <2>3. ASSUME NEW k \in Keys
        PROVE  links'[k].linked_at
                 = IF k \in linked THEN run_ts ELSE links[k].linked_at
    <3>1. links[k] \in [rows : Nat, linked_at : Nat] /\ links'[k] = Merged(k)
      BY <1>2 DEF Merge, TypeOK
    <3> QED BY <3>1 DEF Merged
  <2>4. clock' = clock /\ run_ts <= clock
    BY <1>2 DEF Merge, StampInv
  <2>5. [k \in Keys |-> links[k].linked_at]'
          = [k \in Keys |-> IF k \in linked THEN run_ts ELSE links[k].linked_at]
    BY <2>3
  <2>6. linked \in SUBSET Keys
    OBVIOUS
  <2> HIDE DEF linked
  <2>7. \E b \in SUBSET Keys, t \in 1..clock : Registry!Publish(b, t)
    BY <2>1, <2>2, <2>4, <2>5, <2>6 DEF Registry!Publish
  <2> QED BY <2>7 DEF Registry!Next
<1>3. CASE UNCHANGED <<links, clock>>
  BY <1>3
<1> QED
  BY <1>1, <1>2, <1>3
     DEF Next, Job, Upstream, CmdbUpsert, ScmUpsert, CmdbReplay, ScmReplay,
         AppsBecome, ReposBecome, Trigger, Retry, StartAttempt, ReadApps,
         ReadRepos, Stamp, MergeRefused, AttemptLost, LoseAttempt, Report,
         GiveUp, vars

\* silver.app_repo_mapping as the linker job writes it is a LinkRegistry.
THEOREM JobImplementsRegistry == Spec => RefinesRegistry
<1>1. Init => StampInv /\ Registry!Init
  BY DEF Init, StampInv, Absent, Registry!Init
<1> QED
  BY <1>1, StampInductive, StepImplementsRegistry, TypeCorrect, PTL
     DEF Spec, RefinesRegistry, Registry!Spec
=============================================================================
