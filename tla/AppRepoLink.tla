----------------------------- MODULE AppRepoLink -----------------------------
(***************************************************************************)
(* The app-repo-link job: src/platform/app_repo_link.py (the join),         *)
(* src/platform/app_repo_link_entry.py (the notebook that reads, joins and  *)
(* MERGEs) and src/platform/resources/app_repo_link_job.yml (one task,      *)
(* on demand, max_retries 3).                                               *)
(*                                                                         *)
(* The two inputs, silver.applications and silver.repositories, are written *)
(* by the ServiceNow and SCM jobs while the linker runs.  Each of the two   *)
(* is read at an instant of its own between the launch of an attempt and    *)
(* its MERGE (a Spark DataFrame is lazy), and run_ts is taken at a third.   *)
(* The MERGE itself is one atomic Delta commit.  An attempt can be lost at  *)
(* any point, also after the commit and before the task reports success,    *)
(* and the task is then run again from the top.                             *)
(***************************************************************************)
EXTENDS Naturals, Sequences, FiniteSets

CONSTANTS
    Apps,        \* application_id values
    Repos,       \* repository_id values
    Codes,       \* five-digit application codes
    NoCode,      \* the null app_code
    Names,       \* repository names, each the sequence of codes standing in it
    MaxCopies,   \* rows an entity may have in its table: 1 under a natural-key
                 \* upsert, more when a row is replayed by an appending writer
    MaxRetries,  \* max_retries of the task
    MaxClock     \* bound on the clock

ASSUME NamesAssumption == Names \subseteq Seq(Codes) /\ NoCode \notin Codes
ASSUME BoundsAssumption == /\ MaxCopies \in Nat \ {0}
                           /\ MaxRetries \in Nat
                           /\ MaxClock \in Nat \ {0}
ASSUME FiniteAssumption == /\ IsFiniteSet(Apps) /\ IsFiniteSet(Repos)
                           /\ IsFiniteSet(Codes) /\ IsFiniteSet(Names)

VARIABLES
    apps,        \* silver.applications: rows <<application_id, app_code, copy>>
    repos,       \* silver.repositories: rows <<repository_id, full_name, copy>>
    links,       \* silver.app_repo_mapping, the 'name_match' rows by key
    clock,       \* wall-clock time
    task,        \* the state of the job's task
    retries,     \* retries used by the current run
    run_ts,      \* run_ts of the current attempt, 0 before it is taken
    got,         \* the inputs the current attempt has read
    appsRead,    \* the rows of silver.applications it read
    reposRead,   \* the rows of silver.repositories it read
    appsSeen,    \* history: rows that silver.applications held at some instant
                 \* of the attempt that is running
    reposSeen,   \* history: the same for silver.repositories
    quiet        \* history: no input changed since the last attempt launched

inputs == <<apps, repos>>
seen   == <<appsSeen, reposSeen>>
reads  == <<got, appsRead, reposRead>>
vars   == <<inputs, seen, quiet, links, clock, task, retries, run_ts, reads>>

Copies   == 1..MaxCopies
AppRows  == Apps \X (Codes \union {NoCode}) \X Copies
RepoRows == Repos \X Names \X Copies
Keys     == Apps \X Repos
Absent   == [rows |-> 0, linked_at |-> 0]

Ended == {"never", "succeeded", "failed"}
Task  == Ended \union {"running", "merged", "lost"}

----------------------------------------------------------------------------
(* The join. *)

\* The first code in the name, or NoCode: first match wins.
ExtractCode(name) == IF name = <<>> THEN NoCode ELSE name[1]

\* Pairs of rows that agree on a code; rows without one join nothing.
Matches(appRow, repoRow) == /\ appRow[2] # NoCode
                            /\ ExtractCode(repoRow[2]) = appRow[2]

LinkByName(appRows, repoRows) ==
    {p \in appRows \X repoRows : Matches(p[1], p[2])}

\* Mutant of Staged: the repository id is missing from the ON clause.
StagedByApp(k) == {p \in LinkByName(appsRead, reposRead) : p[1][1] = k[1]}

\* The staged rows that carry key k: the source side of the MERGE.
Staged(k) == {p \in LinkByName(appsRead, reposRead) :
                 p[1][1] = k[1] /\ p[2][1] = k[2]}

\* The MERGE would update one target row from several source rows.
Ambiguous == \E k \in Keys : links[k].rows > 0 /\ Cardinality(Staged(k)) > 1

\* Mutants of Merged: an append, and an overwrite of what no longer matches.
MergedAppend(k) ==
    IF Staged(k) = {} THEN links[k]
    ELSE [rows |-> links[k].rows + Cardinality(Staged(k)), linked_at |-> run_ts]
MergedRewrite(k) ==
    IF Staged(k) = {} THEN Absent
    ELSE [rows |-> Cardinality(Staged(k)), linked_at |-> run_ts]

Merged(k) ==
    IF Staged(k) = {} THEN links[k]
    ELSE [rows |-> IF links[k].rows = 0 THEN Cardinality(Staged(k))
                                        ELSE links[k].rows,
          linked_at |-> run_ts]

----------------------------------------------------------------------------
Init ==
    /\ apps = {} /\ repos = {}
    /\ appsSeen = {} /\ reposSeen = {} /\ quiet = TRUE
    /\ links = [k \in Keys |-> Absent]
    /\ clock = 1
    /\ task = "never" /\ retries = 0
    /\ run_ts = 0 /\ got = {} /\ appsRead = {} /\ reposRead = {}

Tick ==
    /\ clock < MaxClock
    /\ clock' = clock + 1
    /\ UNCHANGED <<inputs, seen, quiet, links, task, retries, run_ts, reads>>

(* The CMDB and SCM jobs: an upsert by natural key, or a replayed append. *)

AppsBecome(rows) ==
    /\ apps' = rows
    /\ appsSeen' = IF task = "running" THEN appsSeen \union rows ELSE {}
    /\ quiet' = FALSE
    /\ UNCHANGED <<repos, reposSeen, links, clock, task, retries, run_ts, reads>>

ReposBecome(rows) ==
    /\ repos' = rows
    /\ reposSeen' = IF task = "running" THEN reposSeen \union rows ELSE {}
    /\ quiet' = FALSE
    /\ UNCHANGED <<apps, appsSeen, links, clock, task, retries, run_ts, reads>>

CmdbUpsert(a, code) ==
    AppsBecome({row \in apps : row[1] # a} \union {<<a, code, 1>>})

ScmUpsert(r, name) ==
    ReposBecome({row \in repos : row[1] # r} \union {<<r, name, 1>>})

CmdbReplay(row, i) == i > 1 /\ AppsBecome(apps \union {<<row[1], row[2], i>>})

ScmReplay(row, i) == i > 1 /\ ReposBecome(repos \union {<<row[1], row[2], i>>})

(* The linker task. *)

\* Mutant of Forget: rows an attempt has read are cached for the next one.
ForgetNothing == UNCHANGED reads /\ appsSeen' = {} /\ reposSeen' = {}

\* What an attempt has read dies with it.
Forget == /\ got' = {} /\ appsRead' = {} /\ reposRead' = {}
          /\ appsSeen' = {} /\ reposSeen' = {}

\* A fresh attempt of the notebook: nothing read, nothing stamped.
StartAttempt ==
    /\ task' = "running"
    /\ run_ts' = 0 /\ UNCHANGED reads
    /\ appsSeen' = apps /\ reposSeen' = repos /\ quiet' = TRUE
    /\ UNCHANGED <<apps, repos, links, clock>>

Trigger == task \in Ended /\ retries' = 0 /\ StartAttempt

ReadApps ==
    /\ task = "running" /\ "apps" \notin got
    /\ appsRead' = apps
    /\ got' = got \union {"apps"}
    /\ UNCHANGED <<inputs, seen, quiet, links, clock, task, retries, run_ts, reposRead>>

ReadRepos ==
    /\ task = "running" /\ "repos" \notin got
    /\ reposRead' = repos
    /\ got' = got \union {"repos"}
    /\ UNCHANGED <<inputs, seen, quiet, links, clock, task, retries, run_ts, appsRead>>

Stamp ==
    /\ task = "running" /\ run_ts = 0
    /\ run_ts' = clock
    /\ UNCHANGED <<inputs, seen, quiet, links, clock, task, retries, reads>>

\* Mutant of ReadyToMerge: the MERGE does not wait for both inputs.
ReadyEarly == task = "running" /\ got # {} /\ run_ts # 0

ReadyToMerge == task = "running" /\ got = {"apps", "repos"} /\ run_ts # 0

Merge ==
    /\ ReadyToMerge
    /\ ~Ambiguous
    /\ links' = [k \in Keys |-> Merged(k)]
    /\ task' = "merged"
    /\ Forget
    /\ UNCHANGED <<inputs, quiet, clock, retries, run_ts>>

LoseAttempt ==
    /\ task' = "lost"
    /\ Forget
    /\ UNCHANGED <<inputs, quiet, links, clock, retries, run_ts>>

\* Delta refuses a MERGE whose source matches a target row more than once.
MergeRefused == ReadyToMerge /\ Ambiguous /\ LoseAttempt

\* Cluster loss, a timeout or an error, before the commit or after it.
AttemptLost == task \in {"running", "merged"} /\ LoseAttempt

Report ==
    /\ task = "merged"
    /\ task' = "succeeded"
    /\ UNCHANGED <<inputs, seen, quiet, links, clock, retries, run_ts, reads>>

\* Mutant of Retry: retries that are not counted.
RetryUncounted ==
    /\ task = "lost" /\ retries < MaxRetries
    /\ retries' = retries
    /\ StartAttempt

Retry ==
    /\ task = "lost" /\ retries < MaxRetries
    /\ retries' = retries + 1
    /\ StartAttempt

\* Mutant of GiveUp: the task swallows its last error.
GiveUpQuietly ==
    /\ task = "lost" /\ retries = MaxRetries
    /\ task' = "succeeded"
    /\ UNCHANGED <<inputs, seen, quiet, links, clock, retries, run_ts, reads>>

GiveUp ==
    /\ task = "lost" /\ retries = MaxRetries
    /\ task' = "failed"
    /\ UNCHANGED <<inputs, seen, quiet, links, clock, retries, run_ts, reads>>

Upstream ==
    \/ \E a \in Apps, code \in Codes \union {NoCode} : CmdbUpsert(a, code)
    \/ \E r \in Repos, name \in Names : ScmUpsert(r, name)
    \/ \E row \in apps, i \in Copies : CmdbReplay(row, i)
    \/ \E row \in repos, i \in Copies : ScmReplay(row, i)

Job == \/ ReadApps \/ ReadRepos \/ Stamp \/ Merge \/ MergeRefused
       \/ Report \/ Retry \/ GiveUp

Next == Tick \/ Upstream \/ Trigger \/ Job \/ AttemptLost

Spec == Init /\ [][Next]_vars

\* The platform keeps running a task it has started; nothing makes the
\* operator trigger one, the inputs change or an attempt fail.
FairSpec == Spec /\ WF_vars(Job)

----------------------------------------------------------------------------
(* Properties. *)

\* Every variable has its type.
TypeOK ==
    /\ apps \subseteq AppRows /\ appsRead \subseteq AppRows
    /\ repos \subseteq RepoRows /\ reposRead \subseteq RepoRows
    /\ appsSeen \subseteq AppRows /\ reposSeen \subseteq RepoRows
    /\ quiet \in BOOLEAN
    /\ links \in [Keys -> [rows : Nat, linked_at : Nat]]
    /\ clock \in 1..MaxClock
    /\ task \in Task
    /\ retries \in 0..MaxRetries
    /\ run_ts \in 0..MaxClock
    /\ got \subseteq {"apps", "repos"}

\* While the writers of the inputs upsert by natural key, no composite key
\* has two rows in silver.app_repo_mapping, however often the job is lost
\* after its commit and run again (app_repo_link_entry.py, the ON clause).
KeyUnique == MaxCopies = 1 => \A k \in Keys : links[k].rows <= 1

\* A run that reports success and whose inputs did not change since its last
\* attempt started has linked every pair that matches, under its own run_ts:
\* no match is lost to a retry, a half-read input or an old snapshot.
Linked(p) == LET l == links[<<p[1][1], p[2][1]>>]
             IN  l.rows > 0 /\ l.linked_at = run_ts
CompleteAfterQuietRun ==
    task = "succeeded" /\ quiet => \A p \in LinkByName(apps, repos) : Linked(p)

\* A run writes a link only on the evidence of rows its inputs held during
\* that very attempt: a row read by an attempt that was lost is never the
\* reason for a link.  (The two rows need not have been there at the same
\* instant: the two inputs are read one after the other.)
Supported(k) ==
    \E ar \in appsSeen, rr \in reposSeen :
        ar[1] = k[1] /\ rr[1] = k[2] /\ Matches(ar, rr)
FreshEvidence ==
    [][\A k \in Keys : links'[k] # links[k] => Supported(k)]_vars

\* Re-runs never add a row for a key the table has, nor remove one: the MERGE
\* is idempotent in the rows, replayed inputs or not.
RowsAreFixed ==
    [][\A k \in Keys : links[k].rows > 0 => links'[k].rows = links[k].rows]_vars

\* A run that was triggered comes to an end, however its attempts are lost.
RunEnds == task \notin Ended ~> task \in Ended

\* The job implements the registry its readers rely on: links are never
\* dropped and linked_at never goes back.
Registry == INSTANCE LinkRegistry WITH
    now   <- clock,
    stamp <- [k \in Keys |-> links[k].linked_at]
RefinesRegistry == Registry!Spec
=============================================================================
