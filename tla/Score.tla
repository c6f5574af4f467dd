--------------------------------- MODULE Score ---------------------------------
(***************************************************************************)
(* GET /v1/score (analytics/app/main.py, queries.py): the security score of *)
(* an application, read from the Online Table gold_online.app_risk_posture. *)
(* The table replicates gold.app_risk_posture_daily by application,         *)
(* severity and date (analytics/resources/online_tables.yml), while the     *)
(* posture notebook overwrites gold, so that an answer may be given from a  *)
(* day half of whose rows have arrived, or from rows that are to go.        *)
(*                                                                         *)
(* A request only reads: GetScore is what it would be answered in a state.  *)
(***************************************************************************)
EXTENDS Posture

CONSTANT NotFound   \* the 404 answer

VARIABLE online     \* gold_online.app_risk_posture

scoreVars == <<postureVars, online>>

ScoreInit == PostureInit /\ online = {}

----------------------------------------------------------------------------
(* The Online Table. *)

\* Mutant of PrimaryKey: one row for each application and day.
PrimaryKeyOfDay(row) == <<row.application_id, row.snapshot_date>>

PrimaryKey(row) == <<row.application_id, row.severity_canonical, row.snapshot_date>>

RowsAt(key, table) == {row \in table : PrimaryKey(row) = key}

\* The row of one key is inserted, replaced or deleted, as in gold by now.
Sync(key) ==
    /\ LET source == RowsAt(key, gold)
           held   == RowsAt(key, online)
       IN  /\ held \intersect source = {} /\ held \union source # {}
           /\ \/ source = {} /\ online' = online \ held
              \/ \E row \in source : online' = (online \ held) \union {row}
    /\ UNCHANGED postureVars

Replicate == \E row \in gold \union online : Sync(PrimaryKey(row))

ScoreNext == (PostureNext /\ UNCHANGED online) \/ Replicate

\* The table is declared run_continuously.
ScoreSpec     == ScoreInit /\ [][ScoreNext]_scoreVars
FairScoreSpec == ScoreSpec /\ WF_scoreVars(Replicate)

----------------------------------------------------------------------------
(* The route. *)

Weights == [critical |-> 10, high |-> 3, medium |-> 1, low |-> 0]

\* Mutant of LatestRows: the rows of every day there is.
RowsOfAnyDay(app) == {row \in online : row.application_id = app}

\* The rows of the newest day that the replica has for the application.
LatestRows(app) ==
    {row \in online :
        /\ row.application_id = app
        /\ \A other \in online : other.application_id = app
                                    => other.snapshot_date <= row.snapshot_date}

\* Mutant of Breakdown: what is closed counts as well.
BreakdownOfAll(rows) ==
    [severity \in DOMAIN Weights |->
        LET own == {row \in rows : row.severity_canonical = severity}
        IN  IF own = {} THEN 0
            ELSE (CHOOSE row \in own : TRUE).open_count + (CHOOSE row \in own : TRUE).closed_count]

\* Severities that the breakdown does not name are passed over.
Breakdown(rows) ==
    [severity \in DOMAIN Weights |->
        LET own == {row \in rows : row.severity_canonical = severity}
        IN  IF own = {} THEN 0 ELSE (CHOOSE row \in own : TRUE).open_count]

WeightedSum(breakdown) ==
    breakdown.critical * Weights.critical + breakdown.high * Weights.high
      + breakdown.medium * Weights.medium + breakdown.low * Weights.low

FetchScore(app) ==
    LET rows == LatestRows(app)
    IN  [severity_breakdown |-> Breakdown(rows), score |-> WeightedSum(Breakdown(rows))]

GetScore(app) == IF LatestRows(app) = {} THEN NotFound ELSE FetchScore(app)

----------------------------------------------------------------------------
(* Properties. *)

\* Types.  In the replica, too, a key has one row, and an answer reads one row
\* for each severity: that it is assigned and not added up makes no difference.
ScoreTypeOK ==
    /\ PostureTypeOK
    /\ \A r1, r2 \in online : PrimaryKey(r1) = PrimaryKey(r2) => r1 = r2
    /\ \A row \in online : LET rows == LatestRows(row.application_id)
                           IN  \A r1, r2 \in rows :
                                  r1.severity_canonical = r2.severity_canonical => r1 = r2

\* queries.py:81: whatever part of a day has arrived, and however old the rows
\* are, no answer counts more open findings of a severity than are linked to
\* the application by now, rules aside: a score in transit only errs downwards.
LinkedOpen(app, severity) == OpenCount([Tables EXCEPT !.rules = {}], now, app, severity)
ScoreNeverInflated ==
    \A app \in Applications \ {UNMAPPED} :
        LET answer == GetScore(app)
        IN  answer # NotFound =>
                \A severity \in DOMAIN Weights :
                    answer.severity_breakdown[severity] <= LinkedOpen(app, severity)

\* queries.py:66-67: when no run is under way the answer comes to be the one of
\* gold: no severity of the last run is missing for good, no row of an earlier
\* day keeps an application from its 404.
Settled(app) ==
    IF \A row \in gold : row.application_id # app
    THEN GetScore(app) = NotFound
    ELSE /\ GetScore(app) # NotFound
         /\ \A severity \in DOMAIN Weights :
               GetScore(app).severity_breakdown[severity] = PublishedOpen(app, severity)
ScoresSettle ==
    \A app \in Applications :
        step = "written" ~> (Settled(app) \/ step # "written")
=============================================================================
