---------------------------- MODULE MCPreMergeGate ----------------------------
(***************************************************************************)
(* An instance of PreMergeGate: one issue of one project that is reported   *)
(* open right at the default threshold, open below it and fixed, a policy   *)
(* whose threshold is no severity, and a candidate id no connector has      *)
(* ingested.                                                                *)
(***************************************************************************)
EXTENDS PreMergeGate

CONSTANTS r1

Native(s, r, v) == [status |-> s, resolution |-> r, severity |-> v]

MCNatives == {Native("OPEN", NoResolution, "CRITICAL"), Native("OPEN", NoResolution, "UNLISTED"),
              Native("RESOLVED", "FIXED", "CRITICAL")}
MCStatusYml == [key \in {<<"OPEN">>, <<"RESOLVED", "FIXED">>} |->
                   IF key = <<"OPEN">> THEN "open" ELSE "resolved"]
MCSeverityYml == [BLOCKER |-> "critical", CRITICAL |-> "high", MAJOR |-> "medium",
                  MINOR |-> "low", INFO |-> "low"]
MCRepoOf == [i \in Issues |-> r1]
=============================================================================
