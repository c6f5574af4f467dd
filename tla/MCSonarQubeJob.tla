---------------------------- MODULE MCSonarQubeJob ----------------------------
(***************************************************************************)
(* An instance of SonarQubeJob with two native states, one of them with a   *)
(* severity that severity.yml does not list, and an issue that is a code    *)
(* smell.                                                                   *)
(***************************************************************************)
EXTENDS SonarQubeJob

Native(s, r, v) == [status |-> s, resolution |-> r, severity |-> v]

MCNatives == {Native("OPEN", NoResolution, "CRITICAL"), Native("RESOLVED", "FIXED", "UNLISTED")}

\* The lines of status.yml that the states above can compose.
MCStatusYml == [key \in {<<"OPEN">>, <<"RESOLVED", "FIXED">>} |->
                   IF key = <<"OPEN">> THEN "open" ELSE "resolved"]
MCSeverityYml == [BLOCKER |-> "critical", CRITICAL |-> "high", MAJOR |-> "medium",
                  MINOR |-> "low", INFO |-> "low"]
=============================================================================
