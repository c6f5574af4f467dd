---------------------------- MODULE MCSuppression ----------------------------
(***************************************************************************)
(* An instance of Suppression: an organisation, a repository below it, a    *)
(* base that only a bare star would extend, rows before and after the join  *)
(* with the mapping.                                                        *)
(***************************************************************************)
EXTENDS Suppression

CONSTANTS org, org_repo, org_re   \* "org", "org/repo" and the prefix "org/re"

MCValues    == {org, org_repo}
MCBases     == {org, org_repo, org_re}
MCBelow     == [b \in MCBases |-> IF b = org THEN {org_repo} ELSE {}]
MCScopes    == {"repository_id", "application_id"}
MCCallSites == {{"repository_id"}, MCScopes}
=============================================================================
