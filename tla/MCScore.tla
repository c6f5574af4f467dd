-------------------------------- MODULE MCScore --------------------------------
(***************************************************************************)
(* An instance of Score: one repository that two signals may link, findings *)
(* of two severities and one without repository, and a rule by application  *)
(* or by repository; runs by hand and by the schedule.                      *)
(***************************************************************************)
EXTENDS Score

Finding(id, repo, severity, status) ==
    [id |-> id, repository_id |-> repo,
     severity_canonical |-> severity, status_canonical |-> status]
LinkRow(app, repo, signal) == [application_id |-> app, repository_id |-> repo,
                               link_source |-> signal]

MCFindingRows == {Finding(1, "r1", "critical", "open"), Finding(2, "r1", "high", "resolved"),
                  Finding(3, Null, "high", "open")}
MCLinkRows    == {LinkRow("a1", "r1", "name_match"), LinkRow("a1", "r1", "cmdb_rel_ci")}

MCValues    == {"r1", "a1", UNMAPPED}
MCCallSites == {{"repository_id", "application_id"}}
MCNoneBelow == [b \in MCValues |-> {}]
MCMuting    == {[form |-> "literal", base |-> v] : v \in {"r1", "a1"}}

\* What an operator passes, and what the scheduled job does.
MCParameters == {{"catalog"}, {"target_catalog"}}
=============================================================================
