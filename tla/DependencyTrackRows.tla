-------------------------- MODULE DependencyTrackRows --------------------------
(***************************************************************************)
(* A finding of Dependency-Track on its way to silver: flatten_finding of   *)
(* connectors/dependency_track/ingest.py makes the bronze payload of it,    *)
(* flatten_to_silver_row of transform.py the row.  An advisory identifier   *)
(* is its kind, "CVE" or another, and its text.  A score is in tenths.      *)
(***************************************************************************)
EXTENDS SilverRows

DTSeverityYml == [critical |-> {"CRITICAL"}, high |-> {"HIGH"}, medium |-> {"MEDIUM"},
                  low |-> {"LOW", "INFO"}]
DTStatusYml == [open |-> {"NOT_SET", "IN_TRIAGE"}, confirmed |-> {"EXPLOITABLE"},
                resolved |-> {"RESOLVED"}, false_positive |-> {"FALSE_POSITIVE"},
                wontfix |-> {"NOT_AFFECTED"}]

IsCve(id) == id # Null /\ id.kind = "CVE"

\* Mutant of ExtractCveId: the aliases are left aside.
ExtractOwnCveId(vulnerability) ==
    IF IsCve(vulnerability.vulnId) THEN vulnerability.vulnId.text ELSE Null

\* The identifier of the advisory if it is a CVE, else its first alias that is.
ExtractCveId(vulnerability) ==
    LET alias == FirstOf(vulnerability.aliases, IsCve)
    IN  CASE IsCve(vulnerability.vulnId) -> vulnerability.vulnId.text
          [] ~IsCve(vulnerability.vulnId) /\ alias # Null -> alias.text
          [] ~IsCve(vulnerability.vulnId) /\ alias = Null -> Null

\* The bronze payload of a finding of a project: what the row is made from.
FlattenFinding(project, finding) ==
    [repository_id |-> project.repository_id, package_name |-> finding.package,
     vuln_id_native |-> IF finding.vulnerability.vulnId = Null THEN Null
                        ELSE finding.vulnerability.vulnId.text,
     cve_id |-> ExtractCveId(finding.vulnerability),
     advisory_source |-> finding.vulnerability.source,
     severity_native |-> finding.vulnerability.severity,
     cvss_v3 |-> finding.vulnerability.cvssV3, cwe_id |-> finding.vulnerability.cweId,
     attributed_on |-> finding.attributedOn, state |-> finding.state,
     suppressed |-> finding.isSuppressed]

SeverityOfScore(score) == CASE score >= 90 -> "critical"
                            [] score \in 70..89 -> "high"
                            [] score \in 40..69 -> "medium"
                            [] score \in 1..39 -> "low"
                            [] OTHER -> "medium"

\* Mutant of DTNormalizeSeverity: a label that is not listed has no severity.
DTSeverityOfLabel(b) == Lookup(DTSeverityYml, b.severity_native, Null)

\* The label if it is listed, else the score, else "medium".
DTNormalizeSeverity(b) ==
    CASE \E c \in DOMAIN DTSeverityYml : b.severity_native \in DTSeverityYml[c] ->
            Lookup(DTSeverityYml, b.severity_native, "medium")
      [] OTHER -> IF b.cvss_v3 = Null THEN "medium" ELSE SeverityOfScore(b.cvss_v3)

\* A suppressed finding is "wontfix" whatever its analysis says.
DTNormalizeStatus(b) ==
    IF b.suppressed THEN "wontfix" ELSE NormalizeStatus(b.state, DTStatusYml)

\* Mutant of DTFindingId: the CVE alone names the advisory.
DTFindingIdByCve(b) ==
    <<"dependency-track", b.repository_id, b.package_name, b.cve_id, b.advisory_source>>

DTFindingId(b) ==
    <<"dependency-track", b.repository_id, b.package_name,
      IF b.cve_id = Null THEN b.vuln_id_native ELSE b.cve_id, Or(b.advisory_source, "UNKNOWN")>>

DTDedupKey(b) == <<b.repository_id, b.package_name, b.cve_id>>

\* One time for both ends of the interval; a CWE is a bare number.
FlattenToSilverRow(b) ==
    FindingRow([finding_id |-> DTFindingId(b), tool_source |-> "dependency_track",
                category |-> "sca", severity_canonical |-> DTNormalizeSeverity(b),
                status_canonical |-> DTNormalizeStatus(b),
                cwe_id |-> IF b.cwe_id = Null THEN Null ELSE <<b.cwe_id>>,
                cve_id |-> b.cve_id, rule_id_native |-> b.vuln_id_native,
                trigger_context |-> "periodic", repository_id |-> b.repository_id,
                first_seen_at |-> b.attributed_on, last_seen_at |-> b.attributed_on])
=============================================================================
