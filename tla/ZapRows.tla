-------------------------------- MODULE ZapRows --------------------------------
(***************************************************************************)
(* The two projections of an OWASP ZAP report in connectors/owasp_zap/      *)
(* transform.py: alerts_to_silver in Python and transform in Spark.  Both   *)
(* flatten a report to (site, alert, instance) triples; here z is such a    *)
(* triple with the times of its report, and each projection gives the set   *)
(* of its rows, empty or of one element.  A riskdesc is its leading word,   *)
(* and whether the confidence follows without a space; a cweid is its text  *)
(* without surrounding blanks, and whether it has any.  A uri is its target *)
(* and its path.                                                            *)
(***************************************************************************)
EXTENDS SilverRows

ZapSeverityYml == [info |-> {"Informational"}, low |-> {"Low"}, medium |-> {"Medium"},
                   high |-> {"High"}]
ZapStatusYml == [open |-> {"open"}]

CwePlaceholders == {"", "0", "-1"}

\* Python: the text up to " (", which is all of it if the confidence is glued on.
ExtractRisk(riskdesc) == CASE riskdesc = Null -> Null
                           [] riskdesc # Null /\ riskdesc.glued  -> "word(confidence)"
                           [] riskdesc # Null /\ ~riskdesc.glued -> riskdesc.word

\* Spark: the text up to a parenthesis, blanks or none before it.
SplitRisk(riskdesc) == IF riskdesc = Null THEN Null ELSE riskdesc.word

\* Python strips before it looks for placeholders, Spark does neither.
ZapNormalizeCwe(cweid) ==
    IF cweid = Null \/ cweid.text \in CwePlaceholders THEN Null ELSE <<cweid.text>>
SparkCwe(cweid) ==
    IF cweid = Null \/ (cweid.text \in CwePlaceholders /\ ~cweid.padded) THEN Null
    ELSE IF cweid.padded THEN <<" ", cweid.text, " ">> ELSE <<cweid.text>>

Locatable(z) == z.pluginid \notin {Null, ""} /\ z.uri # Null

ZapFinding(z, severity, cwe, seen) ==
    FindingRow([finding_id |-> <<z.pluginid, z.uri>>, tool_source |-> "owasp_zap",
                category |-> "dast", severity_canonical |-> severity,
                status_canonical |-> NormalizeStatus("open", ZapStatusYml),
                cwe_id |-> cwe, rule_id_native |-> z.pluginid,
                trigger_context |-> z.trigger_context, url |-> z.uri,
                first_seen_at |-> seen, last_seen_at |-> seen])

\* A site without a name goes by its host; the report says when it was generated.
AlertsToSilver(z) ==
    IF Or(z.name, z.host) \notin {Null, ""} /\ Locatable(z)
    THEN {ZapFinding(z, NormalizeSeverity(ExtractRisk(z.riskdesc), ZapSeverityYml),
                     ZapNormalizeCwe(z.cweid),
                     IF z.generated = Null THEN z.converted ELSE z.generated)}
    ELSE {}

\* coalesce takes an empty name for a name, and an empty target is dropped; the
\* time is that of the ingestion.
ZapTransform(z) ==
    IF (IF z.name = Null THEN z.host ELSE z.name) \notin {Null, ""} /\ Locatable(z)
    THEN {ZapFinding(z, Lookup(ZapSeverityYml, SplitRisk(z.riskdesc), "info"),
                     SparkCwe(z.cweid), z.ingested)}
    ELSE {}

\* dedup_key_for(target, alert_id, uri_path) with _split_target.
ZapDedupKey(row) == <<row.url[1], row.rule_id_native, row.url[2]>>
=============================================================================
