-------------------------------- MODULE WafRows --------------------------------
(***************************************************************************)
(* The projection of an AWS WAF log record in connectors/aws_waf/           *)
(* transform.py.  A record without time, web ACL or request id raises, so   *)
(* the projection is of the others.                                         *)
(***************************************************************************)
EXTENDS SilverRows

\* By the action, in whatever case.
WafSeverityYml == [high |-> {"BLOCK"}, medium |-> {"COUNT"},
                   low |-> {"CHALLENGE", "CAPTCHA", "ALLOW"}]

DeriveSeverity(action) == Lookup(WafSeverityYml, action, "medium")

\* A hash of the three, taken to be free of collisions.
DeriveFindingId(r) == <<r.webaclId, r.requestId, r.timestamp>>

NormaliseEvent(r) ==
    FindingRow([finding_id |-> DeriveFindingId(r), tool_source |-> "aws_waf", category |-> "waf",
                severity_canonical |-> DeriveSeverity(r.action), status_canonical |-> "open",
                rule_id_native |-> Or(r.terminatingRuleId, "UNKNOWN"),
                trigger_context |-> "live-traffic", url |-> r.uri,
                first_seen_at |-> r.timestamp, last_seen_at |-> r.timestamp])
=============================================================================
