------------------------------ MODULE SemgrepRows ------------------------------
(***************************************************************************)
(* The projection of Semgrep artefacts (connectors/semgrep/ingest.py and    *)
(* transform.py) in their two formats.  A key is the sequence of its parts, *)
(* the last one split into stem and extension.  A CWE tag is the prefix it  *)
(* has in upper case and the text behind it up to a colon.                  *)
(***************************************************************************)
EXTENDS SilverRows

SemgrepSeverityYml == [high |-> {"ERROR", "error"}, medium |-> {"WARNING", "warning"},
                       low |-> {"INFO", "note", "none"}]
SemgrepStatusYml == [open |-> {"open"}]

\* The default the file declares, not that of the platform.
SemgrepSeverityLookup(native) == Lookup(SemgrepSeverityYml, native, "medium")

\* Lane, repository and format are read off the key.  One of another lane or
\* extension raises, and nothing of the artefact lands.
TriggerContext(key) == CASE key[1] \in {"cicd", "periodic"} -> key[1]
ArtefactRepository(key) == key[3]
DetectFormat(key) == CASE key[Len(key)] = ".sarif" -> "sarif"
                       [] key[Len(key)] = ".json"  -> "json"

\* "CWE-79: ..." is cut at its colon, "cwe:79" is taken only with a number.
IsCweTag(tag) == tag.prefix = "CWE-" \/ (tag.prefix = "CWE:" /\ tag.isdigit)

\* Either form becomes "CWE-79".
FirstCweFromStrings(tags) ==
    LET first == FirstOf(tags, IsCweTag)
    IN  IF first = Null THEN Null ELSE <<"CWE-", first.text>>

SemgrepFindingId(repo, file, rule, line) == <<Or(repo, ""), Or(file, ""), Or(rule, ""), line>>

\* What both formats fill in; neither has a time.
SemgrepFinding(key, rule, file, line, native, cwe) ==
    FindingRow([finding_id |-> SemgrepFindingId(ArtefactRepository(key), file, rule, line),
                tool_source |-> "semgrep", category |-> "sast",
                severity_canonical |-> SemgrepSeverityLookup(native),
                status_canonical |-> NormalizeStatus("open", SemgrepStatusYml),
                cwe_id |-> cwe, rule_id_native |-> rule,
                trigger_context |-> TriggerContext(key),
                repository_id |-> ArtefactRepository(key),
                file_path |-> file, start_line |-> line])

RecordToSilverJson(key, r) ==
    SemgrepFinding(key, r.check_id, r.path, r.line, r.severity, FirstCweFromStrings(r.cwe))

\* Mutant of SarifRuleTags: ruleIndex is taken to count from one.
SarifRuleTagsFromOne(run, r) ==
    IF r.ruleIndex # Null /\ r.ruleIndex \in 1..Len(run.rules)
    THEN run.rules[r.ruleIndex].tags
    ELSE LET named == FirstOf(run.rules, LAMBDA rule : rule.id = r.ruleId)
         IN  IF named = Null THEN <<>> ELSE named.tags

\* The rule of the result: by ruleIndex, which counts from zero, if it is in
\* range, else the first of that name.
SarifRuleTags(run, r) ==
    IF r.ruleIndex # Null /\ r.ruleIndex \in 0..Len(run.rules) - 1
    THEN run.rules[r.ruleIndex + 1].tags
    ELSE LET named == FirstOf(run.rules, LAMBDA rule : r.ruleId # Null /\ rule.id = r.ruleId)
         IN  IF named = Null THEN <<>> ELSE named.tags

SarifFirstLocation(r) == IF r.locations = <<>> THEN [uri |-> Null, line |-> Null]
                         ELSE r.locations[1]

SarifResultToSilver(key, run, r) ==
    LET place == SarifFirstLocation(r)
    IN  SemgrepFinding(key, r.ruleId, place.uri, place.line, r.level,
                       FirstCweFromStrings(SarifRuleTags(run, r)))

\* One row for each result of the document, by its format.
TransformArtefact(key, document) ==
    IF DetectFormat(key) = "json"
    THEN {RecordToSilverJson(key, r) : r \in document.results}
    ELSE UNION {{SarifResultToSilver(key, run, r) : r \in run.results} : run \in document.runs}

\* dedup_key_for: neither line nor tool.
SemgrepDedupKey(row) == <<row.repository_id, row.file_path, row.rule_id_native>>
=============================================================================
