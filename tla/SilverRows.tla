------------------------------ MODULE SilverRows ------------------------------
(***************************************************************************)
(* Rows of silver.findings (src/platform/schemas.py) and what the           *)
(* connectors' projections share: the severity and status lookups of        *)
(* src/platform/silver.py over the connectors' severity.yml and status.yml. *)
(* A lookup file is given by its classes: for each canonical value, the     *)
(* native ones it is listed for.  A composed native value, joined by a      *)
(* hyphen in the file, is the tuple of its parts.                           *)
(***************************************************************************)
EXTENDS Naturals, Sequences, FiniteSets, TLC

CONSTANT Null    \* SQL NULL and None

RequiredColumns == {"finding_id", "tool_source", "category", "severity_canonical",
                    "status_canonical", "rule_id_native", "trigger_context",
                    "first_seen_at", "last_seen_at"}
SilverColumns == RequiredColumns \union {"cwe_id", "cve_id", "repository_id", "file_path",
                                         "start_line", "url"}

\* A row from the columns a projection fills, those of its own included; the
\* others are NULL.
FindingRow(given) ==
    [column \in SilverColumns \union DOMAIN given |->
        IF column \in DOMAIN given THEN given[column] ELSE Null]

MissingColumns(row) == {column \in RequiredColumns : row[column] = Null}

Lookup(classes, native, default) ==
    IF \E c \in DOMAIN classes : native \in classes[c]
    THEN CHOOSE c \in DOMAIN classes : native \in classes[c]
    ELSE default

NormalizeSeverity(native, classes) == Lookup(classes, native, "info")
NormalizeStatus(native, classes)   == Lookup(classes, native, "open")

\* Python's or, over strings.
Or(text, other) == IF text \in {Null, ""} THEN other ELSE text

\* The first element of a list that satisfies Test, if any does.
FirstOf(list, Test(_)) ==
    LET hits == {i \in DOMAIN list : Test(list[i])}
    IN  IF hits = {} THEN Null ELSE list[CHOOSE i \in hits : \A j \in hits : i <= j]
=============================================================================
