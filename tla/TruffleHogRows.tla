----------------------------- MODULE TruffleHogRows -----------------------------
(***************************************************************************)
(* The projection of a TruffleHog record in connectors/trufflehog/          *)
(* transform.py.  A repository URL is the scheme it starts with, the path   *)
(* and what stands before it behind a colon, if anything does, and whether  *)
(* ".git" ends it.                                                          *)
(***************************************************************************)
EXTENDS SilverRows

\* Mutant of RepositoryId: the suffix stays.
RepositoryIdWithSuffix(url) ==
    IF url = Null THEN Null
    ELSE IF url.git THEN url.path \o ".git" ELSE url.path

\* Scheme, host and suffix are stripped, in the https and the ssh form alike; but
\* the colon before a port, or the one between a user and a token, is taken for that
\* before an ssh path, so that the port stays, or the token and the host.
RepositoryId(url) == CASE url = Null -> Null
                       [] url # Null /\ url.colon # "" -> url.colon \o url.path
                       [] url # Null /\ url.colon = "" -> url.path

DeriveValidityStatus(verified, error) ==
    CASE verified = TRUE -> "active"
      [] verified = FALSE /\ error = Null -> "inactive"
      [] OTHER -> "unknown"

\* The raw secret is never read; there is no status, no severity and no time at
\* the source.
RecordToSilver(r) ==
    FindingRow([finding_id |-> <<r.repository, Or(r.commit, ""), Or(r.file, ""), Or(r.detector, "")>>,
                tool_source |-> "trufflehog", category |-> "secrets",
                severity_canonical |-> "high", status_canonical |-> "open",
                rule_id_native |-> r.detector, secret_type |-> r.detector,
                repository_id |-> RepositoryId(r.repository), commit_sha |-> r.commit,
                file_path |-> r.file, start_line |-> r.line,
                validity_status |-> DeriveValidityStatus(r.verified, r.error)])

TruffleHogDedupKey(row) ==
    <<row.repository_id, row.commit_sha, row.secret_type, row.file_path>>
=============================================================================
