------------------------------- MODULE EntityRows -------------------------------
(***************************************************************************)
(* The projections of repositories and applications: repository_to_silver   *)
(* (connectors/github/transform.py), project_to_repository (connectors/     *)
(* gitlab/transform.py) and those of connectors/servicenow/transform.py.    *)
(*                                                                         *)
(* An id of GitHub is its value and whether it is text.  A time of          *)
(* ServiceNow is the reading of the clock where the instance stands, in     *)
(* half hours; the zone is two hours ahead of UTC until DaylightEnds, and   *)
(* one hour from then on, so that an hour is read twice.  Its empty strings *)
(* are coerced to None first of all, and are Null here.                     *)
(***************************************************************************)
EXTENDS SilverRows, Integers

CONSTANT DaylightEnds   \* an instant in UTC

ASSUME ZoneAssumption == DaylightEnds \in Nat

\* Mutant of RepositoryToSilver: the id of the record, whatever it is.
RepositoryByDatabaseId(raw) ==
    [repository_id |-> IF raw.id # Null THEN raw.id.value ELSE raw.node_id,
     full_name |-> Or(raw.nameWithOwner, raw.full_name), updated_at |-> raw.updated]

\* GraphQL's id is the node id; REST has it beside the number of the database,
\* which is what is left if it is missing.
RepositoryToSilver(raw) ==
    [repository_id |-> CASE raw.id # Null /\ raw.id.text -> raw.id.value
                         [] raw.node_id # Null /\ (raw.id # Null => ~raw.id.text) -> raw.node_id
                         [] raw.node_id = Null /\ raw.id # Null /\ ~raw.id.text -> raw.id.value
                         [] raw.node_id = Null /\ raw.id = Null -> Null,
     full_name |-> Or(raw.nameWithOwner, raw.full_name), updated_at |-> raw.updated]

\* The last activity counts as the last update, if the server names it.
ProjectToRepository(raw) ==
    [repository_id |-> raw.id, full_name |-> raw.path_with_namespace,
     updated_at |-> IF raw.last_activity_at = Null THEN raw.updated_at ELSE raw.last_activity_at]

Summer == 4
Winter == 2

\* Mutant of NormaliseServicenowDatetime: the offset of winter all the year.
ReadInWinter(reading) == reading - Winter

\* replace(tzinfo) leaves fold at zero: what is read twice is taken for the
\* first time round.
NormaliseServicenowDatetime(reading) ==
    IF reading < DaylightEnds + Summer THEN reading - Summer ELSE reading - Winter

TimeOf(reading) == IF reading = Null THEN Null ELSE NormaliseServicenowDatetime(reading)

NormaliseApplication(raw) ==
    [application_id |-> raw.sys_id, name |-> raw.name,
     valid_from |-> TimeOf(raw.sys_created_on), updated_at |-> TimeOf(raw.sys_updated_on)]

\* None, or the link that the record itself carries.
NormaliseAppRepoLink(raw) ==
    IF raw.u_repository_id = Null \/ raw.sys_id = Null THEN {}
    ELSE {[application_id |-> raw.sys_id, repository_id |-> raw.u_repository_id,
           linked_at |-> TimeOf(raw.sys_updated_on)]}
=============================================================================
