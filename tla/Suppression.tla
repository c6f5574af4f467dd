----------------------------- MODULE Suppression -----------------------------
(***************************************************************************)
(* Suppression rules: the INSERT-only table silver.suppression_rules, the   *)
(* admin notebook that appends to it (manage_suppression.py) and the two    *)
(* implementations of its matching in analytics/lib/suppression.py.  The    *)
(* posture and overlap notebooks call the Python predicate, the MTTR and    *)
(* heatmap notebooks the Spark filter, on the same rules table.             *)
(*                                                                         *)
(* A row is a function from the columns at the call site to values or Null. *)
(* A pattern is what its text says: a literal, "base/*" or, as the admin    *)
(* notebook advertises, "base*".  Strings are abstract values; Below[b] are *)
(* those that begin with b and a slash.                                     *)
(***************************************************************************)
EXTENDS Naturals, FiniteSets

CONSTANTS
    CanonicalScopes,  \* CANONICAL_SCOPES of the admin notebook
    CallSites,        \* the column sets a gold notebook filters on
    Values, Null,     \* column values, and SQL NULL or None
    Bases,            \* pattern bases, the values among them
    Below,            \* [Bases -> SUBSET Values]
    MaxDays,          \* largest expires_at_days an operator enters
    MaxRules,         \* bound on the rules table
    MaxTime           \* bound on the clock

ASSUME ValuesAssumption ==
    /\ Values \subseteq Bases /\ Null \notin Bases
    /\ Below \in [Bases -> SUBSET Values]
ASSUME TimeAssumption == MaxDays \in Nat /\ MaxRules \in Nat /\ MaxTime \in Nat \ {0}

VARIABLES
    rules,   \* silver.suppression_rules
    now      \* the clock, in days

vars == <<rules, now>>

Forms    == {"literal", "below", "star"}
Patterns == [form : Forms, base : Bases]
Rules    == [scope : CanonicalScopes, target_pattern : Patterns,
             created_at : 1..MaxTime, expires_at : Nat]
Rows     == UNION {[columns -> Values \union {Null}] : columns \in CallSites}

----------------------------------------------------------------------------
(* The pure-Python predicate. *)

\* Mutant of IsRuleActive: a rule still mutes at the instant it expires.
IsRuleActiveAtExpiry(rule, t) == rule.expires_at >= t

IsRuleActive(rule, t) == rule.expires_at > t

\* Only a trailing "/*" is a wildcard: "base*" is compared as it stands, and no
\* value ends in a star.
RuleMatchesValue(rule, value) ==
    /\ value # Null
    /\ LET p == rule.target_pattern
       IN  \/ p.form \in {"literal", "below"} /\ value = p.base
           \/ p.form = "below" /\ value \in Below[p.base]

IsRowSuppressed(row, table, t) ==
    \E rule \in table : /\ IsRuleActive(rule, t)
                        /\ rule.scope \in DOMAIN row
                        /\ RuleMatchesValue(rule, row[rule.scope])

----------------------------------------------------------------------------
(* The Spark filter, in SQL's three truth values. *)

\* Comparing NULL with anything gives NULL.
Match(rule, value) ==
    IF value = Null THEN "null"
    ELSE IF RuleMatchesValue(rule, value) THEN "true" ELSE "false"

\* A chain of ORs.
AnyOf(verdicts) == IF "true" \in verdicts THEN "true"
                   ELSE IF "null" \in verdicts THEN "null" ELSE "false"

Applicable(row, table, t) ==
    {rule \in table : IsRuleActive(rule, t) /\ rule.scope \in DOMAIN row}

Verdict(row, table, t) ==
    AnyOf({Match(rule, row[rule.scope]) : rule \in Applicable(row, table, t)})

\* Mutant of KeptBySpark: the negation in the filter is missing.
KeptIfMatched(row, table, t) == Verdict(row, table, t) = "true"

\* df.filter(~suppressed): a row stays where the negation is true, and the
\* negation of NULL is NULL.
KeptBySpark(row, table, t) == Verdict(row, table, t) = "false"

----------------------------------------------------------------------------
(* The table and its one writer. *)

Init == rules = {} /\ now = 1

ValidInputs(scope, days) == scope \in CanonicalScopes /\ days > 0

RuleRow(scope, pattern, days) ==
    [scope |-> scope, target_pattern |-> pattern,
     created_at |-> now, expires_at |-> now + days]

\* One run of the admin notebook.
Insert(scope, pattern, days) ==
    /\ ValidInputs(scope, days)
    /\ Cardinality(rules) < MaxRules
    /\ rules' = rules \union {RuleRow(scope, pattern, days)}
    /\ UNCHANGED now

Tick == now < MaxTime /\ now' = now + 1 /\ UNCHANGED rules

Next == \/ Tick
        \/ \E scope \in CanonicalScopes, pattern \in Patterns, days \in 0..MaxDays :
              Insert(scope, pattern, days)

Spec == Init /\ [][Next]_vars

----------------------------------------------------------------------------
(* Properties. *)

\* Every rule in the table is a rule, and mutes for some time after it was
\* written: the notebook never stores one that is expired from the start.
TypeOK == /\ rules \subseteq Rules
          /\ now \in 1..MaxTime
          /\ \A rule \in rules : IsRuleActive(rule, rule.created_at)

\* A finding the Python predicate mutes is muted by the Spark filter too: no
\* gold table shows a finding that the rules mute on another.
SparkMutesWhatPythonMutes ==
    \A row \in Rows : IsRowSuppressed(row, rules, now) => ~KeptBySpark(row, rules, now)

\* On rows without NULL in a column the two implementations agree.
Complete(row) == \A column \in DOMAIN row : row[column] # Null
EnginesAgreeOnCompleteRows ==
    \A row \in Rows :
        Complete(row) => (KeptBySpark(row, rules, now) <=> ~IsRowSuppressed(row, rules, now))

\* Time alone never hides a row and a new rule never brings one back, in either
\* implementation.  Time brings a row back only at the expiry of a rule that hid
\* it: the rule mutes up to that instant and not at it.
NoneNewlyHidden(row) ==
    /\ IsRowSuppressed(row, rules, now)' => IsRowSuppressed(row, rules, now)
    /\ KeptBySpark(row, rules, now) => KeptBySpark(row, rules, now)'
NoneBroughtBack(row) ==
    /\ IsRowSuppressed(row, rules, now) => IsRowSuppressed(row, rules, now)'
    /\ KeptBySpark(row, rules, now)' => KeptBySpark(row, rules, now)
Expiring(row) ==
    {rule \in rules : /\ now < rule.expires_at /\ rule.expires_at <= now'
                      /\ rule.scope \in DOMAIN row}
BackAtExpiry(row) ==
    /\ IsRowSuppressed(row, rules, now) =>
          \/ IsRowSuppressed(row, rules, now)'
          \/ \E rule \in Expiring(row) : RuleMatchesValue(rule, row[rule.scope])
    /\ KeptBySpark(row, rules, now)' =>
          \/ KeptBySpark(row, rules, now)
          \/ \E rule \in Expiring(row) : \/ row[rule.scope] = Null
                                         \/ RuleMatchesValue(rule, row[rule.scope])
HidingFollowsTheTable ==
    [][\A row \in Rows : /\ rules' = rules => NoneNewlyHidden(row) /\ BackAtExpiry(row)
                         /\ now' = now => NoneBroughtBack(row)]_vars

\* suppression-rules.md:101: "A row is suppressed when at least one active
\* applicable rule matches."  The Spark filter also drops every row that has
\* NULL in the scope column of an active rule, which no rule matches.
OnlyMatchedRowsAreHidden ==
    \A row \in Rows :
        ~KeptBySpark(row, rules, now) =>
            \E rule \in Applicable(row, rules, now) :
                RuleMatchesValue(rule, row[rule.scope])
=============================================================================
