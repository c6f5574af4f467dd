--------------------------- MODULE SuppressionProofs ---------------------------
(***************************************************************************)
(* The relation between the two implementations of suppression, for any     *)
(* rules table, any rows and any time, and what the passing of time and the *)
(* insertion of rules can do to the set of hidden rows.                     *)
(***************************************************************************)
EXTENDS Suppression, TLAPS

----------------------------------------------------------------------------
(* The two implementations. *)

\* The Spark filter keeps a row exactly when no active applicable rule compares
\* it to NULL or matches it.
LEMMA KeptMeans ==
    ASSUME NEW row, NEW table, NEW t
    PROVE  KeptBySpark(row, table, t) <=>
             \A rule \in Applicable(row, table, t) :
                /\ row[rule.scope] # Null
                /\ ~RuleMatchesValue(rule, row[rule.scope])
<1> DEFINE V == {Match(rule, row[rule.scope]) : rule \in Applicable(row, table, t)}
<1>1. \A rule \in Applicable(row, table, t) :
         /\ row[rule.scope] = Null => Match(rule, row[rule.scope]) = "null"
         /\ row[rule.scope] # Null /\ RuleMatchesValue(rule, row[rule.scope])
              => Match(rule, row[rule.scope]) = "true"
         /\ row[rule.scope] # Null /\ ~RuleMatchesValue(rule, row[rule.scope])
              => Match(rule, row[rule.scope]) = "false"
  BY DEF Match
<1>2. KeptBySpark(row, table, t) <=> "true" \notin V /\ "null" \notin V
  BY DEF KeptBySpark, Verdict, AnyOf
<1>3. "true" \notin V /\ "null" \notin V <=>
        \A rule \in Applicable(row, table, t) :
           Match(rule, row[rule.scope]) \notin {"true", "null"}
  OBVIOUS
<1> QED BY <1>1, <1>2, <1>3

\* The Python predicate mutes a row exactly when an active applicable rule
\* matches it.
LEMMA SuppressedMeans ==
    ASSUME NEW row, NEW table, NEW t
    PROVE  IsRowSuppressed(row, table, t) <=>
             \E rule \in Applicable(row, table, t) :
                RuleMatchesValue(rule, row[rule.scope])
BY DEF IsRowSuppressed, Applicable

\* Whatever the Python predicate mutes, the Spark filter drops.
THEOREM SparkMutesMore == Spec => []SparkMutesWhatPythonMutes
<1>1. SparkMutesWhatPythonMutes
  BY KeptMeans, SuppressedMeans DEF SparkMutesWhatPythonMutes
<1> QED BY <1>1, PTL

\* On rows without NULL the two implementations are the same filter.
THEOREM EnginesAgree == Spec => []EnginesAgreeOnCompleteRows
<1>1. ASSUME NEW row \in Rows, Complete(row)
      PROVE  KeptBySpark(row, rules, now) <=> ~IsRowSuppressed(row, rules, now)
  <2>1. \A rule \in Applicable(row, rules, now) : row[rule.scope] # Null
    BY <1>1 DEF Applicable, Complete
  <2> QED BY <2>1, KeptMeans, SuppressedMeans
<1>2. EnginesAgreeOnCompleteRows
  BY <1>1 DEF EnginesAgreeOnCompleteRows
<1> QED BY <1>2, PTL

----------------------------------------------------------------------------
(* The table. *)

\* TypeOK is an invariant: no rule is stored that is expired from the start.
THEOREM TypeCorrect == Spec => []TypeOK
<1>1. Init => TypeOK
  BY TimeAssumption DEF Init, TypeOK
<1>2. TypeOK /\ [Next]_vars => TypeOK'
  <2> SUFFICES ASSUME TypeOK, [Next]_vars PROVE TypeOK'
    OBVIOUS
  <2>1. CASE Tick
    BY <2>1, TimeAssumption DEF Tick, TypeOK, IsRuleActive
  <2>2. ASSUME NEW scope \in CanonicalScopes, NEW pattern \in Patterns,
               NEW days \in 0..MaxDays, Insert(scope, pattern, days)
        PROVE  TypeOK'
    <3> DEFINE new == RuleRow(scope, pattern, days)
    <3>1. new \in Rules /\ IsRuleActive(new, new.created_at)
      BY <2>2, TimeAssumption
         DEF Insert, ValidInputs, RuleRow, Rules, IsRuleActive, TypeOK
    <3>2. rules' = rules \union {new} /\ now' = now
      BY <2>2 DEF Insert
    <3> HIDE DEF new
    <3> QED BY <3>1, <3>2 DEF TypeOK, IsRuleActive
  <2>3. CASE UNCHANGED vars
    BY <2>3 DEF vars, TypeOK, IsRuleActive
  <2> QED BY <2>1, <2>2, <2>3 DEF Next
<1> QED BY <1>1, <1>2, PTL DEF Spec

\* Fewer rules, or the same rules later, apply to a row.
LEMMA ApplicableShrinks ==
    ASSUME NEW row, NEW table \in SUBSET Rules, NEW larger \in SUBSET Rules,
           table \subseteq larger, NEW t \in Nat, NEW u \in Nat, t <= u
    PROVE  Applicable(row, table, u) \subseteq Applicable(row, larger, t)
BY DEF Applicable, IsRuleActive, Rules

\* With the table left alone a rule stops applying to a row only by expiring.
LEMMA ApplicableUntilExpiry ==
    ASSUME NEW row, TypeOK, TypeOK', rules' = rules,
           NEW rule \in Applicable(row, rules, now),
           rule \notin Applicable(row, rules', now')
    PROVE  rule \in Expiring(row)
<1>1. now \in Nat /\ now' \in Nat /\ rule \in Rules
  BY DEF TypeOK, Applicable
<1>2. rule.expires_at \in Nat
  BY <1>1 DEF Rules
<1> QED BY <1>1, <1>2 DEF Applicable, IsRuleActive, Expiring

\* Time alone never hides a row, a new rule never brings one back, and a row comes
\* back with time only as a rule that hid it expires.
THEOREM HidingFollows == Spec => HidingFollowsTheTable
<1>1. TypeOK /\ TypeOK' /\ [Next]_vars
        => [\A row \in Rows : /\ rules' = rules => NoneNewlyHidden(row) /\ BackAtExpiry(row)
                              /\ now' = now => NoneBroughtBack(row)]_vars
  <2> SUFFICES ASSUME TypeOK, TypeOK', [Next]_vars, NEW row \in Rows
               PROVE  /\ rules' = rules => NoneNewlyHidden(row) /\ BackAtExpiry(row)
                      /\ now' = now => NoneBroughtBack(row)
    OBVIOUS
  <2>0. now \in Nat /\ now' \in Nat /\ rules \in SUBSET Rules /\ rules' \in SUBSET Rules
    BY DEF TypeOK
  <2>1. rules \subseteq rules' /\ now <= now'
    BY <2>0 DEF Next, Tick, Insert, vars
  <2>2. ASSUME rules' = rules
        PROVE  Applicable(row, rules', now') \subseteq Applicable(row, rules, now)
    BY <2>0, <2>1, <2>2, ApplicableShrinks
  <2>3. ASSUME now' = now
        PROVE  Applicable(row, rules, now) \subseteq Applicable(row, rules', now')
    BY <2>0, <2>1, <2>3, ApplicableShrinks
  <2>4. /\ KeptBySpark(row, rules, now)' <=>
             \A rule \in Applicable(row, rules', now') :
                /\ row[rule.scope] # Null
                /\ ~RuleMatchesValue(rule, row[rule.scope])
        /\ IsRowSuppressed(row, rules, now)' <=>
             \E rule \in Applicable(row, rules', now') :
                RuleMatchesValue(rule, row[rule.scope])
    BY KeptMeans, SuppressedMeans
  <2>5. ASSUME rules' = rules PROVE NoneNewlyHidden(row)
    BY <2>2, <2>4, <2>5, KeptMeans, SuppressedMeans DEF NoneNewlyHidden
  <2>6. ASSUME rules' = rules PROVE BackAtExpiry(row)
    <3>1. \A rule \in Applicable(row, rules, now) :
             rule \in Applicable(row, rules', now') \/ rule \in Expiring(row)
      BY <2>6, ApplicableUntilExpiry
    <3>2. ASSUME IsRowSuppressed(row, rules, now), ~IsRowSuppressed(row, rules, now)'
          PROVE  \E rule \in Expiring(row) : RuleMatchesValue(rule, row[rule.scope])
      BY <2>4, <3>1, <3>2, SuppressedMeans
    <3>3. ASSUME ~KeptBySpark(row, rules, now), KeptBySpark(row, rules, now)'
          PROVE  \E rule \in Expiring(row) : \/ row[rule.scope] = Null
                                             \/ RuleMatchesValue(rule, row[rule.scope])
      BY <2>4, <3>1, <3>3, KeptMeans
    <3> QED BY <3>2, <3>3 DEF BackAtExpiry
  <2>7. ASSUME now' = now PROVE NoneBroughtBack(row)
    BY <2>3, <2>4, <2>7, KeptMeans, SuppressedMeans DEF NoneBroughtBack
  <2> QED BY <2>5, <2>6, <2>7
<1> QED BY <1>1, TypeCorrect, PTL DEF Spec, HidingFollowsTheTable
=============================================================================
