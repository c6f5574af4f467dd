---------------------------- MODULE GoldTablesProofs ----------------------------
(***************************************************************************)
(* What the gold tables promise of one another, for any findings, links,   *)
(* rules, OWASP lists, lengths of a week and numbers of transforms.  The   *)
(* invariant is LakeInv: silver holds nothing but copies of findings, no   *)
(* more of each than its connector has run transforms, and the rules have  *)
(* scopes that both engines know.                                          *)
(***************************************************************************)
EXTENDS GoldTables, SuppressionProofs, FiniteSetTheorems, WellFoundedInduction

----------------------------------------------------------------------------
(* Finite sets. *)

\* A measure in the naturals takes a least value on a set that is not empty.
LEMMA LeastMeasure ==
    ASSUME NEW S, S # {}, NEW m \in [S -> Nat]
    PROVE  \E x \in S : \A y \in S : m[x] <= m[y]
<1> DEFINE D == {m[x] : x \in S}
           R == OpToRel(<, Nat)
<1>1. D \subseteq Nat /\ D # {}
  OBVIOUS
<1>2. IsWellFoundedOn(R, Nat)
  BY NatLessThanWellFounded
<1>3. \A a, b \in Nat : a < b => <<a, b>> \in R
  BY DEF OpToRel
<1> HIDE DEF R
<1>4. PICK d \in D : \A e \in D : ~(<<e, d>> \in R)
  <2> HIDE DEF D
  <2> QED BY <1>1, <1>2, WFMin
<1>5. PICK x \in S : d = m[x]
  OBVIOUS
<1>6. ASSUME NEW y \in S PROVE m[x] <= m[y]
  <2>1. m[y] \in D /\ m[x] \in Nat /\ m[y] \in Nat
    OBVIOUS
  <2>2. ~(m[y] < m[x])
    BY <1>3, <1>4, <1>5, <2>1
  <2> QED BY <2>1, <2>2
<1> QED BY <1>6

\* Of finitely many things with whole numbers, one has the greatest.
LEMMA GreatestOf ==
    ASSUME NEW S, IsFiniteSet(S), S # {}, NEW h, \A x \in S : h[x] \in Int
    PROVE  \E x \in S : \A y \in S : h[y] <= h[x]
<1> DEFINE Above(x) == {y \in S : h[y] > h[x]}
           m == [x \in S |-> Cardinality(Above(x))]
<1>1. \A x \in S : IsFiniteSet(Above(x)) /\ Cardinality(Above(x)) \in Nat
  <2> TAKE x \in S
  <2>1. Above(x) \in SUBSET S
    OBVIOUS
  <2> HIDE DEF Above
  <2> QED BY <2>1, FS_Subset, FS_CardinalityType
<1>2. m \in [S -> Nat]
  BY <1>1
<1>3. PICK x \in S : \A y \in S : m[x] <= m[y]
  <2> HIDE DEF m
  <2> QED BY <1>2, LeastMeasure
<1>4. ASSUME NEW y \in S, h[y] > h[x]
      PROVE  FALSE
  <2>1. Above(y) \in SUBSET Above(x) /\ y \in Above(x) /\ y \notin Above(y)
    BY <1>4
  <2>2. Cardinality(Above(y)) <= Cardinality(Above(x)) /\ Cardinality(Above(y)) # Cardinality(Above(x))
    <3> HIDE DEF Above
    <3> QED BY <1>1, <2>1, FS_Subset
  <2>3. Cardinality(Above(x)) <= Cardinality(Above(y))
    BY <1>3
  <2> HIDE DEF Above
  <2> QED BY <1>1, <2>2, <2>3
<1> QED BY <1>4

\* A finite set of whole numbers that is not empty has a greatest element.
LEMMA GreatestNumber ==
    ASSUME NEW T \in SUBSET Int, IsFiniteSet(T), T # {}
    PROVE  \E t \in T : \A u \in T : u <= t
<1> DEFINE h == [t \in T |-> t]
<1>1. \A t \in T : h[t] \in Int
  OBVIOUS
<1>2. \E t \in T : \A u \in T : h[u] <= h[t]
  <2> HIDE DEF h
  <2> QED BY <1>1, GreatestOf
<1> QED BY <1>2

\* A least one, too.
LEMMA LeastNumber ==
    ASSUME NEW T \in SUBSET Int, IsFiniteSet(T), T # {}
    PROVE  \E t \in T : \A u \in T : t <= u
<1> DEFINE h == [t \in T |-> 0 - t]
<1>1. \A t \in T : h[t] \in Int
  OBVIOUS
<1>2. \E t \in T : \A u \in T : h[u] <= h[t]
  <2> HIDE DEF h
  <2> QED BY <1>1, GreatestOf
<1>3. PICK t \in T : \A u \in T : h[u] <= h[t]
  BY <1>2
<1>4. \A u \in T : t <= u
  BY <1>3
<1> QED BY <1>4

\* The values that finitely many things have are finitely many.
LEMMA ImageIsFinite ==
    ASSUME NEW S, IsFiniteSet(S), NEW h
    PROVE  IsFiniteSet({h[x] : x \in S}) /\ Cardinality({h[x] : x \in S}) <= Cardinality(S)
<1> DEFINE T == {h[x] : x \in S}
           g == [x \in S |-> h[x]]
<1>1. g \in Surjection(S, T)
  BY DEF Surjection
<1> HIDE DEF T, g
<1>2. IsFiniteSet(T) /\ Cardinality(T) <= Cardinality(S)
  BY <1>1, FS_Surjection
<1> QED BY <1>2 DEF T

----------------------------------------------------------------------------
(* Order statistics. *)

\* The rows that took at most, and less than, so many hours.
Within(rows, v) == {f \in rows : MttrHours(f) <= v}
Under(rows, v)  == {f \in rows : MttrHours(f) < v}

\* Parts of a finite set of rows are finite, and the smaller of two has fewer.
LEMMA RowsCount ==
    ASSUME NEW rows, IsFiniteSet(rows), NEW A \in SUBSET rows, NEW B \in SUBSET A
    PROVE  /\ IsFiniteSet(A) /\ IsFiniteSet(B)
           /\ Cardinality(A) \in Nat /\ Cardinality(B) \in Nat
           /\ Cardinality(B) <= Cardinality(A)
BY FS_Subset, FS_CardinalityType

\* Some row took longest, and each row took no longer.
LEMMA LongestRow ==
    ASSUME NEW rows, IsFiniteSet(rows), rows # {}, \A f \in rows : MttrHours(f) \in Int
    PROVE  \E f \in rows : Within(rows, MttrHours(f)) = rows
<1> DEFINE h == [f \in rows |-> MttrHours(f)]
<1>1. \A f \in rows : h[f] = MttrHours(f) /\ h[f] \in Int
  OBVIOUS
<1> HIDE DEF h
<1>2. PICK f \in rows : \A g \in rows : h[g] <= h[f]
  BY <1>1, GreatestOf
<1>3. Within(rows, MttrHours(f)) = rows
  BY <1>1, <1>2 DEF Within
<1> QED BY <1>3

\* The k-th smallest sample exists: fewer than k rows lie under it, and at least
\* k within it.
LEMMA SampleMeans ==
    ASSUME NEW rows, IsFiniteSet(rows), \A f \in rows : MttrHours(f) \in Int,
           NEW k \in Nat, 1 <= k, k <= Cardinality(rows)
    PROVE  /\ Sample(rows, k) \in {MttrHours(f) : f \in rows}
           /\ Sample(rows, k) \in Int
           /\ Cardinality(Under(rows, Sample(rows, k))) < k
           /\ Cardinality(Within(rows, Sample(rows, k))) >= k
<1> DEFINE H == {MttrHours(f) : f \in rows}
           W == {v \in H : Cardinality(Within(rows, v)) >= k}
<1>0. H \subseteq Int /\ \A v : Within(rows, v) \in SUBSET rows /\ Under(rows, v) \in SUBSET rows
  BY DEF Within, Under
<1>1. rows # {}
  BY FS_EmptySet
<1>2. IsFiniteSet(H)
  <2> DEFINE h == [f \in rows |-> MttrHours(f)]
  <2>1. H = {h[f] : f \in rows}
    OBVIOUS
  <2> HIDE DEF h, H
  <2> QED BY <2>1, ImageIsFinite
<1>3. W # {}
  <2>1. PICK f \in rows : Within(rows, MttrHours(f)) = rows
    BY <1>1, LongestRow
  <2> QED BY <2>1
<1>4. IsFiniteSet(W) /\ W \subseteq H
  <2>1. W \in SUBSET H
    OBVIOUS
  <2> HIDE DEF H, W
  <2> QED BY <1>2, <2>1, FS_Subset
<1>5. PICK v \in W : \A w \in W : v <= w
  <2> HIDE DEF H, W
  <2> QED BY <1>0, <1>3, <1>4, LeastNumber
<1>6. ASSUME Cardinality(Under(rows, v)) >= k
      PROVE  FALSE
  <2> DEFINE L == Under(rows, v)
  <2>1. IsFiniteSet(L) /\ L # {} /\ \A f \in L : MttrHours(f) \in Int
    <3>1. L \in SUBSET rows
      BY DEF Under
    <3> QED BY <1>6, <3>1, FS_Subset, FS_EmptySet
  <2> HIDE DEF L
  <2>2. PICK f \in L : Within(L, MttrHours(f)) = L
    BY <2>1, LongestRow
  <2>3. f \in rows /\ MttrHours(f) < v
    BY <2>2 DEF L, Under
  <2>4. L \subseteq Within(rows, MttrHours(f))
    BY <2>2 DEF L, Under, Within
  <2>5. Cardinality(L) <= Cardinality(Within(rows, MttrHours(f)))
    BY <1>0, <2>4, RowsCount
  <2>6. Cardinality(Within(rows, MttrHours(f))) \in Nat /\ Cardinality(L) \in Nat
    BY <1>0, <2>1, FS_Subset, FS_CardinalityType
  <2>7. MttrHours(f) \in W
    BY <1>6, <2>3, <2>5, <2>6 DEF L
  <2>8. v \in Int /\ MttrHours(f) \in Int
    BY <1>0, <2>3
  <2> QED BY <1>5, <2>3, <2>7, <2>8
<1>7. Cardinality(Under(rows, v)) \in Nat
  BY <1>0, FS_Subset, FS_CardinalityType
<1>8. v \in H /\ Cardinality(Under(rows, v)) < k /\ Cardinality(Within(rows, v)) >= k
  BY <1>6, <1>7
<1>9. Sample(rows, k) = CHOOSE u \in H : /\ Cardinality(Under(rows, u)) < k
                                         /\ Cardinality(Within(rows, u)) >= k
  BY DEF Sample, Under, Within
<1>10. /\ Sample(rows, k) \in H /\ Cardinality(Under(rows, Sample(rows, k))) < k
       /\ Cardinality(Within(rows, Sample(rows, k))) >= k
  <2> HIDE DEF H
  <2> QED BY <1>8, <1>9
<1> QED BY <1>0, <1>10

\* A larger index gives no smaller sample.
LEMMA SamplesAscend ==
    ASSUME NEW rows, IsFiniteSet(rows), \A f \in rows : MttrHours(f) \in Int,
           NEW k \in Nat, NEW l \in Nat, 1 <= k, k <= l, l <= Cardinality(rows)
    PROVE  Sample(rows, k) <= Sample(rows, l)
<1> DEFINE a == Sample(rows, k)
           b == Sample(rows, l)
<1>0. Cardinality(rows) \in Nat
  BY FS_CardinalityType
<1>1. a \in Int /\ Cardinality(Under(rows, a)) < k
  BY <1>0, SampleMeans
<1>2. b \in Int /\ Cardinality(Within(rows, b)) >= l
  BY <1>0, SampleMeans
<1> HIDE DEF a, b
<1>3. ASSUME b < a PROVE FALSE
  <2>1. Under(rows, a) \in SUBSET rows /\ Within(rows, b) \in SUBSET Under(rows, a)
    BY <1>1, <1>2, <1>3 DEF Under, Within
  <2>2. /\ Cardinality(Within(rows, b)) <= Cardinality(Under(rows, a))
        /\ Cardinality(Within(rows, b)) \in Nat /\ Cardinality(Under(rows, a)) \in Nat
    BY <2>1, RowsCount
  <2> QED BY <1>1, <1>2, <2>2
<1>4. a <= b
  BY <1>1, <1>2, <1>3
<1> QED BY <1>4 DEF a, b

\* The indices that the two engines take of n samples.
LEMMA IndicesCompare ==
    ASSUME NEW n \in Nat, 1 <= n
    PROVE  LET median == (5 * n + 9) \div 10
               ninety == (9 * n + 9) \div 10
               python == IF (9 * n) \div 10 >= n THEN n ELSE (9 * n) \div 10 + 1
           IN  /\ median \in 1..n /\ ninety \in 1..n /\ python \in 1..n
               /\ (n + 1) \div 2 \in 1..n /\ n \div 2 + 1 \in 1..n
               /\ median = (n + 1) \div 2 /\ median <= n \div 2 + 1
               /\ n % 2 = 1 => median = n \div 2 + 1
               /\ ninety <= python /\ (n % 10 # 0 => ninety = python)
               /\ n \div 2 + 1 <= python /\ median <= ninety
BY Z3

\* What the two engines make of the same resolved findings.
LEMMA EnginesCompare ==
    ASSUME NEW rows, IsFiniteSet(rows), rows # {}, \A f \in rows : MttrHours(f) \in Int
    PROVE  LET n == Cardinality(rows)
               python == Percentile(rows)
               spark  == PercentileApprox(rows, 9)
               half   == 2 * PercentileApprox(rows, 5)
           IN  /\ half <= MedianTwice(rows) /\ (n % 2 = 1 => half = MedianTwice(rows))
               /\ spark <= python /\ (n % 10 # 0 => spark = python)
               /\ MedianTwice(rows) <= 2 * python /\ half <= 2 * spark
<1> DEFINE n == Cardinality(rows)
           median == (5 * n + 9) \div 10
           ninety == (9 * n + 9) \div 10
           python == IF (9 * n) \div 10 >= n THEN n ELSE (9 * n) \div 10 + 1
           upper  == n \div 2 + 1
<1>1. n \in Nat /\ 1 <= n
  BY FS_CardinalityType, FS_EmptySet
<1> HIDE DEF n
<1>2. /\ median \in 1..n /\ ninety \in 1..n /\ python \in 1..n /\ upper \in 1..n
      /\ median = (n + 1) \div 2 /\ median <= upper /\ (n % 2 = 1 => median = upper)
      /\ ninety <= python /\ (n % 10 # 0 => ninety = python)
      /\ upper <= python /\ median <= ninety
  BY <1>1, IndicesCompare
<1>3. /\ PercentileApprox(rows, 5) = Sample(rows, median)
      /\ PercentileApprox(rows, 9) = Sample(rows, ninety)
      /\ Percentile(rows) = Sample(rows, python)
      /\ MedianTwice(rows) = Sample(rows, median) + Sample(rows, upper)
  BY <1>2 DEF PercentileApprox, Percentile, MedianTwice, n
<1> HIDE DEF median, ninety, python, upper
<1>4. \A k, l \in 1..n : /\ Sample(rows, k) \in Int
                         /\ k <= l => Sample(rows, k) <= Sample(rows, l)
  <2> TAKE k, l \in 1..n
  <2>1. k \in Nat /\ 1 <= k /\ k <= n /\ l \in Nat /\ l <= n
    BY <1>1
  <2>2. Sample(rows, k) \in Int
    BY <2>1, SampleMeans DEF n
  <2>3. ASSUME k <= l PROVE Sample(rows, k) <= Sample(rows, l)
    BY <2>1, <2>3, SamplesAscend DEF n
  <2> QED BY <2>2, <2>3
<1>5. /\ Sample(rows, median) \in Int /\ Sample(rows, ninety) \in Int
      /\ Sample(rows, python) \in Int /\ Sample(rows, upper) \in Int
      /\ Sample(rows, median) <= Sample(rows, upper)
      /\ Sample(rows, ninety) <= Sample(rows, python)
      /\ Sample(rows, upper) <= Sample(rows, python)
      /\ Sample(rows, median) <= Sample(rows, ninety)
      /\ Sample(rows, median) <= Sample(rows, python)
  <2>1. median <= python
    BY <1>1, <1>2
  <2> QED BY <1>2, <1>4, <2>1
<1> QED BY <1>2, <1>3, <1>5 DEF n

----------------------------------------------------------------------------
(* The lake. *)

CopiesInv ==
    /\ copies \in [Findings -> Nat] /\ transforms \in [Tools -> 0..MaxTransforms]
    /\ \A f \in Findings : copies[f] <= transforms[f.tool_source]

LakeInv ==
    /\ CopiesInv /\ bronze \subseteq Findings
    /\ IsFiniteSet(mapping) /\ mapping \subseteq LinkRows
    /\ now \in Nat /\ \A rule \in rules : rule.scope \in CanonicalScopes

\* What an action does to the lake: silver only gains copies, and only a tick
\* moves the clock.
LEMMA LakeSteps ==
    ASSUME LakeInv, [GoldNext]_goldVars
    PROVE  LakeInv' /\ (\A f \in Findings : copies[f] <= copies'[f])
                    /\ (now' = now \/ (now' > now /\ copies' = copies))
<1>0. /\ CopiesInv /\ bronze \subseteq Findings /\ IsFiniteSet(mapping) /\ mapping \subseteq LinkRows
      /\ now \in Nat /\ \A rule \in rules : rule.scope \in CanonicalScopes
      /\ \A f \in Findings : copies[f] \in Nat
  BY DEF LakeInv, CopiesInv
<1> DEFINE Grows == \A f \in Findings : copies[f] <= copies'[f]
           Clock == now' = now \/ (now' > now /\ copies' = copies)
<1>1. ASSUME NEW batch \in Batches, Arrive(batch)
      PROVE  LakeInv' /\ Grows /\ Clock
  BY <1>0, <1>1, FindingsAssumption DEF Arrive, LakeInv, CopiesInv, vars
<1>2. ASSUME NEW tool \in Tools, Transform(tool)
      PROVE  LakeInv' /\ Grows /\ Clock
  <2>1. /\ transforms' = [transforms EXCEPT ![tool] = @ + 1] /\ transforms[tool] < MaxTransforms
        /\ copies' = [f \in Findings |-> IF f \in bronze /\ f.tool_source = tool
                                         THEN copies[f] + 1 ELSE copies[f]]
        /\ UNCHANGED <<rules, now, bronze, mapping>>
    BY <1>2 DEF Transform, vars
  <2>2. transforms' \in [Tools -> 0..MaxTransforms]
    BY <1>0, <2>1, FindingsAssumption DEF CopiesInv
  <2>3. \A f \in Findings : /\ copies'[f] \in Nat /\ copies[f] <= copies'[f]
                            /\ copies'[f] <= transforms'[f.tool_source]
    <3> TAKE f \in Findings
    <3>1. f.tool_source \in Tools /\ transforms[f.tool_source] \in Nat
      BY <1>0, FindingsAssumption DEF Tools, CopiesInv
    <3> QED BY <1>0, <2>1, <3>1, FindingsAssumption DEF CopiesInv
  <2>4. CopiesInv'
    BY <2>1, <2>2, <2>3 DEF CopiesInv
  <2>5. LakeInv'
    BY <1>0, <2>1, <2>4 DEF LakeInv
  <2>6. now' = now
    BY <2>1
  <2>7. Grows
    BY <2>3
  <2> HIDE DEF Grows
  <2> QED BY <2>5, <2>6, <2>7
<1>3. ASSUME NEW m \in LinkRows, Link(m)
      PROVE  LakeInv' /\ Grows /\ Clock
  <2>1. mapping' = mapping \union {m} /\ UNCHANGED <<rules, now, bronze, copies, transforms>>
    BY <1>3 DEF Link, vars
  <2>2. IsFiniteSet(mapping') /\ mapping' \subseteq LinkRows
    BY <1>0, <2>1, FS_AddElement
  <2> QED BY <1>0, <2>1, <2>2 DEF LakeInv, CopiesInv
<1>4. ASSUME NEW scope, NEW pattern, NEW days, Mute(scope, pattern, days)
      PROVE  LakeInv' /\ Grows /\ Clock
  <2>1. /\ scope \in CanonicalScopes /\ rules' = rules \union {RuleRow(scope, pattern, days)}
        /\ now' = now /\ UNCHANGED <<bronze, copies, transforms, mapping>>
    BY <1>4 DEF Mute, Insert, ValidInputs, lakeVars
  <2>2. \A rule \in rules' : rule.scope \in CanonicalScopes
    BY <1>0, <2>1 DEF RuleRow
  <2> QED BY <1>0, <2>1, <2>2 DEF LakeInv, CopiesInv
<1>5. ASSUME Tick, UNCHANGED lakeVars
      PROVE  LakeInv' /\ Grows /\ Clock
  BY <1>0, <1>5, TimeAssumption DEF Tick, lakeVars, LakeInv, CopiesInv
<1>6. ASSUME UNCHANGED goldVars
      PROVE  LakeInv' /\ Grows /\ Clock
  BY <1>0, <1>6 DEF goldVars, lakeVars, vars, LakeInv, CopiesInv
<1> HIDE DEF Grows, Clock
<1>7. LakeInv' /\ Grows /\ Clock
  BY <1>1, <1>2, <1>3, <1>4, <1>5, <1>6 DEF GoldNext
<1> QED BY <1>7 DEF Grows, Clock

\* LakeInv is an invariant.
LEMMA LakeInvariant == GoldSpec => []LakeInv
<1>1. GoldInit => LakeInv
  <2> SUFFICES ASSUME GoldInit PROVE LakeInv
    OBVIOUS
  <2>1. /\ rules = {} /\ now = 1 /\ bronze = {} /\ mapping = {}
        /\ copies = [f \in Findings |-> 0] /\ transforms = [tool \in Tools |-> 0]
    BY DEF GoldInit, Init
  <2>2. CopiesInv
    BY <2>1, FindingsAssumption DEF CopiesInv, Tools
  <2> QED BY <2>1, <2>2, FS_EmptySet DEF LakeInv
<1>2. LakeInv /\ [GoldNext]_goldVars => LakeInv'
  BY LakeSteps
<1> QED BY <1>1, <1>2, PTL DEF GoldSpec

\* S is what silver holds when there are c[f] copies of each finding f.
SilverOf(S, c) == S = {RowOf[p] : p \in {q \in DOMAIN RowOf : q[2] <= c[q[1]]}}

\* A row of silver is a numbered copy of a finding.
LEMMA SilverMeans ==
    ASSUME NEW S, NEW c, SilverOf(S, c)
    PROVE  /\ \A f \in Findings, i \in 1..MaxTransforms : i <= c[f] => Row(f, i) \in S
           /\ \A r \in S : \E f \in Findings, i \in 1..MaxTransforms : i <= c[f] /\ r = Row(f, i)
<1>1. \A f \in Findings, i \in 1..MaxTransforms :
         <<f, i>> \in DOMAIN RowOf /\ RowOf[<<f, i>>] = Row(f, i)
  BY DEF RowOf
<1>2. \A p \in DOMAIN RowOf : \E f \in Findings, i \in 1..MaxTransforms : p = <<f, i>>
  BY DEF RowOf
<1>3. S = {RowOf[p] : p \in {q \in DOMAIN RowOf : q[2] <= c[q[1]]}}
  BY DEF SilverOf
<1> HIDE DEF RowOf
<1>4. \A f \in Findings, i \in 1..MaxTransforms : i <= c[f] => Row(f, i) \in S
  BY <1>1, <1>3
<1>5. \A r \in S : \E f \in Findings, i \in 1..MaxTransforms : i <= c[f] /\ r = Row(f, i)
  BY <1>1, <1>2, <1>3
<1> QED BY <1>4, <1>5

\* That is what silver is before and after a step.
LEMMA SilverIs == SilverOf(Silver, copies) /\ SilverOf(Silver', copies')
BY DEF SilverOf, Silver

\* It has the columns of the finding, and one of its own that nothing reads.
LEMMA RowColumns ==
    ASSUME NEW f \in Findings, NEW i
    PROVE  /\ DOMAIN Row(f, i) = DOMAIN f \union {"copy"}
           /\ FindingColumns \subseteq DOMAIN f
           /\ \A column \in FindingColumns : Row(f, i)[column] = f[column]
<1>1. FindingColumns \subseteq DOMAIN f /\ "copy" \notin FindingColumns
  BY FindingsAssumption DEF FindingColumns, SelectedColumns
<1> QED BY <1>1 DEF Row

\* The columns by name.
LEMMA RowFields ==
    ASSUME NEW f \in Findings, NEW i
    PROVE  /\ Row(f, i).finding_id = f.finding_id /\ Row(f, i).tool_source = f.tool_source
           /\ Row(f, i).category = f.category /\ Row(f, i).status_canonical = f.status_canonical
           /\ Row(f, i).cwe_id = f.cwe_id /\ Row(f, i).repository_id = f.repository_id
           /\ Row(f, i).file_path = f.file_path /\ Row(f, i).rule_id_native = f.rule_id_native
           /\ Row(f, i).severity_canonical = f.severity_canonical /\ Row(f, i).cve_id = f.cve_id
           /\ Row(f, i).start_line = f.start_line /\ Row(f, i).url = f.url
           /\ Row(f, i).first_seen_at = f.first_seen_at /\ Row(f, i).last_seen_at = f.last_seen_at
BY RowColumns DEF FindingColumns, SelectedColumns

\* Silver is finite, and its times are whole numbers.
LEMMA SilverIsFinite ==
    ASSUME NEW S, NEW c, SilverOf(S, c)
    PROVE  /\ IsFiniteSet(S)
           /\ \A r \in S : r.first_seen_at \in Int /\ r.last_seen_at \in Int
<1> DEFINE D == DOMAIN RowOf
           P == {q \in D : q[2] <= c[q[1]]}
<1>1. D = Findings \X (1..MaxTransforms)
  BY DEF RowOf
<1>2. IsFiniteSet(D)
  <2>1. IsFiniteSet(1..MaxTransforms)
    <3>1. 1 \in Int /\ MaxTransforms \in Int
      BY FindingsAssumption
    <3> QED BY <3>1, FS_Interval
  <2> QED BY <1>1, <2>1, FindingsAssumption, FS_Product
<1>3. P \in SUBSET D
  OBVIOUS
<1> HIDE DEF D
<1>4. IsFiniteSet(P)
  BY <1>2, <1>3, FS_Subset
<1>5. S = {RowOf[p] : p \in P}
  BY DEF SilverOf, D
<1> HIDE DEF P
<1>6. IsFiniteSet(S)
  BY <1>4, <1>5, ImageIsFinite
<1>7. \A r \in S : r.first_seen_at \in Int /\ r.last_seen_at \in Int
  <2> TAKE r \in S
  <2>1. PICK f \in Findings, i \in 1..MaxTransforms : r = Row(f, i)
    BY SilverMeans
  <2> QED BY <2>1, RowFields, FindingsAssumption
<1> QED BY <1>6, <1>7

\* Without rules neither engine drops a row.
LEMMA NothingMuted ==
    ASSUME NEW row, NEW t
    PROVE  ~IsRowSuppressed(row, {}, t) /\ KeptBySpark(row, {}, t)
BY KeptMeans, SuppressedMeans DEF Applicable

----------------------------------------------------------------------------
(* Times to remediate. *)

\* The helper of the tests and the plan that runs differ no further than
\* MttrEnginesOrdered says, for any findings and however often each is appended.
THEOREM EnginesOrdered == GoldSpec => []MttrEnginesOrdered
<1>1. MttrEnginesOrdered
  <2> DEFINE kept  == {f \in Silver : IsResolved(f)}
             Of(g) == {f \in kept : MttrGroup(f) = g}
  <2>1. ComputeMttrRows(Silver, {}, now) =
           {[group |-> g, median_twice |-> MedianTwice(Of(g)), p90 |-> Percentile(Of(g)),
             sample_size |-> Cardinality(Of(g))] : g \in {MttrGroup(f) : f \in kept}}
    <3>1. {f \in Silver : ~IsRowSuppressed(f, {}, now) /\ IsResolved(f)} = kept
      BY NothingMuted
    <3> QED BY <3>1 DEF ComputeMttrRows
  <2>2. SparkMttr(Silver, {}, now) =
           {[group |-> g, median_twice |-> 2 * PercentileApprox(Of(g), 5),
             p90 |-> PercentileApprox(Of(g), 9),
             sample_size |-> Cardinality(Of(g))] : g \in {MttrGroup(f) : f \in kept}}
    <3>1. {f \in Silver : KeptBySpark(f, {}, now) /\ IsResolved(f)} = kept
      BY NothingMuted
    <3> QED BY <3>1 DEF SparkMttr
  <2>3. SUFFICES ASSUME NEW p \in ComputeMttrRows(Silver, {}, now),
                        NEW s \in SparkMttr(Silver, {}, now), p.group = s.group
                 PROVE  /\ s.median_twice <= p.median_twice
                        /\ p.sample_size % 2 = 1 => s.median_twice = p.median_twice
                        /\ s.p90 <= p.p90
                        /\ p.sample_size % 10 # 0 => s.p90 = p.p90
                        /\ p.median_twice <= 2 * p.p90 /\ s.median_twice <= 2 * s.p90
    BY DEF MttrEnginesOrdered
  <2>4. PICK g \in {MttrGroup(f) : f \in kept} :
           p = [group |-> g, median_twice |-> MedianTwice(Of(g)), p90 |-> Percentile(Of(g)),
                sample_size |-> Cardinality(Of(g))]
    BY <2>1, <2>3
  <2>5. PICK h \in {MttrGroup(f) : f \in kept} :
           s = [group |-> h, median_twice |-> 2 * PercentileApprox(Of(h), 5),
                p90 |-> PercentileApprox(Of(h), 9), sample_size |-> Cardinality(Of(h))]
    BY <2>2, <2>3
  <2>6. Of(g) \in SUBSET Silver /\ Of(g) # {}
    OBVIOUS
  <2>7. IsFiniteSet(Of(g)) /\ \A f \in Of(g) : MttrHours(f) \in Int
    <3>1. IsFiniteSet(Of(g))
      <4> HIDE DEF Of
      <4> QED BY <2>6, SilverIs, SilverIsFinite, FS_Subset
    <3>2. \A f \in Of(g) : f \in Silver
      OBVIOUS
    <3> QED BY <3>1, <3>2, SilverIs, SilverIsFinite DEF MttrHours
  <2>8. /\ p.median_twice = MedianTwice(Of(g)) /\ p.p90 = Percentile(Of(g))
        /\ p.sample_size = Cardinality(Of(g)) /\ s.p90 = PercentileApprox(Of(g), 9)
        /\ s.median_twice = 2 * PercentileApprox(Of(g), 5)
    BY <2>3, <2>4, <2>5
  <2> HIDE DEF Of
  <2> QED BY <2>6, <2>7, <2>8, EnginesCompare
<1> QED BY <1>1, PTL

----------------------------------------------------------------------------
(* Replays. *)

\* Two copies of one finding.
Alike(a, b) == \E f \in Findings, i, j \in 1..MaxTransforms : a = Row(f, i) /\ b = Row(f, j)

\* Sets of rows that hold copies of the same findings.
AlikeSets(S, T) == /\ \A a \in S : \E b \in T : Alike(a, b)
                   /\ \A b \in T : \E a \in S : Alike(a, b)

\* Copies agree in every column that is read, and so in their keys and links.
LEMMA AlikeColumns ==
    ASSUME NEW a, NEW b, Alike(a, b)
    PROVE  /\ \A column \in FindingColumns : a[column] = b[column]
           /\ a.tool_source = b.tool_source /\ a.category = b.category
           /\ a.severity_canonical = b.severity_canonical /\ a.finding_id = b.finding_id
           /\ a.first_seen_at = b.first_seen_at /\ a.last_seen_at = b.last_seen_at
           /\ a.repository_id = b.repository_id /\ a.cwe_id = b.cwe_id
           /\ a.status_canonical = b.status_canonical
           /\ DOMAIN a = DOMAIN b
<1>1. PICK f \in Findings, i, j \in 1..MaxTransforms : a = Row(f, i) /\ b = Row(f, j)
  BY DEF Alike
<1>2. DOMAIN a = DOMAIN b /\ \A column \in FindingColumns : a[column] = b[column]
  BY <1>1, RowColumns
<1> QED BY <1>1, <1>2, RowFields

\* The columns of the two kinds of key are columns that silver has.
LEMMA KeyColumns ==
    ASSUME NEW f
    PROVE  /\ DedupColumns(f) \subseteq FindingColumns
           /\ f.category \in DOMAIN CATEGORY_DEDUP_KEYS =>
                 CATEGORY_DEDUP_KEYS[f.category] \subseteq FindingColumns
<1>1. DedupColumns(f) \subseteq FindingColumns
  <2>1. /\ {"repository_id", "file_path", "start_line", "cwe_id"} \subseteq FindingColumns
        /\ {"repository_id", "file_path", "start_line", "tool_source", "rule_id_native"}
              \subseteq FindingColumns
        /\ {"url", "rule_id_native"} \subseteq FindingColumns /\ {"finding_id"} \subseteq FindingColumns
    BY DEF FindingColumns, SelectedColumns
  <2>2. CASE f.category = "sast" /\ f.cwe_id # Null
    BY <2>1, <2>2 DEF DedupColumns
  <2>3. CASE f.category = "sast" /\ f.cwe_id = Null
    BY <2>1, <2>3 DEF DedupColumns
  <2>4. CASE f.category = "dast"
    BY <2>1, <2>4 DEF DedupColumns
  <2>5. CASE f.category \notin {"sast", "dast"}
    BY <2>1, <2>5 DEF DedupColumns
  <2> QED BY <2>2, <2>3, <2>4, <2>5
<1>2. f.category \in DOMAIN CATEGORY_DEDUP_KEYS =>
         CATEGORY_DEDUP_KEYS[f.category] \subseteq FindingColumns
  BY DEF CATEGORY_DEDUP_KEYS, FindingColumns, SelectedColumns
<1> QED BY <1>1, <1>2

\* Copies have the same keys in both readings of the same issue.
LEMMA AlikeKeys ==
    ASSUME NEW a, NEW b, Alike(a, b)
    PROVE  /\ DedupKey(a) = DedupKey(b) /\ (Links(a) <=> Links(b))
           /\ Links(a) => OverlapKey(a) = OverlapKey(b)
<1>1. DedupColumns(a) = DedupColumns(b)
  BY AlikeColumns DEF DedupColumns
<1>2. DedupKey(a) = DedupKey(b)
  BY <1>1, AlikeColumns, KeyColumns DEF DedupKey
<1>3. ASSUME a.category \in DOMAIN CATEGORY_DEDUP_KEYS
      PROVE  /\ OverlapKey(a) = OverlapKey(b)
             /\ \A column \in DOMAIN OverlapKey(a) : a[column] = b[column]
  <2>1. a.category = b.category /\ CATEGORY_DEDUP_KEYS[a.category] \subseteq FindingColumns
    BY <1>3, AlikeColumns, KeyColumns
  <2> QED BY <2>1, AlikeColumns DEF OverlapKey
<1>4. a.category = b.category
  BY AlikeColumns
<1>5. (Links(a) <=> Links(b)) /\ (Links(a) => OverlapKey(a) = OverlapKey(b))
  <2>1. CASE a.category \in DOMAIN CATEGORY_DEDUP_KEYS
    BY <1>3, <1>4, <2>1 DEF Links
  <2>2. CASE a.category \notin DOMAIN CATEGORY_DEDUP_KEYS
    BY <1>4, <2>2 DEF Links
  <2> QED BY <2>1, <2>2
<1> QED BY <1>2, <1>5

\* No rule reads more, so copies are muted together.
LEMMA AlikeMuted ==
    ASSUME NEW a, NEW b, Alike(a, b), NEW t, \A rule \in rules : rule.scope \in CanonicalScopes
    PROVE  IsRowSuppressed(a, rules, t) <=> IsRowSuppressed(b, rules, t)
<1>1. \A rule \in rules : /\ rule.scope \in DOMAIN a <=> rule.scope \in DOMAIN b
                          /\ rule.scope \in DOMAIN a => a[rule.scope] = b[rule.scope]
  <2> SUFFICES ASSUME NEW rule \in rules
               PROVE  /\ rule.scope \in DOMAIN a <=> rule.scope \in DOMAIN b
                      /\ rule.scope \in DOMAIN a => a[rule.scope] = b[rule.scope]
    OBVIOUS
  <2>1. PICK f \in Findings, i, j \in 1..MaxTransforms : a = Row(f, i) /\ b = Row(f, j)
    BY DEF Alike
  <2>2. rule.scope # "copy"
    BY ScopesAssumption DEF SelectedColumns
  <2> QED BY <2>1, <2>2 DEF Row
<1> QED BY <1>1 DEF IsRowSuppressed

\* The keys that a set of rows links are those of its findings.
LEMMA AlikeOverlap ==
    ASSUME NEW S, NEW T, AlikeSets(S, T), NEW t, \A rule \in rules : rule.scope \in CanonicalScopes
    PROVE  ComputeOverlapRows(S, rules, t) = ComputeOverlapRows(T, rules, t)
<1> DEFINE L == Linking(S, rules, t)
           M == Linking(T, rules, t)
<1>1. AlikeSets(L, M)
  <2>1. \A a \in L : \E b \in M : Alike(a, b)
    BY AlikeMuted, AlikeKeys DEF AlikeSets, Linking
  <2>2. \A b \in M : \E a \in L : Alike(a, b)
    BY AlikeMuted, AlikeKeys DEF AlikeSets, Linking
  <2> QED BY <2>1, <2>2 DEF AlikeSets
<1>2. \A a \in L : Links(a)
  BY DEF Linking
<1>3. \A b \in M : Links(b)
  BY DEF Linking
<1> HIDE DEF L, M
<1>4. ToolPairs(L) = ToolPairs(M)
  <2> DEFINE X == {f.tool_source : f \in L}
             Y == {f.tool_source : f \in M}
  <2>1. X = Y
    BY <1>1, AlikeColumns DEF AlikeSets
  <2>2. /\ ToolPairs(L) = {{a, b} : a \in X, b \in X}
        /\ ToolPairs(M) = {{a, b} : a \in Y, b \in Y}
    BY DEF ToolPairs
  <2> HIDE DEF X, Y
  <2> QED BY <2>1, <2>2
<1>5. ASSUME NEW category, NEW tool
      PROVE  {OverlapKey(f) : f \in {g \in L : g.category = category /\ g.tool_source = tool}}
              = {OverlapKey(f) : f \in {g \in M : g.category = category /\ g.tool_source = tool}}
  <2> DEFINE A == {g \in L : g.category = category /\ g.tool_source = tool}
             B == {g \in M : g.category = category /\ g.tool_source = tool}
  <2>1. \A a \in A : \E b \in B : OverlapKey(a) = OverlapKey(b)
    <3> SUFFICES ASSUME NEW a \in A PROVE \E b \in B : OverlapKey(a) = OverlapKey(b)
      OBVIOUS
    <3>1. PICK b \in M : Alike(a, b)
      BY <1>1 DEF AlikeSets
    <3>2. b \in B
      BY <3>1, AlikeColumns
    <3> QED BY <1>2, <3>1, <3>2, AlikeKeys
  <2>2. \A b \in B : \E a \in A : OverlapKey(a) = OverlapKey(b)
    <3> SUFFICES ASSUME NEW b \in B PROVE \E a \in A : OverlapKey(a) = OverlapKey(b)
      OBVIOUS
    <3>1. PICK a \in L : Alike(a, b)
      BY <1>1 DEF AlikeSets
    <3>2. a \in A
      BY <3>1, AlikeColumns
    <3> QED BY <1>2, <3>1, <3>2, AlikeKeys
  <2> HIDE DEF A, B
  <2>3. {OverlapKey(f) : f \in A} = {OverlapKey(f) : f \in B}
    BY <2>1, <2>2
  <2> QED BY <2>3 DEF A, B
<1>6. ASSUME NEW category, NEW tools
      PROVE  LinkedPairs(L, category, tools) = LinkedPairs(M, category, tools)
  <2> DEFINE KL(tool) == {OverlapKey(f) : f \in {g \in L : g.category = category /\ g.tool_source = tool}}
             KM(tool) == {OverlapKey(f) : f \in {g \in M : g.category = category /\ g.tool_source = tool}}
  <2>1. \A tool : KL(tool) = KM(tool)
    BY <1>5
  <2>2. /\ LinkedPairs(L, category, tools) =
              {key \in UNION {KL(tool) : tool \in tools} : \A tool \in tools : key \in KL(tool)}
        /\ LinkedPairs(M, category, tools) =
              {key \in UNION {KM(tool) : tool \in tools} : \A tool \in tools : key \in KM(tool)}
    BY DEF LinkedPairs
  <2> HIDE DEF KL, KM
  <2> QED BY <2>1, <2>2
<1> DEFINE Row1(pair) == [tools |-> pair[1], category |-> pair[2],
                          linked_pair_count |-> Cardinality(LinkedPairs(L, pair[2], pair[1]))]
           Row2(pair) == [tools |-> pair[1], category |-> pair[2],
                          linked_pair_count |-> Cardinality(LinkedPairs(M, pair[2], pair[1]))]
           P1 == {p \in ToolPairs(L) \X DOMAIN CATEGORY_DEDUP_KEYS :
                    Cardinality(p[1]) = 2 /\ LinkedPairs(L, p[2], p[1]) # {}}
           P2 == {p \in ToolPairs(M) \X DOMAIN CATEGORY_DEDUP_KEYS :
                    Cardinality(p[1]) = 2 /\ LinkedPairs(M, p[2], p[1]) # {}}
<1>7. P1 = P2
  BY <1>4, <1>6
<1>8. \A pair : Row1(pair) = Row2(pair)
  BY <1>6
<1>9. /\ ComputeOverlapRows(S, rules, t) = {Row1(pair) : pair \in P1}
      /\ ComputeOverlapRows(T, rules, t) = {Row2(pair) : pair \in P2}
  BY DEF ComputeOverlapRows, L, M
<1> HIDE DEF P1, P2, Row1, Row2
<1> QED BY <1>7, <1>8, <1>9

\* The category that the rows of one key of dedup_findings have.
LEMMA KeyHasCategory ==
    ASSUME NEW a, NEW b, DedupKey(a) = DedupKey(b)
    PROVE  /\ DedupColumns(a) = DedupColumns(b)
           /\ a.category \in {"sast", "dast"} \/ b.category \in {"sast", "dast"}
                 => a.category = b.category
           /\ a.category \notin {"sast", "dast"} => a.finding_id = b.finding_id
<1>1. DedupColumns(a) = DedupColumns(b)
  <2>1. DOMAIN DedupKey(a) = DedupColumns(a) /\ DOMAIN DedupKey(b) = DedupColumns(b)
    BY DEF DedupKey
  <2> QED BY <2>1
<1>2. \A f \in {a, b} :
         /\ f.category = "sast" <=> "file_path" \in DedupColumns(f)
         /\ f.category = "dast" <=> "url" \in DedupColumns(f)
         /\ f.category \notin {"sast", "dast"} <=> "finding_id" \in DedupColumns(f)
  <2> TAKE f \in {a, b}
  <2>1. CASE f.category = "sast" /\ f.cwe_id # Null
    BY <2>1 DEF DedupColumns
  <2>2. CASE f.category = "sast" /\ f.cwe_id = Null
    BY <2>2 DEF DedupColumns
  <2>3. CASE f.category = "dast"
    BY <2>3 DEF DedupColumns
  <2>4. CASE f.category \notin {"sast", "dast"}
    BY <2>4 DEF DedupColumns
  <2> QED BY <2>1, <2>2, <2>3, <2>4
<1>3. a.category \in {"sast", "dast"} \/ b.category \in {"sast", "dast"}
         => a.category = b.category
  BY <1>1, <1>2
<1>4. ASSUME a.category \notin {"sast", "dast"}
      PROVE  a.finding_id = b.finding_id
  <2>1. "finding_id" \in DedupColumns(a)
    BY <1>2, <1>4
  <2>2. DedupKey(a)["finding_id"] = a["finding_id"] /\ DedupKey(b)["finding_id"] = b["finding_id"]
    BY <1>1, <2>1 DEF DedupKey
  <2> QED BY <2>2
<1> QED BY <1>1, <1>3, <1>4

\* Rows of one key are of one category.
LEMMA GroupHasCategory ==
    ASSUME NEW a, NEW b, NEW c, NEW d, Alike(a, c), Alike(b, d), DedupKey(a) = DedupKey(b)
    PROVE  a.category = b.category
<1>1. PICK f \in Findings, i \in 1..MaxTransforms : a = Row(f, i)
  BY DEF Alike
<1>2. PICK g \in Findings, j \in 1..MaxTransforms : b = Row(g, j)
  BY DEF Alike
<1>3. CASE a.category \in {"sast", "dast"} \/ b.category \in {"sast", "dast"}
  BY <1>3, KeyHasCategory
<1>4. CASE a.category \notin {"sast", "dast"}
  <2>1. a.finding_id = b.finding_id
    BY <1>4, KeyHasCategory
  <2>2. f.finding_id = g.finding_id
    BY <1>1, <1>2, <2>1, RowFields
  <2>3. f.category = g.category
    BY <2>2, IdsAssumption
  <2> QED BY <1>1, <1>2, <2>3, RowFields
<1> QED BY <1>3, <1>4

\* What dedup_findings makes of a table depends on its findings alone.
LEMMA AlikeDedup ==
    ASSUME NEW S, NEW T, AlikeSets(S, T)
    PROVE  DedupFindings(S) = DedupFindings(T)
<1>1. {DedupKey(f) : f \in S} = {DedupKey(f) : f \in T}
  BY AlikeKeys DEF AlikeSets
<1>2. ASSUME NEW key \in {DedupKey(f) : f \in S}
      PROVE  Collapse({f \in S : DedupKey(f) = key}) = Collapse({f \in T : DedupKey(f) = key})
  <2> DEFINE G == {f \in S : DedupKey(f) = key}
             H == {f \in T : DedupKey(f) = key}
  <2>1. (\A a \in G : \E b \in H : Alike(a, b)) /\ (\A b \in H : \E a \in G : Alike(a, b))
    <3>1. \A a \in G : \E b \in H : Alike(a, b)
      BY AlikeKeys DEF AlikeSets
    <3>2. \A b \in H : \E a \in G : Alike(a, b)
      BY AlikeKeys DEF AlikeSets
    <3> QED BY <3>1, <3>2
  <2>2. G # {} /\ H # {}
    <3>1. G # {}
      OBVIOUS
    <3> QED BY <2>1, <3>1
  <2>3. \A a \in G, b \in H : a.category = b.category
    <3> TAKE a \in G, b \in H
    <3>1. PICK c \in H : Alike(a, c)
      BY <2>1
    <3>2. PICK d \in G : Alike(d, b)
      BY <2>1
    <3>3. DedupKey(a) = DedupKey(d)
      OBVIOUS
    <3>4. a.category = d.category
      BY <3>1, <3>2, <3>3, GroupHasCategory
    <3> QED BY <3>2, <3>4, AlikeColumns
  <2> HIDE DEF G, H
  <2>4. (CHOOSE f \in G : TRUE).category = (CHOOSE f \in H : TRUE).category
    <3>1. (CHOOSE f \in G : TRUE) \in G /\ (CHOOSE f \in H : TRUE) \in H
      BY <2>2
    <3> QED BY <2>3, <3>1
  <2>5. /\ {f.tool_source : f \in G} = {f.tool_source : f \in H}
        /\ {f.severity_canonical : f \in G} = {f.severity_canonical : f \in H}
        /\ {f.first_seen_at : f \in G} = {f.first_seen_at : f \in H}
        /\ {f.last_seen_at : f \in G} = {f.last_seen_at : f \in H}
    BY <2>1, AlikeColumns
  <2>6. Collapse(G) = Collapse(H)
    BY <2>4, <2>5 DEF Collapse
  <2> QED BY <2>6 DEF G, H
<1>3. DedupFindings(S) = {[key |-> key, row |-> Collapse({f \in S : DedupKey(f) = key})] :
                             key \in {DedupKey(f) : f \in S}}
  BY DEF DedupFindings
<1>4. DedupFindings(T) = {[key |-> key, row |-> Collapse({f \in T : DedupKey(f) = key})] :
                             key \in {DedupKey(f) : f \in T}}
  BY DEF DedupFindings
<1> DEFINE K == {DedupKey(f) : f \in S}
           C1(key) == Collapse({f \in S : DedupKey(f) = key})
           C2(key) == Collapse({f \in T : DedupKey(f) = key})
<1>5. \A key \in K : C1(key) = C2(key)
  BY <1>2
<1>6. /\ DedupFindings(S) = {[key |-> key, row |-> C1(key)] : key \in K}
      /\ DedupFindings(T) = {[key |-> key, row |-> C2(key)] : key \in K}
  BY <1>1, <1>3, <1>4
<1> HIDE DEF C1, C2, K
<1> QED BY <1>5, <1>6

\* The pairs that the heatmap counts.
LEMMA SparkOpenMeans ==
    ASSUME NEW tables, NEW t
    PROVE  /\ \A f \in tables.findings : \A m \in LinksOf(f, tables.mapping) :
                 KeptBySpark(SelectedRow(f, m), tables.rules, t) /\ f.status_canonical = "open"
                    => <<f, m>> \in SparkOpen(tables, t)
           /\ \A p \in SparkOpen(tables, t) :
                 \E f \in tables.findings : \E m \in LinksOf(f, tables.mapping) :
                    /\ p = <<f, m>> /\ KeptBySpark(SelectedRow(f, m), tables.rules, t)
                    /\ f.status_canonical = "open"
<1> DEFINE J == UNION {{f} \X LinksOf(f, tables.mapping) : f \in tables.findings}
           K(p) == KeptBySpark(SelectedRow(p[1], p[2]), tables.rules, t)
<1>1. SparkOpen(tables, t) = {p \in J : K(p) /\ p[1].status_canonical = "open"}
  BY DEF SparkOpen, IsOpen
<1>2. \A f \in tables.findings : \A m \in LinksOf(f, tables.mapping) :
         /\ <<f, m>> \in J
         /\ K(<<f, m>>) <=> KeptBySpark(SelectedRow(f, m), tables.rules, t)
  OBVIOUS
<1>3. \A p \in J : \E f \in tables.findings : \E m \in LinksOf(f, tables.mapping) : p = <<f, m>>
  OBVIOUS
<1> HIDE DEF J, K
<1> QED BY <1>1, <1>2, <1>3

\* The cells of the heatmap are those of the pairs.
LEMMA CellsOf ==
    ASSUME NEW tables, NEW t
    PROVE  {r.cell : r \in SparkHeatmap(tables, t)} = {Cell(p) : p \in SparkOpen(tables, t)}
<1> DEFINE P == SparkOpen(tables, t)
           C == {Cell(p) : p \in P}
           R(c) == [cell |-> c, finding_count |-> Cardinality({p \in P : Cell(p) = c})]
<1>1. SparkHeatmap(tables, t) = {R(c) : c \in C}
  BY DEF SparkHeatmap, CountByCell
<1>2. \A c \in C : R(c).cell = c
  OBVIOUS
<1> HIDE DEF R, C, P
<1>3. {r.cell : r \in SparkHeatmap(tables, t)} = C
  BY <1>1, <1>2
<1> QED BY <1>3 DEF C, P

\* Copies of the same findings fall into the same cells.
LEMMA AlikeCells ==
    ASSUME NEW S, NEW T, \A a \in S : \E b \in T : Alike(a, b), NEW links, NEW table, NEW t
    PROVE  LET Of(X) == [findings |-> X, mapping |-> links, rules |-> table]
           IN  {r.cell : r \in SparkHeatmap(Of(S), t)} \subseteq {r.cell : r \in SparkHeatmap(Of(T), t)}
<1> DEFINE Of(X) == [findings |-> X, mapping |-> links, rules |-> table]
<1>1. \A X : {r.cell : r \in SparkHeatmap(Of(X), t)} = {Cell(p) : p \in SparkOpen(Of(X), t)}
  BY CellsOf
<1>2. \A X : Of(X).findings = X /\ Of(X).mapping = links /\ Of(X).rules = table
  OBVIOUS
<1> HIDE DEF Of
<1>3. ASSUME NEW p \in SparkOpen(Of(S), t)
      PROVE  \E q \in SparkOpen(Of(T), t) : Cell(p) = Cell(q)
  <2>0. PICK f \in S : \E m \in LinksOf(f, links) :
           /\ p = <<f, m>> /\ KeptBySpark(SelectedRow(f, m), table, t)
           /\ f.status_canonical = "open"
    BY <1>2, SparkOpenMeans
  <2>1. PICK m \in LinksOf(f, links) :
           /\ p = <<f, m>> /\ KeptBySpark(SelectedRow(f, m), table, t)
           /\ f.status_canonical = "open"
    BY <2>0
  <2>2. PICK g \in T : Alike(f, g)
    OBVIOUS
  <2>3. LinksOf(f, links) = LinksOf(g, links)
    <3>1. f.repository_id = g.repository_id
      BY <2>2, AlikeColumns
    <3>2. {k \in links : k.repository_id = f.repository_id} = {k \in links : k.repository_id = g.repository_id}
      BY <3>1
    <3> QED BY <3>2 DEF LinksOf
  <2>4. SelectedRow(f, m) = SelectedRow(g, m)
    <3>1. \A column \in SelectedColumns \union {"application_id"} :
             JoinedRow(f, m)[column] = JoinedRow(g, m)[column]
      <4> TAKE column \in SelectedColumns \union {"application_id"}
      <4>1. PICK h \in Findings, i, j \in 1..MaxTransforms : f = Row(h, i) /\ g = Row(h, j)
        BY <2>2 DEF Alike
      <4>2. column \in DOMAIN f \union {"application_id"} /\ column \in DOMAIN g \union {"application_id"}
        BY <4>1, RowColumns DEF FindingColumns
      <4>3. column # "application_id" => f[column] = g[column]
        BY <2>2, AlikeColumns DEF FindingColumns
      <4> QED BY <4>2, <4>3 DEF JoinedRow
    <3> QED BY <3>1 DEF SelectedRow
  <2>5. <<g, m>> \in SparkOpen(Of(T), t)
    BY <1>2, <2>1, <2>2, <2>3, <2>4, AlikeColumns, SparkOpenMeans
  <2>6. Cell(<<f, m>>) = Cell(<<g, m>>)
    BY <2>2, AlikeColumns DEF Cell
  <2> QED BY <2>1, <2>5, <2>6
<1>4. {Cell(p) : p \in SparkOpen(Of(S), t)} \subseteq {Cell(q) : q \in SparkOpen(Of(T), t)}
  BY <1>3
<1> QED BY <1>1, <1>4 DEF Of

\* The times of the findings of a cell of the matrix.
LastSeen(rows, repo, category) ==
    {f.last_seen_at : f \in {g \in rows : g.repository_id = repo /\ g.category = category}}

\* Copies yield the same matrix.
LEMMA AlikeCoverage ==
    ASSUME NEW S, NEW T, AlikeSets(S, T), NEW t
    PROVE  ComputeCoverageRows(S, t) = ComputeCoverageRows(T, t)
<1>1. ASSUME NEW repo, NEW category
      PROVE  LastScanAt(S, repo, category) = LastScanAt(T, repo, category)
  <2>1. LastSeen(S, repo, category) = LastSeen(T, repo, category)
    BY AlikeColumns DEF AlikeSets, LastSeen
  <2>2. \A X : LastScanAt(X, repo, category) =
                  IF LastSeen(X, repo, category) = {} THEN NeverScanned
                  ELSE CHOOSE u \in LastSeen(X, repo, category) :
                          \A v \in LastSeen(X, repo, category) : v <= u
    BY DEF LastScanAt, LastSeen
  <2> QED BY <2>1, <2>2
<1> DEFINE R(X, cell) == [repository_id |-> cell[1], category |-> cell[2],
                          last_scan_at |-> LastScanAt(X, cell[1], cell[2]),
                          is_stale |-> IsStale(LastScanAt(X, cell[1], cell[2]), t)]
<1>2. \A X : ComputeCoverageRows(X, t) = {R(X, cell) : cell \in Repositories \X CANONICAL_CATEGORIES}
  BY DEF ComputeCoverageRows
<1>3. \A cell : R(S, cell) = R(T, cell)
  BY <1>1
<1>4. /\ ComputeCoverageRows(S, t) = {R(S, cell) : cell \in Repositories \X CANONICAL_CATEGORIES}
      /\ ComputeCoverageRows(T, t) = {R(T, cell) : cell \in Repositories \X CANONICAL_CATEGORIES}
  BY <1>2
<1> HIDE DEF R
<1> QED BY <1>3, <1>4

\* A replay leaves copies of the findings that silver has, and of no others.
LEMMA ReplayIsAlike ==
    ASSUME LakeInv, [GoldNext]_goldVars, Replayed
    PROVE  AlikeSets(Silver, Silver')
<1>1. /\ \A f \in Findings : /\ copies[f] \in Nat /\ copies'[f] \in Nat
                             /\ copies[f] <= copies'[f] /\ (copies'[f] > 0 => copies[f] > 0)
      /\ MaxTransforms \in Nat
  BY LakeSteps, FindingsAssumption DEF LakeInv, CopiesInv, Replayed
<1>2. \A a \in Silver : \E b \in Silver' : Alike(a, b)
  <2> TAKE a \in Silver
  <2>1. PICK f \in Findings, i \in 1..MaxTransforms : i <= copies[f] /\ a = Row(f, i)
    BY SilverIs, SilverMeans
  <2>2. i <= copies'[f]
    BY <1>1, <2>1
  <2>3. Row(f, i) \in Silver'
    BY <2>2, SilverIs, SilverMeans
  <2> QED BY <2>1, <2>3 DEF Alike
<1>3. \A b \in Silver' : \E a \in Silver : Alike(a, b)
  <2> TAKE b \in Silver'
  <2>1. PICK f \in Findings, i \in 1..MaxTransforms : i <= copies'[f] /\ b = Row(f, i)
    BY SilverIs, SilverMeans
  <2>2. 1 \in 1..MaxTransforms /\ 1 <= copies[f]
    BY <1>1, <2>1
  <2>3. Row(f, 1) \in Silver
    BY <2>2, SilverIs, SilverMeans
  <2> QED BY <2>1, <2>2, <2>3 DEF Alike
<1> QED BY <1>2, <1>3 DEF AlikeSets

\* Appending again what silver has changes no overlap, no coverage, no cell of
\* the heatmap and nothing that dedup_findings makes of silver.
THEOREM ReplaysAddNothing == GoldSpec => ReplaysAddNoEvidence
<1>1. ASSUME LakeInv, [GoldNext]_goldVars, Replayed
      PROVE  /\ OverlapNow' = OverlapNow /\ CoverageNow' = CoverageNow
             /\ DedupFindings(Silver)' = DedupFindings(Silver)
             /\ CellsNow' = CellsNow
  <2>1. AlikeSets(Silver, Silver')
    BY <1>1, ReplayIsAlike
  <2>2. AlikeSets(Silver', Silver)
    BY <2>1 DEF AlikeSets, Alike
  <2>3. rules' = rules /\ now' = now /\ mapping' = mapping
    BY <1>1 DEF Replayed, vars
  <2>4. \A rule \in rules : rule.scope \in CanonicalScopes
    BY <1>1 DEF LakeInv
  <2>5. OverlapNow' = OverlapNow
    <3>1. ComputeOverlapRows(Silver, rules, now) = ComputeOverlapRows(Silver', rules, now)
      BY <2>1, <2>4, AlikeOverlap
    <3> QED BY <2>3, <3>1 DEF OverlapNow
  <2>6. CoverageNow' = CoverageNow
    <3>1. ComputeCoverageRows(Silver, now) = ComputeCoverageRows(Silver', now)
      BY <2>1, AlikeCoverage
    <3> QED BY <2>3, <3>1 DEF CoverageNow
  <2>7. DedupFindings(Silver)' = DedupFindings(Silver)
    BY <2>1, AlikeDedup
  <2>8. CellsNow' = CellsNow
    <3>1. {r.cell : r \in SparkHeatmap([findings |-> Silver, mapping |-> mapping, rules |-> rules], now)}
            = {r.cell : r \in SparkHeatmap([findings |-> Silver', mapping |-> mapping, rules |-> rules], now)}
      BY <2>1, <2>2, AlikeCells DEF AlikeSets
    <3> QED BY <2>3, <3>1 DEF CellsNow, Tables
  <2> QED BY <2>5, <2>6, <2>7, <2>8
<1>2. LakeInv /\ [GoldNext]_goldVars
        => [Replayed => /\ OverlapNow' = OverlapNow /\ CoverageNow' = CoverageNow
                        /\ DedupFindings(Silver)' = DedupFindings(Silver)
                        /\ CellsNow' = CellsNow]_goldVars
  BY <1>1
<1> QED BY <1>2, LakeInvariant, PTL DEF GoldSpec, ReplaysAddNoEvidence

----------------------------------------------------------------------------
(* Coverage. *)

\* The last scan of a cell is the greatest of its times, if it has any.
LEMMA LastScanMeans ==
    ASSUME NEW S, NEW c, SilverOf(S, c), NEW repo, NEW category
    PROVE  LET last == LastScanAt(S, repo, category)
               seen == LastSeen(S, repo, category)
           IN  /\ seen \subseteq Int
               /\ seen = {} => last = NeverScanned
               /\ seen # {} => last \in seen /\ last # NeverScanned /\ \A u \in seen : u <= last
<1> DEFINE seen == LastSeen(S, repo, category)
           part == {g \in S : g.repository_id = repo /\ g.category = category}
<1>1. part \in SUBSET S
  OBVIOUS
<1>2. IsFiniteSet(part) /\ \A g \in part : g.last_seen_at \in Int
  <2>1. \A g \in part : g.last_seen_at \in Int
    BY SilverIsFinite
  <2> HIDE DEF part
  <2> QED BY <1>1, <2>1, SilverIsFinite, FS_Subset
<1>3. seen = {f.last_seen_at : f \in part}
  BY DEF LastSeen
<1>4. IsFiniteSet(seen) /\ seen \subseteq Int
  <2> DEFINE h == [f \in part |-> f.last_seen_at]
  <2>1. seen = {h[f] : f \in part}
    BY <1>3
  <2>2. seen \subseteq Int
    BY <1>2, <1>3
  <2> HIDE DEF h, seen, part
  <2> QED BY <1>2, <2>1, <2>2, ImageIsFinite
<1>5. LastScanAt(S, repo, category) =
         IF seen = {} THEN NeverScanned ELSE CHOOSE u \in seen : \A v \in seen : v <= u
  BY DEF LastScanAt, LastSeen
<1> HIDE DEF seen
<1>6. seen # {} => \E u \in seen : \A v \in seen : v <= u
  BY <1>4, GreatestNumber
<1>7. seen # {} => LastScanAt(S, repo, category) \in seen
                   /\ \A u \in seen : u <= LastScanAt(S, repo, category)
  BY <1>5, <1>6
<1> QED BY <1>4, <1>5, <1>7, ThresholdAssumption DEF seen

\* The stale cells of the matrix.
LEMMA StaleMeans ==
    ASSUME NEW S, NEW t
    PROVE  {<<r.repository_id, r.category>> : r \in {c \in ComputeCoverageRows(S, t) : c.is_stale}}
            = {cell \in Repositories \X CANONICAL_CATEGORIES :
                  IsStale(LastScanAt(S, cell[1], cell[2]), t)}
<1> DEFINE D == Repositories \X CANONICAL_CATEGORIES
           last(cell) == LastScanAt(S, cell[1], cell[2])
           stale(cell) == IsStale(last(cell), t)
           R(cell) == [repository_id |-> cell[1], category |-> cell[2],
                       last_scan_at |-> last(cell), is_stale |-> stale(cell)]
<1>1. ComputeCoverageRows(S, t) = {R(cell) : cell \in D}
  BY DEF ComputeCoverageRows
<1>2. \A cell \in D : /\ <<R(cell).repository_id, R(cell).category>> = cell
                      /\ R(cell).is_stale = stale(cell)
  OBVIOUS
<1> HIDE DEF R, D, stale
<1>3. {<<r.repository_id, r.category>> : r \in {c \in ComputeCoverageRows(S, t) : c.is_stale}}
        = {cell \in D : stale(cell)}
  BY <1>1, <1>2
<1> QED BY <1>3 DEF D, stale

\* Silver has no more copies of a finding than its tool has transformed.
LEMMA CopiesAreBounded ==
    ASSUME LakeInv, LakeInv'
    PROVE  \A f \in Findings : copies[f] \in 0..MaxTransforms /\ copies'[f] \in 0..MaxTransforms
BY FindingsAssumption DEF LakeInv, CopiesInv, Tools

\* A cell is fresh exactly if a finding of it that silver holds is recent.
LEMMA FreshMeans ==
    ASSUME NEW S, NEW c, SilverOf(S, c), NEW t \in Nat, \A f \in Findings : c[f] \in 0..MaxTransforms,
           NEW cell \in Repositories \X CANONICAL_CATEGORIES
    PROVE  IsStale(LastScanAt(S, cell[1], cell[2]), t)
              <=> cell \notin FreshFrom({f \in Findings : c[f] > 0}, t)
<1> DEFINE last == LastScanAt(S, cell[1], cell[2])
           seen == LastSeen(S, cell[1], cell[2])
           held == {f \in Findings : c[f] > 0}
           Of(f) == f.repository_id = cell[1] /\ f.category = cell[2]
<1>1. /\ seen \subseteq Int /\ (seen = {} => last = NeverScanned)
      /\ (seen # {} => last \in seen /\ last # NeverScanned /\ \A u \in seen : u <= last)
  BY LastScanMeans
<1>2. ASSUME NEW u \in seen
      PROVE  \E f \in held : Of(f) /\ f.last_seen_at = u
  <2>1. PICK r \in S : r.repository_id = cell[1] /\ r.category = cell[2] /\ u = r.last_seen_at
    BY <1>2 DEF LastSeen
  <2>2. PICK f \in Findings, i \in 1..MaxTransforms : i <= c[f] /\ r = Row(f, i)
    BY SilverMeans
  <2>3. c[f] > 0
    BY <2>2, FindingsAssumption
  <2> QED BY <2>1, <2>2, <2>3, RowFields
<1>3. ASSUME NEW f \in held, Of(f)
      PROVE  f.last_seen_at \in seen /\ f.last_seen_at \in Int
  <2>1. 1 \in 1..MaxTransforms /\ 1 <= c[f]
    BY FindingsAssumption
  <2>2. Row(f, 1) \in S
    BY <2>1, SilverMeans
  <2> QED BY <1>3, <2>2, RowFields, FindingsAssumption DEF LastSeen
<1>4. cell \in FreshFrom(held, t) <=> \E f \in held : Of(f) /\ t - f.last_seen_at <= threshold_days
  <2>1. cell = <<cell[1], cell[2]>>
    OBVIOUS
  <2> HIDE DEF held
  <2> QED BY <2>1 DEF FreshFrom
<1>5. IsStale(last, t) <=> last = NeverScanned \/ last < t - threshold_days
  BY DEF IsStale
<1> HIDE DEF last, seen, held, Of
<1>6. ASSUME IsStale(last, t), NEW f \in held, Of(f), t - f.last_seen_at <= threshold_days
      PROVE  FALSE
  <2>1. f.last_seen_at \in seen /\ f.last_seen_at \in Int
    BY <1>3, <1>6
  <2>2. last \in Int /\ f.last_seen_at <= last /\ last < t - threshold_days
    BY <1>1, <1>5, <1>6, <2>1
  <2> QED BY <1>6, <2>1, <2>2, ThresholdAssumption
<1>7. ASSUME ~IsStale(last, t)
      PROVE  \E f \in held : Of(f) /\ t - f.last_seen_at <= threshold_days
  <2>1. last \in seen /\ last \in Int /\ ~(last < t - threshold_days)
    BY <1>1, <1>5, <1>7
  <2>2. PICK f \in held : Of(f) /\ f.last_seen_at = last
    BY <1>2, <2>1
  <2> QED BY <2>1, <2>2, ThresholdAssumption
<1>8. IsStale(last, t) <=> cell \notin FreshFrom(held, t)
  BY <1>4, <1>6, <1>7
<1> QED BY <1>8 DEF last, held

\* A cell becomes fresh by a recent finding of it that is new to silver alone, and
\* stale by time alone, when silver holds no recent one.
THEOREM CoverageIsEvidence == GoldSpec => CoverageFollowsEvidence
<1>1. ASSUME LakeInv, [GoldNext]_goldVars
      PROVE  /\ StaleCells \ StaleCells' \subseteq FreshFrom(HeldFindings' \ HeldFindings, now')
             /\ (StaleCells' \ StaleCells) \intersect FreshFrom(HeldFindings', now') = {}
             /\ StaleCells' \subseteq StaleCells \/ now' > now
  <2> DEFINE D == Repositories \X CANONICAL_CATEGORIES
             H == {f \in Findings : copies[f] > 0}
             K == {f \in Findings : copies'[f] > 0}
  <2>1. /\ SilverOf(Silver, copies) /\ SilverOf(Silver', copies')
        /\ now \in Nat /\ now' \in Nat /\ MaxTransforms \in Nat
        /\ \A f \in Findings : copies[f] <= copies'[f]
        /\ now' = now \/ now' > now
    BY <1>1, SilverIs, LakeSteps, FindingsAssumption DEF LakeInv, CopiesInv
  <2>2. \A f \in Findings : copies[f] \in 0..MaxTransforms /\ copies'[f] \in 0..MaxTransforms
    BY <1>1, CopiesAreBounded, LakeSteps
  <2>3. ASSUME NEW cell
        PROVE  cell \in StaleCells <=> cell \in D /\ cell \notin FreshFrom(H, now)
    <3>1. StaleCells = {x \in D : IsStale(LastScanAt(Silver, x[1], x[2]), now)}
      BY StaleMeans DEF StaleCells, CoverageNow
    <3> QED BY <2>1, <2>2, <3>1, FreshMeans
  <2>4. ASSUME NEW cell
        PROVE  cell \in StaleCells' <=> cell \in D /\ cell \notin FreshFrom(K, now')
    <3>1. StaleCells' = {x \in D : IsStale(LastScanAt(Silver', x[1], x[2]), now')}
      BY StaleMeans DEF StaleCells, CoverageNow
    <3> QED BY <2>1, <2>2, <3>1, FreshMeans
  <2>5. H \subseteq K
    BY <2>1, <2>2
  <2>6. HeldFindings = H /\ HeldFindings' = K
    BY DEF HeldFindings
  <2>7. \A f \in K : f.last_seen_at \in Int
    BY FindingsAssumption
  <2> HIDE DEF D, H, K
  <2>8. ASSUME NEW cell \in StaleCells, cell \notin StaleCells'
        PROVE  cell \in FreshFrom(K \ H, now')
    <3>1. cell \notin FreshFrom(H, now) /\ cell \in FreshFrom(K, now')
      BY <2>3, <2>4, <2>8
    <3>2. PICK f \in K : /\ now' - f.last_seen_at <= threshold_days
                        /\ cell = <<f.repository_id, f.category>>
      BY <3>1 DEF FreshFrom
    <3>3. f \notin H
      <4> SUFFICES ASSUME f \in H PROVE FALSE
        OBVIOUS
      <4>1. now - f.last_seen_at <= threshold_days
        BY <2>1, <2>7, <3>2, ThresholdAssumption
      <4> QED BY <3>1, <3>2, <4>1 DEF FreshFrom
    <3> QED BY <3>2, <3>3 DEF FreshFrom
  <2>9. ASSUME now' = now, NEW cell \in StaleCells'
        PROVE  cell \in StaleCells
    <3>1. FreshFrom(H, now) \subseteq FreshFrom(K, now')
      BY <2>5, <2>9 DEF FreshFrom
    <3> QED BY <2>3, <2>4, <2>9, <3>1
  <2>10. (StaleCells' \ StaleCells) \intersect FreshFrom(K, now') = {}
    BY <2>4
  <2>11. StaleCells' \subseteq StaleCells \/ now' > now
    BY <2>1, <2>9
  <2> QED BY <2>6, <2>8, <2>10, <2>11
<1>2. LakeInv /\ [GoldNext]_goldVars
        => [/\ StaleCells \ StaleCells' \subseteq FreshFrom(HeldFindings' \ HeldFindings, now')
            /\ (StaleCells' \ StaleCells) \intersect FreshFrom(HeldFindings', now') = {}
            /\ StaleCells' \subseteq StaleCells \/ now' > now]_goldVars
  BY <1>1
<1> QED BY <1>2, LakeInvariant, PTL DEF GoldSpec, CoverageFollowsEvidence

----------------------------------------------------------------------------
(* Overlap and deduplication. *)

\* A finding that links is collapsed under the key it is linked by.
LEMMA LinkingKeys ==
    ASSUME NEW f, Links(f), f.category \in {"sast", "dast"}
    PROVE  OverlapKey(f) = DedupKey(f)
<1>1. CASE f.category = "sast"
  <2>1. CATEGORY_DEDUP_KEYS[f.category] = {"repository_id", "file_path", "start_line", "cwe_id"}
    BY <1>1 DEF CATEGORY_DEDUP_KEYS
  <2>2. f["cwe_id"] # Null
    BY <2>1 DEF Links, OverlapKey
  <2>3. DedupColumns(f) = {"repository_id", "file_path", "start_line", "cwe_id"}
    BY <1>1, <2>2 DEF DedupColumns
  <2> QED BY <2>1, <2>3 DEF OverlapKey, DedupKey
<1>2. CASE f.category = "dast"
  <2>1. CATEGORY_DEDUP_KEYS[f.category] = {"url", "rule_id_native"}
    BY <1>2 DEF CATEGORY_DEDUP_KEYS
  <2>2. DedupColumns(f) = {"url", "rule_id_native"}
    BY <1>2 DEF DedupColumns
  <2> QED BY <2>1, <2>2 DEF OverlapKey, DedupKey
<1> QED BY <1>1, <1>2

\* A key that several tools have each reported, by rows that link.
LEMMA LinkedMeans ==
    ASSUME NEW rows, NEW category, NEW tools, tools # {}, NEW key
    PROVE  key \in LinkedPairs(rows, category, tools) <=>
              \A tool \in tools : \E f \in rows : /\ f.category = category /\ f.tool_source = tool
                                                   /\ OverlapKey(f) = key
<1> DEFINE K(tool) == {OverlapKey(f) : f \in {g \in rows : g.category = category /\ g.tool_source = tool}}
<1>1. LinkedPairs(rows, category, tools) =
         {k \in UNION {K(tool) : tool \in tools} : \A tool \in tools : k \in K(tool)}
  BY DEF LinkedPairs
<1>2. \A tool : key \in K(tool) <=>
         \E f \in rows : f.category = category /\ f.tool_source = tool /\ OverlapKey(f) = key
  OBVIOUS
<1> HIDE DEF K
<1>3. key \in LinkedPairs(rows, category, tools) <=> \A tool \in tools : key \in K(tool)
  BY <1>1
<1> QED BY <1>2, <1>3

\* The rows of one key, and what they are collapsed into.
Group(rows, key) == {f \in rows : DedupKey(f) = key}
Entry(rows, key) == [key |-> key, row |-> Collapse(Group(rows, key))]

\* An entry has the tools of its group and the category of one of its rows.
LEMMA EntryMeans ==
    ASSUME NEW rows, NEW key
    PROVE  /\ Entry(rows, key).key = key
           /\ Entry(rows, key).row.tool_sources = {f.tool_source : f \in Group(rows, key)}
           /\ Entry(rows, key).row.category = (CHOOSE f \in Group(rows, key) : TRUE).category
BY DEF Entry, Collapse

\* dedup_findings makes an entry for each key, and nothing else.
LEMMA DedupMeans ==
    ASSUME NEW rows
    PROVE  /\ \A f \in rows : Entry(rows, DedupKey(f)) \in DedupFindings(rows)
           /\ \A r \in DedupFindings(rows) : \E f \in rows : r = Entry(rows, DedupKey(f))
<1>1. DedupFindings(rows) = {Entry(rows, key) : key \in {DedupKey(f) : f \in rows}}
  BY DEF DedupFindings, Entry, Group
<1> QED BY <1>1

\* The entry of a key that a finding of sast or dast has.
LEMMA EntryOfCategory ==
    ASSUME NEW rows, NEW f \in rows, f.category \in {"sast", "dast"}
    PROVE  /\ Entry(rows, DedupKey(f)).row.category = f.category
           /\ \A g \in Group(rows, DedupKey(f)) : g.category = f.category
<1> DEFINE G == Group(rows, DedupKey(f))
<1>1. f \in G /\ \A g \in G : DedupKey(g) = DedupKey(f)
  BY DEF Group
<1> HIDE DEF G
<1>2. \A g \in G : g.category = f.category
  BY <1>1, KeyHasCategory
<1>3. (CHOOSE g \in G : TRUE) \in G
  BY <1>1
<1>4. Entry(rows, DedupKey(f)).row.category = (CHOOSE g \in G : TRUE).category
  BY EntryMeans DEF G
<1> QED BY <1>2, <1>3, <1>4 DEF G

\* An entry that has a category has rows of it.
LEMMA CategoryOfEntry ==
    ASSUME NEW rows, NEW f \in rows, Entry(rows, DedupKey(f)).row.category \in {"sast", "dast"}
    PROVE  \A g \in Group(rows, DedupKey(f)) : g.category = Entry(rows, DedupKey(f)).row.category
<1> DEFINE G == Group(rows, DedupKey(f))
<1>1. f \in G /\ \A g \in G : DedupKey(g) = DedupKey(f)
  BY DEF Group
<1>2. Entry(rows, DedupKey(f)).row.category = (CHOOSE g \in G : TRUE).category
  BY EntryMeans
<1> HIDE DEF G
<1>3. PICK h \in G : Entry(rows, DedupKey(f)).row.category = h.category
  BY <1>1, <1>2
<1>4. \A g \in G : g.category = h.category
  BY <1>1, <1>3, KeyHasCategory
<1> QED BY <1>3, <1>4 DEF G

\* A key that links tools is a key under which rows of each are collapsed,
\* whatever other rows there are beside those that link.
LEMMA LinkedIsCollapsed ==
    ASSUME NEW rows, NEW linking \in SUBSET rows, \A f \in linking : Links(f),
           NEW category \in {"sast", "dast"}, NEW tools, tools # {},
           NEW key \in LinkedPairs(linking, category, tools)
    PROVE  Entry(rows, key) \in Collapsed(rows, category, tools)
<1>0. key \in LinkedPairs(linking, category, tools) <=>
         \A tool \in tools : \E f \in linking : /\ f.category = category /\ f.tool_source = tool
                                                /\ OverlapKey(f) = key
  BY ONLY LinkedMeans
<1>1. \A tool \in tools : \E f \in linking : /\ f.category = category /\ f.tool_source = tool
                                              /\ DedupKey(f) = key
  <2> TAKE tool \in tools
  <2>0. \E f \in linking : f.category = category /\ f.tool_source = tool /\ OverlapKey(f) = key
    BY <1>0
  <2>1. PICK f \in linking : f.category = category /\ f.tool_source = tool /\ OverlapKey(f) = key
    BY <2>0
  <2>2. DedupKey(f) = key
    BY <2>1, LinkingKeys
  <2> QED BY <2>1, <2>2
<1>2. PICK f \in rows : f.category = category /\ DedupKey(f) = key
  BY <1>1
<1>3. Entry(rows, key) \in DedupFindings(rows)
  BY <1>2, DedupMeans
<1>4. Entry(rows, key).row.category = category
  BY <1>2, EntryOfCategory
<1>5. tools \subseteq {g.tool_source : g \in Group(rows, key)}
  BY <1>1 DEF Group
<1>6. tools \subseteq Entry(rows, key).row.tool_sources
  BY <1>5, EntryMeans
<1> QED BY <1>3, <1>4, <1>6 DEF Collapsed

\* Among rows that link there is nothing else that those tools are collapsed in.
LEMMA CollapsedIsLinked ==
    ASSUME NEW linking, \A f \in linking : Links(f),
           NEW category \in {"sast", "dast"}, NEW tools, tools # {},
           NEW r \in Collapsed(linking, category, tools)
    PROVE  \E key \in LinkedPairs(linking, category, tools) : r = Entry(linking, key)
<1>1. r \in DedupFindings(linking) /\ r.row.category = category /\ tools \subseteq r.row.tool_sources
  BY DEF Collapsed
<1>2. PICK f \in linking : r = Entry(linking, DedupKey(f))
  BY <1>1, DedupMeans
<1> DEFINE key == DedupKey(f)
<1>3. \A g \in Group(linking, key) : g.category = category
  BY <1>1, <1>2, CategoryOfEntry
<1>4. tools \subseteq {g.tool_source : g \in Group(linking, key)}
  BY <1>1, <1>2, EntryMeans
<1>5. \A g \in Group(linking, key) : g \in linking /\ OverlapKey(g) = key
  <2> TAKE g \in Group(linking, key)
  <2>1. g \in linking /\ DedupKey(g) = key
    BY DEF Group
  <2> QED BY <1>3, <2>1, LinkingKeys
<1> HIDE DEF key
<1>6. \A tool \in tools : \E g \in linking : /\ g.category = category /\ g.tool_source = tool
                                              /\ OverlapKey(g) = key
  BY <1>3, <1>4, <1>5
<1>7. key \in LinkedPairs(linking, category, tools)
  BY <1>6, LinkedMeans
<1> QED BY <1>2, <1>7 DEF key

\* For sast and dast two tools are linked as often as dedup_findings collapses
\* rows of both into one, where no key column is NULL, and never more often.
THEOREM OverlapIsDedup == GoldSpec => []OverlapMatchesDedup
<1>1. OverlapMatchesDedup
  <2> DEFINE L == {f \in Silver : Links(f)}
  <2>1. Linking(Silver, {}, now) = L
    BY NothingMuted DEF Linking
  <2>2. SUFFICES ASSUME NEW category \in {"sast", "dast"}, NEW tools \in ToolPairs(Silver)
                 PROVE  /\ LinkedCount(category, tools) <= Cardinality(Collapsed(Silver, category, tools))
                        /\ LinkedCount(category, tools) = Cardinality(Collapsed(L, category, tools))
    BY DEF OverlapMatchesDedup
  <2>3. tools # {}
    <3> DEFINE X == {f.tool_source : f \in Silver}
    <3>1. ToolPairs(Silver) = {{x, y} : x \in X, y \in X}
      BY DEF ToolPairs
    <3> HIDE DEF X
    <3> QED BY <3>1
  <2> DEFINE keys == LinkedPairs(L, category, tools)
             all  == Collapsed(Silver, category, tools)
             some == Collapsed(L, category, tools)
  <2>4. LinkedCount(category, tools) = Cardinality(keys)
    BY <2>1 DEF LinkedCount
  <2>5. L \in SUBSET Silver /\ L \in SUBSET L /\ \A f \in L : Links(f)
    OBVIOUS
  <2> HIDE DEF L
  <2>6. (\A key \in keys : Entry(Silver, key) \in all) /\ \A key \in keys : Entry(L, key) \in some
    BY <2>3, <2>5, LinkedIsCollapsed
  <2>7. ASSUME NEW r \in some PROVE \E key \in keys : r = Entry(L, key)
    <3>1. r \in Collapsed(L, category, tools)
      OBVIOUS
    <3>2. \E key \in LinkedPairs(L, category, tools) : r = Entry(L, key)
      BY <2>3, <2>5, <3>1, CollapsedIsLinked
    <3> QED BY <3>2
  <2>8. IsFiniteSet(all)
    <3> DEFINE h == [f \in Silver |-> Entry(Silver, DedupKey(f))]
    <3>1. IsFiniteSet({h[f] : f \in Silver})
      BY SilverIs, SilverIsFinite, ImageIsFinite
    <3>2. all \in SUBSET {h[f] : f \in Silver}
      BY DedupMeans DEF Collapsed
    <3> HIDE DEF h, all
    <3> QED BY <3>1, <3>2, FS_Subset
  <2> HIDE DEF keys, all, some
  <2>9. IsFiniteSet(keys) /\ Cardinality(keys) <= Cardinality(all)
    <3> DEFINE g == [key \in keys |-> Entry(Silver, key)]
    <3>1. g \in Injection(keys, all)
      <4>1. g \in [keys -> all] /\ \A key \in keys : g[key] = Entry(Silver, key)
        BY <2>6
      <4>2. \A key \in keys : g[key].key = key
        BY <4>1, EntryMeans
      <4> HIDE DEF g
      <4> QED BY <4>1, <4>2 DEF Injection, IsInjective
    <3> HIDE DEF g
    <3> QED BY <2>8, <3>1, FS_Injection
  <2>10. Cardinality(keys) = Cardinality(some)
    <3> DEFINE g == [key \in keys |-> Entry(L, key)]
    <3>1. g \in Injection(keys, some) /\ g \in Surjection(keys, some)
      <4>1. g \in [keys -> some] /\ \A key \in keys : g[key] = Entry(L, key)
        BY <2>6
      <4>2. \A key \in keys : g[key].key = key
        BY <4>1, EntryMeans
      <4> HIDE DEF g
      <4> QED BY <2>7, <4>1, <4>2 DEF Injection, IsInjective, Surjection
    <3> HIDE DEF g
    <3> QED BY <2>9, <3>1, FS_Surjection
  <2> QED BY <2>4, <2>9, <2>10 DEF L, all, some
<1> QED BY <1>1, PTL

----------------------------------------------------------------------------
(* Totals. *)

\* A finite set can be counted out in numbers.
LEMMA Numbered ==
    ASSUME NEW F, IsFiniteSet(F), NEW n, n = Cardinality(F)
    PROVE  \E b \in [F -> 1..n] : /\ \A p, q \in F : b[p] = b[q] => p = q
                                  /\ \A i \in 1..n : \E p \in F : b[p] = i
<1>1. n \in Nat
  BY FS_CardinalityType
<1>2. IsFiniteSet(1..n) /\ Cardinality(1..n) = n
  <2>1. 1 \in Int /\ n \in Int
    BY <1>1
  <2>2. IsFiniteSet(1..n) /\ Cardinality(1..n) = IF 1 > n THEN 0 ELSE n - 1 + 1
    BY <2>1, FS_Interval
  <2> QED BY <1>1, <2>2
<1>3. ExistsBijection(F, 1..n)
  BY <1>2, FS_SameCardinalityBij
<1>4. PICK b : b \in Bijection(F, 1..n)
  BY <1>3 DEF ExistsBijection
<1> QED BY <1>4 DEF Bijection, Injection, IsInjective, Surjection

\* The things that a row counts.
CountedIn(P, k, r) == {p \in P : k[p] = r}

\* What rows that each count some number of things count together.
CountedBy(R, n) == UNION {{r} \X (1..n[r]) : r \in R}

\* Where every thing is counted in one row, the counts of the rows together are
\* the number of things.
LEMMA TotalOfCounts ==
    ASSUME NEW P, IsFiniteSet(P), NEW R, NEW k \in [P -> R], NEW n,
           \A r \in R : n[r] = Cardinality(CountedIn(P, k, r))
    PROVE  Cardinality(CountedBy(R, n)) = Cardinality(P)
<1> DEFINE U == UNION {{r} \X (1..n[r]) : r \in R}
           F(r) == {p \in P : k[p] = r}
           Numbers(r, b) == /\ b \in [F(r) -> 1..n[r]]
                            /\ \A p, q \in F(r) : b[p] = b[q] => p = q
                            /\ \A i \in 1..n[r] : \E p \in F(r) : b[p] = i
           B == [r \in R |-> CHOOSE b : Numbers(r, b)]
<1>1. ASSUME NEW r \in R PROVE Numbers(r, B[r])
  <2>1. F(r) \in SUBSET P /\ n[r] = Cardinality(F(r))
    BY DEF CountedIn
  <2>2. \E b : Numbers(r, b)
    <3> HIDE DEF F
    <3>1. IsFiniteSet(F(r))
      BY <2>1, FS_Subset
    <3> QED BY <2>1, <3>1, Numbered
  <2> HIDE DEF Numbers
  <2> QED BY <2>2
<1>2. \A p \in P : k[p] \in R /\ p \in F(k[p])
  OBVIOUS
<1>3. \A r \in R : \A i \in 1..n[r] : <<r, i>> \in U
  OBVIOUS
<1>4. \A u \in U : \E r \in R : \E i \in 1..n[r] : u = <<r, i>>
  OBVIOUS
<1> HIDE DEF U, B
<1> DEFINE g == [p \in P |-> <<k[p], B[k[p]][p]>>]
<1>5. \A p \in P : B[k[p]][p] \in 1..n[k[p]]
  <2> TAKE p \in P
  <2>1. B[k[p]] \in [F(k[p]) -> 1..n[k[p]]] /\ p \in F(k[p])
    BY <1>1, <1>2
  <2> HIDE DEF F
  <2> QED BY <2>1
<1>6. g \in [P -> U]
  BY <1>2, <1>3, <1>5
<1>7. \A p, q \in P : g[p] = g[q] => p = q
  <2> TAKE p, q \in P
  <2>1. HAVE g[p] = g[q]
  <2>2. k[p] = k[q] /\ B[k[p]][p] = B[k[p]][q]
    BY <2>1
  <2> QED BY <1>1, <1>2, <2>2
<1>8. \A u \in U : \E p \in P : g[p] = u
  <2> TAKE u \in U
  <2>0. PICK r \in R : \E i \in 1..n[r] : u = <<r, i>>
    BY <1>4
  <2>1. PICK i \in 1..n[r] : u = <<r, i>>
    BY <2>0
  <2>2. PICK p \in F(r) : B[r][p] = i
    BY <1>1
  <2> QED BY <2>1, <2>2
<1> HIDE DEF g
<1>9. g \in Bijection(P, U)
  BY <1>6, <1>7, <1>8 DEF Bijection, Injection, IsInjective, Surjection
<1>10. ExistsBijection(P, U)
  BY <1>9 DEF ExistsBijection
<1>11. Cardinality(U) = Cardinality(P)
  BY <1>10, FS_Bijection
<1> QED BY <1>11 DEF U, CountedBy

\* The joined rows that each of the two dashboards counts for an application.
JoinedRows == UNION {{f} \X LinksOf(f, mapping) : f \in Silver}
OnHeatmap(app) == {p \in SparkOpen(Tables, now) : p[2].application_id = app}
OnPosture(app) == {p \in Surviving(Tables, now) : p[2].application_id = app /\ IsOpen(p)}

\* There are finitely many of them.
LEMMA JoinedFinite ==
    ASSUME LakeInv
    PROVE  /\ IsFiniteSet(JoinedRows)
           /\ SparkOpen(Tables, now) \in SUBSET JoinedRows
           /\ Surviving(Tables, now) \in SUBSET JoinedRows
<1> DEFINE W == Silver \X (mapping \union {Unlinked})
<1>1. IsFiniteSet(mapping \union {Unlinked}) /\ IsFiniteSet(Silver)
  BY SilverIs, SilverIsFinite, FS_AddElement DEF LakeInv
<1>2. IsFiniteSet(W)
  BY <1>1, FS_Product
<1>3. \A f : LinksOf(f, mapping) \subseteq mapping \union {Unlinked}
  BY DEF LinksOf
<1>4. JoinedRows \in SUBSET W
  BY <1>3 DEF JoinedRows
<1>5. IsFiniteSet(JoinedRows)
  <2> HIDE DEF W
  <2> QED BY <1>2, <1>4, FS_Subset
<1>6. Tables.findings = Silver /\ Tables.mapping = mapping /\ Tables.rules = rules
  BY DEF Tables
<1>7. UNION {{f} \X LinksOf(f, Tables.mapping) : f \in Tables.findings} = JoinedRows
  BY <1>6 DEF JoinedRows
<1>8. SparkOpen(Tables, now) \in SUBSET JoinedRows /\ Surviving(Tables, now) \in SUBSET JoinedRows
  BY <1>7 DEF SparkOpen, Surviving
<1> QED BY <1>5, <1>8

\* The heatmap's rows of an application count its joined rows, each once.
LEMMA HeatmapCounts ==
    ASSUME LakeInv, NEW app
    PROVE  HeatmapTotal(app) = Cardinality(OnHeatmap(app)) /\ IsFiniteSet(OnHeatmap(app))
<1> DEFINE S == SparkOpen(Tables, now)
           P == OnHeatmap(app)
           Of(c) == [cell |-> c, finding_count |-> Cardinality({p \in S : Cell(p) = c})]
           H == {Of(c) : c \in {Cell(p) : p \in S}}
           R == {h \in H : h.cell.application_id = app}
           k == [p \in P |-> Of(Cell(p))]
           n == [r \in R |-> r.finding_count]
<1>1. SparkHeatmap(Tables, now) = H
  BY DEF SparkHeatmap, CountByCell
<1>2. IsFiniteSet(P)
  <2>1. P \in SUBSET S
    BY DEF OnHeatmap
  <2> HIDE DEF P, S
  <2>2. IsFiniteSet(S)
    BY JoinedFinite, FS_Subset DEF S
  <2> QED BY <2>1, <2>2, FS_Subset
<1>3. \A p \in P : p \in S /\ Cell(p).application_id = app
  BY DEF OnHeatmap, Cell
<1>4. \A c : Of(c).cell = c /\ Of(c).finding_count = Cardinality({p \in S : Cell(p) = c})
  OBVIOUS
<1>5. \A p \in S : Of(Cell(p)) \in H
  OBVIOUS
<1>6. \A r \in H : \E p \in S : r = Of(Cell(p))
  OBVIOUS
<1>7. \A p \in S : Cell(p).application_id = app => p \in P
  BY DEF OnHeatmap, Cell
<1> HIDE DEF S, P, Of, H
<1>8. k \in [P -> R]
  BY <1>3, <1>4, <1>5
<1>9. ASSUME NEW r \in R
      PROVE  n[r] = Cardinality(CountedIn(P, k, r))
  <2>1. PICK p \in S : r = Of(Cell(p))
    BY <1>6
  <2>2. r.cell = Cell(p) /\ r.cell.application_id = app
    BY <1>4, <2>1
  <2>3. {q \in P : k[q] = r} = {q \in S : Cell(q) = r.cell}
    <3>1. ASSUME NEW q \in S, Cell(q) = r.cell PROVE q \in P /\ k[q] = r
      BY <1>7, <2>1, <2>2, <3>1
    <3>2. ASSUME NEW q \in P, k[q] = r PROVE q \in S /\ Cell(q) = r.cell
      <4>1. Of(Cell(q)) = r
        BY <3>2
      <4> QED BY <1>3, <1>4, <4>1
    <3> QED BY <3>1, <3>2
  <2> QED BY <1>4, <2>1, <2>2, <2>3 DEF CountedIn
<1>10. HeatmapTotal(app) = Cardinality(CountedBy(R, n))
  <2>1. HeatmapTotal(app) = Cardinality(UNION {{r} \X (1..r.finding_count) : r \in R})
    BY <1>1 DEF HeatmapTotal
  <2>2. {{r} \X (1..r.finding_count) : r \in R} = {{r} \X (1..n[r]) : r \in R}
    <3> HIDE DEF R
    <3> QED OBVIOUS
  <2> QED BY <2>1, <2>2 DEF CountedBy
<1> HIDE DEF R, k, n
<1>11. HeatmapTotal(app) = Cardinality(P)
  BY <1>2, <1>8, <1>9, <1>10, TotalOfCounts
<1> QED BY <1>2, <1>11 DEF P

\* The rows of app_risk_posture_daily count their open joined rows, each once.
LEMMA PostureCounts ==
    ASSUME LakeInv, NEW app
    PROVE  PostureTotal(app) = Cardinality(OnPosture(app)) /\ IsFiniteSet(OnPosture(app))
<1> DEFINE S == Surviving(Tables, now)
           P == OnPosture(app)
           Of(key) == [snapshot_date |-> now, application_id |-> key[1], severity_canonical |-> key[2],
                       open_count   |-> Tally(Bucket(S, key[1], key[2]), {OPEN_STATUS}),
                       closed_count |-> Tally(Bucket(S, key[1], key[2]), CLOSED_STATUSES)]
           OpenOf(app1, s1) == {p \in S : /\ p[2].application_id = app1
                                          /\ p[1].severity_canonical = s1 /\ IsOpen(p)}
           Key(p) == <<p[2].application_id, p[1].severity_canonical>>
           H == {Of(key) : key \in {Key(p) : p \in S}}
           R == {r \in H : r.application_id = app}
           k == [p \in P |-> Of(Key(p))]
           n == [r \in R |-> r.open_count]
<1>1. ComputePostureRows(Tables, now) = H
  BY DEF ComputePostureRows
<1>2. IsFiniteSet(P)
  <2>1. P \in SUBSET S
    BY DEF OnPosture
  <2> HIDE DEF P, S
  <2>2. IsFiniteSet(S)
    BY JoinedFinite, FS_Subset DEF S
  <2> QED BY <2>1, <2>2, FS_Subset
<1>3. \A p \in P : p \in S /\ Key(p)[1] = app
  BY DEF OnPosture
<1>4. \A app1, s1 : /\ Of(<<app1, s1>>).application_id = app1
                    /\ Of(<<app1, s1>>).severity_canonical = s1
                    /\ Of(<<app1, s1>>).open_count = Cardinality(OpenOf(app1, s1))
  <2> TAKE app1, s1
  <2>1. {p \in Bucket(S, app1, s1) : p[1].status_canonical \in {OPEN_STATUS}}
           = OpenOf(app1, s1)
    BY DEF Bucket, IsOpen, OPEN_STATUS
  <2> QED BY <2>1 DEF Tally
<1>5. \A p \in S : Of(Key(p)) \in H
  OBVIOUS
<1>6. \A r \in H : \E p \in S : r = Of(Key(p))
  OBVIOUS
<1>7. \A p \in S : p[2].application_id = app /\ IsOpen(p) <=> p \in P
  BY DEF OnPosture
<1> HIDE DEF S, P, Of, H
<1>8. k \in [P -> R]
  BY <1>3, <1>4, <1>5
<1>9. ASSUME NEW r \in R
      PROVE  n[r] = Cardinality(CountedIn(P, k, r))
  <2>1. PICK p \in S : r = Of(Key(p))
    BY <1>6
  <2> DEFINE s == p[1].severity_canonical
  <2>2. r = Of(<<app, s>>)
    BY <1>4, <2>1
  <2> HIDE DEF s
  <2>3. {q \in P : k[q] = r} = OpenOf(app, s)
    <3>1. ASSUME NEW q \in S, q[2].application_id = app, q[1].severity_canonical = s, IsOpen(q)
          PROVE  q \in P /\ k[q] = r
      BY <1>7, <2>2, <3>1
    <3>2. ASSUME NEW q \in P, k[q] = r
          PROVE  q \in S /\ q[2].application_id = app /\ q[1].severity_canonical = s /\ IsOpen(q)
      <4>1. Of(Key(q)) = r
        BY <3>2
      <4>2. q[1].severity_canonical = s
        BY <1>4, <2>2, <4>1
      <4> QED BY <1>3, <1>7, <4>2
    <3> QED BY <3>1, <3>2
  <2>4. n[r] = Cardinality(OpenOf(app, s))
    <3> HIDE DEF OpenOf
    <3> QED BY <1>4, <2>2
  <2> QED BY <2>3, <2>4 DEF CountedIn
<1>10. PostureTotal(app) = Cardinality(CountedBy(R, n))
  <2>1. PostureTotal(app) = Cardinality(UNION {{r} \X (1..r.open_count) : r \in R})
    BY <1>1 DEF PostureTotal
  <2>2. {{r} \X (1..r.open_count) : r \in R} = {{r} \X (1..n[r]) : r \in R}
    <3> HIDE DEF R
    <3> QED OBVIOUS
  <2> QED BY <2>1, <2>2 DEF CountedBy
<1> HIDE DEF R, k, n
<1>11. PostureTotal(app) = Cardinality(P)
  BY <1>2, <1>8, <1>9, <1>10, TotalOfCounts
<1> QED BY <1>2, <1>11 DEF P

\* The plan's selected row and the helper's joined row look alike to a rule.
LEMMA SameToRules ==
    ASSUME LakeInv, NEW f \in Silver, NEW m
    PROVE  /\ Applicable(SelectedRow(f, m), rules, now) = Applicable(JoinedRow(f, m), rules, now)
           /\ \A rule \in rules : SelectedRow(f, m)[rule.scope] = JoinedRow(f, m)[rule.scope]
<1>1. SelectedColumns \subseteq DOMAIN f
  <2>1. PICK g \in Findings, i \in 1..MaxTransforms : f = Row(g, i)
    BY SilverIs, SilverMeans
  <2> QED BY <2>1, RowColumns DEF FindingColumns
<1>2. \A rule \in rules : rule.scope \in SelectedColumns \union {"application_id"}
  BY ScopesAssumption DEF LakeInv
<1>3. /\ DOMAIN SelectedRow(f, m) = SelectedColumns \union {"application_id"}
      /\ DOMAIN JoinedRow(f, m) = DOMAIN f \union {"application_id"}
      /\ \A c \in SelectedColumns \union {"application_id"} : SelectedRow(f, m)[c] = JoinedRow(f, m)[c]
  BY DEF SelectedRow, JoinedRow
<1> QED BY <1>1, <1>2, <1>3 DEF Applicable

\* The heatmap never shows more open findings of an application than
\* app_risk_posture_daily, and as many where no row is NULL in the scope column
\* of an active rule, for any findings, links, rules and OWASP lists.
THEOREM HeatmapIsWithin == GoldSpec => []HeatmapWithinPosture
<1>1. LakeInv => HeatmapWithinPosture
  <2> SUFFICES ASSUME LakeInv, NEW app
               PROVE  /\ HeatmapTotal(app) <= PostureTotal(app)
                      /\ (\A f \in Silver : ~NullScoped(f)) => HeatmapTotal(app) = PostureTotal(app)
    BY DEF HeatmapWithinPosture
  <2>1. \A p \in JoinedRows : /\ p[1] \in Silver /\ p[2] \in LinksOf(p[1], mapping)
                              /\ p[2].application_id # Null
    <3> SUFFICES ASSUME NEW p \in JoinedRows
                 PROVE  /\ p[1] \in Silver /\ p[2] \in LinksOf(p[1], mapping)
                        /\ p[2].application_id # Null
      OBVIOUS
    <3>1. p[1] \in Silver /\ p[2] \in LinksOf(p[1], mapping)
      BY DEF JoinedRows
    <3>2. p[2] \in LinkRows \/ p[2] = Unlinked
      BY <3>1 DEF LinksOf, LakeInv
    <3>3. UNMAPPED # Null
      BY UnmappedAssumption, ValuesAssumption
    <3> QED BY <3>1, <3>2, <3>3, LinksAssumption DEF Unlinked
  <2>2. \A p : /\ p \in OnHeatmap(app) <=>
                     /\ p \in JoinedRows /\ KeptBySpark(SelectedRow(p[1], p[2]), rules, now)
                     /\ p[2].application_id = app /\ IsOpen(p)
               /\ p \in OnPosture(app) <=>
                     /\ p \in JoinedRows /\ ~IsRowSuppressed(JoinedRow(p[1], p[2]), rules, now)
                     /\ p[2].application_id = app /\ IsOpen(p)
    <3>1. Tables.findings = Silver /\ Tables.mapping = mapping /\ Tables.rules = rules
      BY DEF Tables
    <3>2. UNION {{f} \X LinksOf(f, Tables.mapping) : f \in Tables.findings} = JoinedRows
      BY <3>1 DEF JoinedRows
    <3> QED BY <3>1, <3>2 DEF OnHeatmap, OnPosture, SparkOpen, Surviving
  <2>3. ASSUME NEW p \in JoinedRows, KeptBySpark(SelectedRow(p[1], p[2]), rules, now)
        PROVE  ~IsRowSuppressed(JoinedRow(p[1], p[2]), rules, now)
    <3>1. p[1] \in Silver
      BY <2>1
    <3>2. \A rule \in Applicable(SelectedRow(p[1], p[2]), rules, now) :
             /\ rule \in rules
             /\ ~RuleMatchesValue(rule, SelectedRow(p[1], p[2])[rule.scope])
      BY <2>3, KeptMeans DEF Applicable
    <3>3. \A rule \in Applicable(JoinedRow(p[1], p[2]), rules, now) :
             ~RuleMatchesValue(rule, JoinedRow(p[1], p[2])[rule.scope])
      BY <3>1, <3>2, SameToRules
    <3> QED BY <3>3, SuppressedMeans
  <2>4. OnHeatmap(app) \in SUBSET OnPosture(app)
    BY <2>2, <2>3
  <2>5. ASSUME \A f \in Silver : ~NullScoped(f)
        PROVE  OnHeatmap(app) = OnPosture(app)
    <3>1. ASSUME NEW p \in JoinedRows, ~IsRowSuppressed(JoinedRow(p[1], p[2]), rules, now)
          PROVE  KeptBySpark(SelectedRow(p[1], p[2]), rules, now)
      <4> DEFINE f == p[1]
                 m == p[2]
      <4>1. f \in Silver /\ m.application_id # Null
        BY <2>1
      <4>2. \A rule \in Applicable(JoinedRow(f, m), rules, now) : JoinedRow(f, m)[rule.scope] # Null
        BY <2>5, <4>1 DEF Applicable, JoinedRow, NullScoped
      <4>3. \A rule \in Applicable(JoinedRow(f, m), rules, now) :
               rule \in rules /\ ~RuleMatchesValue(rule, JoinedRow(f, m)[rule.scope])
        BY <3>1, SuppressedMeans DEF Applicable
      <4> HIDE DEF f, m
      <4>4. \A rule \in Applicable(SelectedRow(f, m), rules, now) :
               /\ SelectedRow(f, m)[rule.scope] # Null
               /\ ~RuleMatchesValue(rule, SelectedRow(f, m)[rule.scope])
        BY <4>1, <4>2, <4>3, SameToRules
      <4>5. KeptBySpark(SelectedRow(f, m), rules, now)
        BY <4>4, KeptMeans
      <4> QED BY <4>5 DEF f, m
    <3> QED BY <2>2, <2>4, <3>1
  <2> QED BY <2>4, <2>5, HeatmapCounts, PostureCounts, FS_Subset
<1> QED BY <1>1, LakeInvariant, PTL
=============================================================================
