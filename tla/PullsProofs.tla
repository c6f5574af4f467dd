------------------------------ MODULE PullsProofs ------------------------------
(***************************************************************************)
(* What the four ways of pulling promise for any number of items, any size  *)
(* of a page and any limits.  WalkInv says where in the listing lies what   *)
(* has been pulled; MarkInv adds what the persisted mark stands for, and    *)
(* CountInv how often a version has been appended.                          *)
(***************************************************************************)
EXTENDS Pulls, FiniteSetTheorems, WellFoundedInduction, TLAPS

----------------------------------------------------------------------------
(* Sequences, the greatest of a set of times, pages. *)

\* A concatenation has the elements of its parts in order.
LEMMA ConcatMeans ==
    ASSUME NEW S, NEW a \in Seq(S), NEW b \in Seq(S)
    PROVE  /\ a \o b \in Seq(S) /\ Len(a \o b) = Len(a) + Len(b)
           /\ \A j \in 1..Len(a) : (a \o b)[j] = a[j]
           /\ \A j \in 1..Len(b) : (a \o b)[Len(a) + j] = b[j]
OBVIOUS

\* Where one element is removed, those behind it move up by one place.
LEMMA RemoveAtMeans ==
    ASSUME NEW S, NEW s \in Seq(S), NEW k \in 1..Len(s)
    PROVE  /\ RemoveAt(s, k) \in Seq(S) /\ Len(RemoveAt(s, k)) = Len(s) - 1
           /\ \A j \in 1..(Len(s) - 1) :
                 RemoveAt(s, k)[j] = IF j < k THEN s[j] ELSE s[j + 1]
<1> DEFINE a == SubSeq(s, 1, k - 1)
           b == SubSeq(s, k + 1, Len(s))
<1>0. Len(s) \in Nat /\ k \in Nat /\ 1 <= k /\ k <= Len(s)
  OBVIOUS
<1>1. a \in Seq(S) /\ Len(a) = k - 1 /\ \A j \in 1..(k - 1) : a[j] = s[j]
  OBVIOUS
<1>2. b \in Seq(S) /\ Len(b) = Len(s) - k /\ \A j \in 1..(Len(s) - k) : b[j] = s[k + j]
  OBVIOUS
<1>3. RemoveAt(s, k) = a \o b
  BY DEF RemoveAt
<1> HIDE DEF a, b
<1>4. a \o b \in Seq(S)
  BY <1>1, <1>2
<1>5. Len(a \o b) = Len(a) + Len(b)
  BY <1>1, <1>2, ConcatMeans
<1>6. Len(a \o b) = Len(s) - 1
  BY <1>0, <1>1, <1>2, <1>5
<1>7. ASSUME NEW j \in 1..(Len(s) - 1)
      PROVE  (a \o b)[j] = IF j < k THEN s[j] ELSE s[j + 1]
  <2>0. j \in 1..(Len(a) + Len(b)) /\ j \in Nat
    BY <1>0, <1>1, <1>2
  <2>1. CASE j < k
    <3>1. j \in 1..(k - 1)
      BY <1>0, <2>0, <2>1
    <3>2. (a \o b)[j] = a[j]
      BY <1>0, <1>1, <1>2, <2>0, <3>1
    <3> QED BY <1>1, <2>1, <3>1, <3>2
  <2>2. CASE ~(j < k)
    <3>1. (a \o b)[j] = b[j - (k - 1)]
      BY <1>0, <1>1, <1>2, <2>0, <2>2
    <3>2. j - (k - 1) \in 1..(Len(s) - k) /\ k + (j - (k - 1)) = j + 1
      BY <1>0, <2>0, <2>2
    <3>3. b[j - (k - 1)] = s[k + (j - (k - 1))]
      BY <1>2, <3>2
    <3> QED BY <2>2, <3>1, <3>2, <3>3
  <2> QED BY <2>1, <2>2
<1> QED BY <1>3, <1>4, <1>6, <1>7

\* A bounded set of times that is not empty has a greatest element.
LEMMA LatestMeans ==
    ASSUME NEW T \in SUBSET Nat, NEW n \in Nat, T # {}, \A t \in T : t <= n
    PROVE  Latest(T) \in T /\ \A u \in T : u <= Latest(T)
<1> DEFINE D == {d \in Nat : n - d \in T}
           R == OpToRel(<, Nat)
<1>1. D \subseteq Nat
  OBVIOUS
<1>2. D # {}
  <2>1. PICK t \in T : TRUE
    OBVIOUS
  <2>2. t \in Nat /\ t <= n
    BY <2>1
  <2>3. n - t \in Nat /\ n - (n - t) = t
    BY <2>2
  <2>4. n - t \in D
    BY <2>1, <2>3
  <2> QED BY <2>4
<1>3. \A e, d \in Nat : e < d => <<e, d>> \in R
  BY DEF OpToRel
<1>4. IsWellFoundedOn(R, Nat)
  BY NatLessThanWellFounded
<1> HIDE DEF R, D
<1>5. PICK d \in D : \A e \in D : ~(<<e, d>> \in R)
  BY <1>1, <1>2, <1>4, WFMin
<1>6. d \in Nat /\ n - d \in T
  BY DEF D
<1>7. ASSUME NEW u \in T PROVE u <= n - d
  <2>1. u \in Nat /\ u <= n
    OBVIOUS
  <2>2. n - u \in Nat /\ n - (n - u) = u
    BY <2>1
  <2>3. n - u \in D
    BY <2>2 DEF D
  <2>4. ~(n - u < d)
    BY <1>3, <1>5, <1>6, <2>2, <2>3
  <2> QED BY <1>6, <2>1, <2>2, <2>4
<1> QED BY <1>6, <1>7 DEF Latest

\* PageCount rounds up: as many pages hold all the items.
LEMMA PageCountCovers ==
    ASSUME NEW total \in Nat
    PROVE  /\ PageCount(total) \in Nat /\ total <= PageCount(total) * PageSize
           /\ total > PageSize => PageCount(total) >= 2
<1> DEFINE n == total + PageSize - 1
           q == n \div PageSize
           r == n % PageSize
<1>1. PageSize \in Nat /\ PageSize > 0 /\ n \in Nat
  BY SizesAssumption
<1>2. q \in Nat /\ r \in Nat /\ r < PageSize /\ n = (q * PageSize) + r
  BY <1>1
<1>0. PageCount(total) = q
  BY DEF PageCount
<1> HIDE DEF q, r
<1>3. (q * PageSize) \in Nat
  BY <1>1, <1>2
<1>4. total <= q * PageSize
  BY <1>1, <1>2, <1>3
<1>5. ASSUME total > PageSize PROVE q >= 2
  <2>1. CASE q = 0
    BY <1>1, <1>2, <1>4, <1>5, <2>1
  <2>2. CASE q = 1
    BY <1>1, <1>2, <1>4, <1>5, <2>2
  <2> QED BY <1>2, <2>1, <2>2
<1> QED BY <1>0, <1>2, <1>4, <1>5

\* The elements of a concatenation.
LEMMA ConcatToSet ==
    ASSUME NEW S, NEW a \in Seq(S), NEW b \in Seq(S)
    PROVE  ToSet(a \o b) = ToSet(a) \union ToSet(b)
<1> DEFINE c == a \o b
<1>1. /\ Len(a) \in Nat /\ Len(b) \in Nat /\ DOMAIN a = 1..Len(a) /\ DOMAIN b = 1..Len(b)
      /\ DOMAIN c = 1..(Len(a) + Len(b))
      /\ \A j \in 1..Len(a) : c[j] = a[j]
      /\ \A j \in 1..Len(b) : c[Len(a) + j] = b[j]
  BY ConcatMeans
<1> HIDE DEF c
<1>2. ASSUME NEW j \in DOMAIN c PROVE c[j] \in ToSet(a) \union ToSet(b)
  <2>1. CASE j <= Len(a)
    BY <1>1, <2>1 DEF ToSet
  <2>2. CASE ~(j <= Len(a))
    <3>1. j - Len(a) \in 1..Len(b) /\ Len(a) + (j - Len(a)) = j
      BY <1>1, <2>2
    <3>2. c[j] = b[j - Len(a)]
      BY <1>1, <3>1
    <3> QED BY <1>1, <3>1, <3>2 DEF ToSet
  <2> QED BY <2>1, <2>2
<1>3. ASSUME NEW j \in DOMAIN a PROVE a[j] \in ToSet(c)
  <2>1. j \in DOMAIN c
    BY <1>1
  <2> QED BY <1>1, <2>1 DEF ToSet
<1>4. ASSUME NEW j \in DOMAIN b PROVE b[j] \in ToSet(c)
  <2>1. Len(a) + j \in DOMAIN c
    BY <1>1
  <2> QED BY <1>1, <2>1 DEF ToSet
<1>5. ToSet(c) \subseteq ToSet(a) \union ToSet(b)
  BY <1>2 DEF ToSet
<1>6. ToSet(a) \subseteq ToSet(c) /\ ToSet(b) \subseteq ToSet(c)
  BY <1>3, <1>4 DEF ToSet
<1> QED BY <1>5, <1>6 DEF c

\* Sequences without repetition and in common have no repetition together.
LEMMA ConcatInjective ==
    ASSUME NEW S, NEW a \in Seq(S), NEW b \in Seq(S), IsInjective(a), IsInjective(b),
           \A x \in DOMAIN a : \A y \in DOMAIN b : a[x] # b[y]
    PROVE  IsInjective(a \o b)
<1> DEFINE c == a \o b
<1>1. /\ Len(a) \in Nat /\ Len(b) \in Nat /\ DOMAIN a = 1..Len(a) /\ DOMAIN b = 1..Len(b)
      /\ DOMAIN c = 1..(Len(a) + Len(b))
      /\ \A j \in 1..Len(a) : c[j] = a[j]
      /\ \A j \in 1..Len(b) : c[Len(a) + j] = b[j]
  BY ConcatMeans
<1> HIDE DEF c
<1>2. ASSUME NEW j \in DOMAIN c, ~(j <= Len(a))
      PROVE  j - Len(a) \in DOMAIN b /\ c[j] = b[j - Len(a)]
  <2>1. j - Len(a) \in 1..Len(b) /\ Len(a) + (j - Len(a)) = j
    BY <1>1, <1>2
  <2> QED BY <1>1, <2>1
<1>3. ASSUME NEW j \in DOMAIN c, j <= Len(a)
      PROVE  j \in DOMAIN a /\ c[j] = a[j]
  BY <1>1, <1>3
<1>4. ASSUME NEW x \in DOMAIN c, NEW y \in DOMAIN c, c[x] = c[y]
      PROVE  x = y
  <2>1. CASE x <= Len(a) /\ y <= Len(a)
    BY <1>3, <1>4, <2>1 DEF IsInjective
  <2>2. CASE ~(x <= Len(a)) /\ ~(y <= Len(a))
    <3>1. x - Len(a) = y - Len(a)
      BY <1>2, <1>4, <2>2 DEF IsInjective
    <3> QED BY <1>1, <3>1
  <2>3. CASE x <= Len(a) /\ ~(y <= Len(a))
    BY <1>2, <1>3, <1>4, <2>3
  <2>4. CASE ~(x <= Len(a)) /\ y <= Len(a)
    BY <1>2, <1>3, <1>4, <2>4
  <2> QED BY <2>1, <2>2, <2>3, <2>4
<1> QED BY <1>4 DEF IsInjective, c

\* The positions before page p.
Before(p) == (p - 1) * PageSize

\* A page ends where the next begins.
LEMMA PagesAdjoin ==
    ASSUME NEW p \in Nat \ {0}
    PROVE  /\ Before(p) \in Nat /\ p * PageSize = Before(p) + PageSize
           /\ Before(p + 1) = Before(p) + PageSize /\ Before(1) = 0
           /\ PageSize \in Nat /\ PageSize > 0
<1>1. PageSize \in Nat /\ PageSize > 0
  BY SizesAssumption
<1>2. (p - 1) * PageSize \in Nat
  BY <1>1
<1>3. (p - 1) * PageSize + PageSize = p * PageSize
  BY <1>1
<1>4. p + 1 - 1 = p
  OBVIOUS
<1>5. (1 - 1) * PageSize = 0
  BY <1>1
<1> QED BY <1>1, <1>2, <1>3, <1>4, <1>5 DEF Before

\* The elements of a part of a sequence.
LEMMA SliceMeans ==
    ASSUME NEW S, NEW s \in Seq(S), NEW b \in Nat, NEW e \in Nat, e <= Len(s)
    PROVE  LET t == SubSeq(s, b + 1, e)
           IN  /\ t \in Seq(S) /\ Len(t) = IF b <= e THEN e - b ELSE 0
               /\ \A j \in Nat : b < j /\ j <= e => j - b \in DOMAIN t /\ t[j - b] = s[j]
               /\ \A m \in DOMAIN t : /\ m \in Nat \ {0} /\ b + m \in DOMAIN s
                                      /\ b + m <= e /\ t[m] = s[b + m]
<1> DEFINE t == SubSeq(s, b + 1, e)
<1>0. Len(s) \in Nat /\ DOMAIN s = 1..Len(s)
  OBVIOUS
<1>1. CASE b <= e
  <2>1. t \in Seq(S) /\ Len(t) = e - b /\ \A m \in 1..(e - b) : t[m] = s[b + m]
    BY <1>0, <1>1
  <2>2. DOMAIN t = 1..(e - b)
    BY <2>1, <1>1
  <2> HIDE DEF t
  <2>3. ASSUME NEW j \in Nat, b < j, j <= e
        PROVE  j - b \in DOMAIN t /\ t[j - b] = s[j]
    <3>1. j - b \in 1..(e - b) /\ b + (j - b) = j
      BY <1>1, <2>3
    <3> QED BY <2>1, <2>2, <3>1
  <2>4. ASSUME NEW m \in DOMAIN t
        PROVE  /\ m \in Nat \ {0} /\ b + m \in DOMAIN s
               /\ b + m <= e /\ t[m] = s[b + m]
    BY <1>0, <1>1, <2>1, <2>2
  <2> QED BY <1>1, <2>1, <2>3, <2>4 DEF t
<1>2. CASE ~(b <= e)
  <2>1. t = <<>>
    BY <1>0, <1>2
  <2> HIDE DEF t
  <2>2. t \in Seq(S) /\ DOMAIN t = {} /\ Len(t) = 0
    BY <2>1
  <2>3. \A j \in Nat : ~(b < j /\ j <= e)
    BY <1>2
  <2> QED BY <1>2, <2>2, <2>3 DEF t
<1> QED BY <1>1, <1>2

\* The elements of a page and their positions; a short page is the last.
LEMMA PageOfMeans ==
    ASSUME listing \in Seq(Items), NEW p \in Nat \ {0}
    PROVE  /\ PageOf(p) \in Seq(Items)
           /\ \A j \in DOMAIN listing :
                 Before(p) < j /\ j <= Before(p + 1) =>
                    j - Before(p) \in DOMAIN PageOf(p) /\ PageOf(p)[j - Before(p)] = listing[j]
           /\ \A m \in DOMAIN PageOf(p) :
                 /\ m \in Nat \ {0} /\ Before(p) + m \in DOMAIN listing
                 /\ Before(p) + m <= Before(p + 1) /\ PageOf(p)[m] = listing[Before(p) + m]
           /\ Len(PageOf(p)) < PageSize => Len(listing) <= Before(p + 1)
<1> DEFINE b == Before(p)
           n == Len(listing)
           t == PageOf(p)
<1>1. /\ b \in Nat /\ PageSize \in Nat /\ PageSize > 0 /\ Before(p + 1) = b + PageSize
      /\ p * PageSize = b + PageSize
  BY PagesAdjoin
<1>2. n \in Nat /\ DOMAIN listing = 1..n
  OBVIOUS
<1>3. t = SubSeq(listing, b + 1, IF b + PageSize < n THEN b + PageSize ELSE n)
  BY <1>1 DEF PageOf, Before
<1> HIDE DEF b, n, t
<1>4. PICK e \in Nat : /\ t = SubSeq(listing, b + 1, e) /\ e <= n /\ e <= b + PageSize
                       /\ e = b + PageSize \/ e = n
  <2>1. CASE b + PageSize < n
    <3>1. b + PageSize \in Nat /\ b + PageSize <= n /\ b + PageSize <= b + PageSize
      BY <1>1, <1>2, <2>1
    <3> QED BY <1>3, <2>1, <3>1
  <2>2. CASE ~(b + PageSize < n)
    <3>1. n <= b + PageSize /\ n <= n
      BY <1>1, <1>2, <2>2
    <3> QED BY <1>2, <1>3, <2>2, <3>1
  <2> QED BY <2>1, <2>2
<1>5. /\ t \in Seq(Items) /\ Len(t) = IF b <= e THEN e - b ELSE 0
      /\ \A j \in Nat : b < j /\ j <= e => j - b \in DOMAIN t /\ t[j - b] = listing[j]
      /\ \A m \in DOMAIN t : /\ m \in Nat \ {0} /\ b + m \in DOMAIN listing
                             /\ b + m <= e /\ t[m] = listing[b + m]
  BY <1>1, <1>4, SliceMeans DEF n
<1>6. ASSUME NEW j \in DOMAIN listing, b < j, j <= b + PageSize
      PROVE  j - b \in DOMAIN t /\ t[j - b] = listing[j]
  <2>1. j \in Nat /\ j <= e
    BY <1>1, <1>2, <1>4, <1>6
  <2> QED BY <1>5, <1>6, <2>1
<1>7. ASSUME NEW m \in DOMAIN t PROVE b + m <= b + PageSize
  BY <1>1, <1>4, <1>5
<1>8. Len(t) < PageSize => n <= b + PageSize
  BY <1>1, <1>2, <1>4, <1>5
<1> QED BY <1>1, <1>5, <1>6, <1>7, <1>8 DEF b, n, t

----------------------------------------------------------------------------
(* The invariant. *)

\* Types, and that what is listed or has been pulled exists.
Sane ==
    /\ listing \in Seq(Items) /\ IsInjective(listing)
    /\ updated \in [Items -> 0..MaxTime] /\ clock \in 1..MaxTime
    /\ \A i \in ToSet(listing) : updated[i] # 0
    /\ page \in Nat \ {0}
    /\ pulled \in Seq(Items) /\ \A i \in ToSet(pulled) : updated[i] # 0

\* What stands still and has been passed has been pulled; SonarQube's walk ends
\* behind it.
Passed ==
    /\ standing \subseteq ToSet(listing)
    /\ phase = "paging" =>
          \A j \in DOMAIN listing :
             j <= Before(page) /\ listing[j] \in standing => listing[j] \in ToSet(pulled)
    /\ phase = "paging" /\ connector = "sonarqube" /\ page > 1 =>
          \A j \in DOMAIN listing : listing[j] \in standing => j <= last * PageSize
    /\ phase = "save" => standing \subseteq ToSet(pulled)

\* Where nothing moves to the front, what has been pulled lies before the page.
Once ==
    /\ connector = "artefacts" /\ phase = "paging" => page = 1
    /\ connector # "gitlab" =>
          /\ IsInjective(pulled)
          /\ phase = "paging" =>
                \A j \in DOMAIN listing : listing[j] \in ToSet(pulled) => j <= Before(page)

WalkInv == Sane /\ Passed /\ Once

\* Before the first run there is nothing to miss.
LEMMA InitWalkInv == Init => WalkInv
<1> SUFFICES ASSUME Init PROVE WalkInv
  OBVIOUS
<1>1. listing = <<>> /\ pulled = <<>> /\ <<>> \in Seq(Items) /\ DOMAIN <<>> = {}
  BY DEF Init
<1>2. ToSet(listing) = {} /\ ToSet(pulled) = {}
  BY <1>1 DEF ToSet
<1>3. Sane
  BY <1>1, <1>2, BoundsAssumption DEF Init, Sane, IsInjective
<1>4. Passed /\ Once
  BY <1>1, <1>2 DEF Init, Passed, Once, IsInjective
<1> QED BY <1>3, <1>4 DEF WalkInv

\* What a step of the source does to positions: nothing that stands still comes
\* nearer to the front, nor, without GitLab's order, does anything go back.
LEMMA SourceStep ==
    ASSUME WalkInv,
           listing' \in Seq(Items), IsInjective(listing)', UNCHANGED <<phase, connector>>,
           updated' \in [Items -> 0..MaxTime], clock' \in 1..MaxTime,
           \A i \in ToSet(listing)' \union ToSet(pulled) : updated'[i] # 0,
           UNCHANGED <<page, last, pulled>>,
           standing' \subseteq standing, standing' \subseteq ToSet(listing)',
           \A j \in DOMAIN listing' :
              listing'[j] \in standing' =>
                 \E h \in DOMAIN listing : h <= j /\ listing[h] = listing'[j],
           connector # "gitlab" =>
              \A j \in DOMAIN listing' :
                 /\ listing'[j] \in standing' => j \in DOMAIN listing /\ listing'[j] = listing[j]
                 /\ listing'[j] \in ToSet(pulled) =>
                       \E h \in DOMAIN listing : j <= h /\ listing[h] = listing'[j]
    PROVE  WalkInv'
<1> USE DEF WalkInv
<1>a. /\ DOMAIN listing = 1..Len(listing) /\ Len(listing) \in Nat
      /\ DOMAIN listing' = 1..Len(listing') /\ Len(listing') \in Nat
  BY DEF Sane
<1>b. Before(page) \in Nat /\ Before(page)' = Before(page)
  BY PagesAdjoin DEF Sane, Before
<1>0. /\ DOMAIN listing \subseteq Nat /\ DOMAIN listing' \subseteq Nat
      /\ Before(page) \in Nat /\ Before(page)' = Before(page) /\ ToSet(pulled)' = ToSet(pulled)
  BY <1>a, <1>b DEF ToSet
<1>1. Sane'
  BY <1>0 DEF Sane
<1>2. Passed'
  <2>1. ASSUME phase = "paging", NEW j \in DOMAIN listing', j <= Before(page),
               listing'[j] \in standing'
        PROVE  listing'[j] \in ToSet(pulled)
    <3>1. PICK h \in DOMAIN listing : h <= j /\ listing[h] = listing'[j]
      BY <2>1
    <3>2. h <= Before(page)
      BY <1>0, <2>1, <3>1
    <3> QED BY <2>1, <3>1, <3>2 DEF Passed
  <2>2. ASSUME phase = "paging", connector = "sonarqube", page > 1,
               NEW j \in DOMAIN listing', listing'[j] \in standing'
        PROVE  j <= last * PageSize
    BY <2>2 DEF Passed
  <2>3. phase = "save" => standing' \subseteq ToSet(pulled)
    BY DEF Passed
  <2> QED BY <1>0, <2>1, <2>2, <2>3 DEF Passed
<1>3. Once'
  <2>1. ASSUME connector # "gitlab", phase = "paging", NEW j \in DOMAIN listing',
               listing'[j] \in ToSet(pulled)
        PROVE  j <= Before(page)
    <3>1. PICK h \in DOMAIN listing : j <= h /\ listing[h] = listing'[j]
      BY <2>1
    <3>2. h <= Before(page)
      BY <2>1, <3>1 DEF Once
    <3> QED BY <1>0, <3>1, <3>2
  <2> QED BY <1>0, <2>1 DEF Once
<1> QED BY <1>1, <1>2, <1>3

\* The listing without one of its items.
LEMMA WithoutMeans ==
    ASSUME listing \in Seq(Items), IsInjective(listing), NEW i, Contains(listing, i)
    PROVE  /\ Without(i) \in Seq(Items) /\ IsInjective(Without(i))
           /\ ToSet(Without(i)) = ToSet(listing) \ {i}
           /\ \A j \in DOMAIN Without(i) :
                 /\ \E h \in DOMAIN listing : j <= h /\ listing[h] = Without(i)[j]
                 /\ \E h \in DOMAIN listing : h <= j + 1 /\ listing[h] = Without(i)[j]
<1> DEFINE k == CHOOSE k \in DOMAIN listing : listing[k] = i
           w == Without(i)
           n == Len(listing)
<1>1. k \in DOMAIN listing /\ listing[k] = i
  BY DEF Contains
<1>2. n \in Nat /\ DOMAIN listing = 1..n
  OBVIOUS
<1>3. w = RemoveAt(listing, k)
  BY DEF Without
<1> HIDE DEF k, w
<1>4. /\ w \in Seq(Items) /\ Len(w) = n - 1
      /\ \A j \in 1..(n - 1) : w[j] = IF j < k THEN listing[j] ELSE listing[j + 1]
  BY <1>1, <1>2, <1>3, RemoveAtMeans
<1> HIDE DEF n
<1>5. DOMAIN w = 1..(n - 1)
  BY <1>1, <1>2, <1>4
<1>6. ASSUME NEW j \in DOMAIN w
      PROVE  \E h \in DOMAIN listing : /\ j <= h /\ h <= j + 1 /\ listing[h] = w[j] /\ h # k
                                       /\ h = IF j < k THEN j ELSE j + 1
  <2>1. j \in Nat /\ j \in DOMAIN listing /\ j + 1 \in DOMAIN listing
    BY <1>2, <1>5
  <2>2. k \in Nat
    BY <1>1, <1>2
  <2>3. CASE j < k
    BY <1>4, <1>5, <2>1, <2>2, <2>3
  <2>4. CASE ~(j < k)
    BY <1>4, <1>5, <2>1, <2>2, <2>4
  <2> QED BY <2>3, <2>4
<1>7. IsInjective(w)
  <2> SUFFICES ASSUME NEW x \in DOMAIN w, NEW y \in DOMAIN w, w[x] = w[y] PROVE x = y
    BY DEF IsInjective
  <2>1. PICK h \in DOMAIN listing : listing[h] = w[x] /\ h = IF x < k THEN x ELSE x + 1
    BY <1>6
  <2>2. PICK g \in DOMAIN listing : listing[g] = w[y] /\ g = IF y < k THEN y ELSE y + 1
    BY <1>6
  <2>3. h = g
    BY <2>1, <2>2 DEF IsInjective
  <2>4. x \in Nat /\ y \in Nat /\ k \in Nat
    BY <1>1, <1>2, <1>5
  <2> QED BY <2>1, <2>2, <2>3, <2>4
<1>8. ToSet(w) \subseteq ToSet(listing) \ {i}
  <2> SUFFICES ASSUME NEW j \in DOMAIN w PROVE w[j] \in ToSet(listing) \ {i}
    BY DEF ToSet
  <2>1. PICK h \in DOMAIN listing : listing[h] = w[j] /\ h # k
    BY <1>6
  <2> QED BY <1>1, <2>1 DEF ToSet, IsInjective
<1>9. ToSet(listing) \ {i} \subseteq ToSet(w)
  <2> SUFFICES ASSUME NEW h \in DOMAIN listing, listing[h] # i PROVE listing[h] \in ToSet(w)
    BY DEF ToSet
  <2>0. h \in Nat /\ k \in Nat /\ h # k /\ h <= n /\ 1 <= h /\ 1 <= k /\ k <= n
    BY <1>1, <1>2
  <2>1. CASE h < k
    <3>1. h \in 1..(n - 1)
      BY <1>2, <2>0, <2>1
    <3>2. w[h] = listing[h]
      BY <1>4, <2>1, <3>1
    <3> QED BY <1>5, <3>1, <3>2 DEF ToSet
  <2>2. CASE h > k
    <3>1. h - 1 \in 1..(n - 1) /\ ~(h - 1 < k) /\ (h - 1) + 1 = h
      BY <1>2, <2>0, <2>2
    <3>2. w[h - 1] = listing[h]
      BY <1>4, <3>1
    <3> QED BY <1>5, <3>1, <3>2 DEF ToSet
  <2> QED BY <2>0, <2>1, <2>2
<1>10. w \in Seq(Items) /\ IsInjective(w) /\ ToSet(w) = ToSet(listing) \ {i}
  BY <1>4, <1>7, <1>8, <1>9
<1>11. \A j \in DOMAIN w : /\ \E h \in DOMAIN listing : j <= h /\ listing[h] = w[j]
                           /\ \E h \in DOMAIN listing : h <= j + 1 /\ listing[h] = w[j]
  BY <1>6
<1> QED BY <1>10, <1>11 DEF w

\* An element put in front moves the others back by one place.
LEMMA PutInFront ==
    ASSUME NEW S, NEW s \in Seq(S), NEW i \in S, IsInjective(s), ~(i \in ToSet(s))
    PROVE  LET t == <<i>> \o s
           IN  /\ t \in Seq(S) /\ IsInjective(t) /\ ToSet(t) = {i} \union ToSet(s)
               /\ \A j \in DOMAIN t :
                     j \in Nat /\ (t[j] = i \/ (j - 1 \in DOMAIN s /\ t[j] = s[j - 1]))
<1> DEFINE a == <<i>>
           t == a \o s
<1>1. a \in Seq(S) /\ Len(a) = 1 /\ DOMAIN a = 1..1 /\ a[1] = i
  OBVIOUS
<1>2. IsInjective(a) /\ ToSet(a) = {i}
  BY <1>1 DEF IsInjective, ToSet
<1>3. Len(s) \in Nat /\ DOMAIN s = 1..Len(s)
  OBVIOUS
<1> HIDE DEF a
<1>4. IsInjective(t)
  BY <1>1, <1>2, ConcatInjective DEF ToSet
<1>5. ToSet(t) = {i} \union ToSet(s)
  BY <1>1, <1>2, ConcatToSet
<1>6. /\ t \in Seq(S) /\ Len(t) = 1 + Len(s)
      /\ t[1] = i /\ \A j \in 1..Len(s) : t[1 + j] = s[j]
  <2>1. /\ t \in Seq(S) /\ Len(t) = Len(a) + Len(s)
        /\ \A j \in 1..Len(a) : t[j] = a[j]
        /\ \A j \in 1..Len(s) : t[Len(a) + j] = s[j]
    BY <1>1, ConcatMeans
  <2> HIDE DEF t
  <2> QED BY <1>1, <2>1
<1> HIDE DEF t
<1>7. ASSUME NEW j \in DOMAIN t
      PROVE  j \in Nat /\ (t[j] = i \/ (j - 1 \in DOMAIN s /\ t[j] = s[j - 1]))
  <2>1. j \in 1..(1 + Len(s))
    BY <1>6
  <2>2. CASE j = 1
    BY <1>6, <2>2
  <2>3. CASE j # 1
    <3>1. j - 1 \in 1..Len(s) /\ 1 + (j - 1) = j /\ j \in Nat
      BY <1>3, <2>1, <2>3
    <3> QED BY <1>3, <1>6, <3>1
  <2> QED BY <2>2, <2>3
<1> QED BY <1>4, <1>5, <1>6, <1>7 DEF a, t

\* An element put last moves no other.
LEMMA PutLast ==
    ASSUME NEW S, NEW s \in Seq(S), NEW i \in S, IsInjective(s), ~(i \in ToSet(s))
    PROVE  LET t == Append(s, i)
           IN  /\ t \in Seq(S) /\ IsInjective(t) /\ ToSet(t) = {i} \union ToSet(s)
               /\ \A j \in DOMAIN t :
                     j \in Nat /\ (t[j] = i \/ (j \in DOMAIN s /\ t[j] = s[j]))
<1> DEFINE t == Append(s, i)
<1>1. Len(s) \in Nat /\ DOMAIN s = 1..Len(s)
  OBVIOUS
<1>2. /\ t \in Seq(S) /\ Len(t) = Len(s) + 1 /\ DOMAIN t = 1..(Len(s) + 1)
      /\ t[Len(s) + 1] = i /\ \A j \in 1..Len(s) : t[j] = s[j]
  OBVIOUS
<1> HIDE DEF t
<1>3. ASSUME NEW j \in DOMAIN t
      PROVE  j \in Nat /\ (j = Len(s) + 1 \/ (j \in DOMAIN s /\ t[j] = s[j]))
  BY <1>1, <1>2
<1>4. IsInjective(t)
  <2> SUFFICES ASSUME NEW x \in DOMAIN t, NEW y \in DOMAIN t, t[x] = t[y] PROVE x = y
    BY DEF IsInjective
  <2> QED BY <1>2, <1>3 DEF IsInjective, ToSet
<1>5. ToSet(t) = {i} \union ToSet(s)
  <2>1. Len(s) + 1 \in DOMAIN t
    BY <1>1, <1>2
  <2>2. \A j \in DOMAIN s : j \in DOMAIN t /\ t[j] = s[j]
    BY <1>1, <1>2
  <2> QED BY <1>2, <1>3, <2>1, <2>2 DEF ToSet
<1> QED BY <1>2, <1>3, <1>4, <1>5 DEF t

----------------------------------------------------------------------------
(* The steps of the source. *)

\* A new item is put last or in front, and has not been pulled.
LEMMA CreateStep ==
    ASSUME WalkInv, NEW i \in Items, Create(i)
    PROVE  WalkInv'
<1> USE DEF WalkInv
<1>0. /\ listing \in Seq(Items) /\ IsInjective(listing)
      /\ ~(i \in ToSet(listing)) /\ ~(i \in ToSet(pulled)) /\ standing \subseteq ToSet(listing)
  BY DEF Sane, Passed, Create
<1>1. updated' \in [Items -> 0..MaxTime] /\ clock' = clock /\ clock \in 1..MaxTime
  BY DEF Sane, Create
<1>2. /\ clock' \in 1..MaxTime
      /\ \A h \in Items : updated'[h] = IF h = i THEN clock ELSE updated[h]
  BY <1>1 DEF Sane, Create
<1>3. /\ UNCHANGED <<phase, connector, page, last, pulled, standing>>
      /\ listing' = IF connector = "gitlab" THEN <<i>> \o listing ELSE Append(listing, i)
  BY DEF Create, runVars
<1>4. CASE connector = "gitlab"
  <2>1. listing' = <<i>> \o listing
    BY <1>3, <1>4
  <2>2. /\ listing' \in Seq(Items) /\ IsInjective(listing')
        /\ ToSet(listing') = {i} \union ToSet(listing)
        /\ \A j \in DOMAIN listing' :
              j \in Nat /\ (listing'[j] = i
                            \/ (j - 1 \in DOMAIN listing /\ listing'[j] = listing[j - 1]))
    BY <1>0, <2>1, PutInFront
  <2>3. ASSUME NEW j \in DOMAIN listing', listing'[j] \in standing
        PROVE  \E h \in DOMAIN listing : h <= j /\ listing[h] = listing'[j]
    <3>1. j \in Nat /\ j - 1 \in DOMAIN listing /\ listing'[j] = listing[j - 1]
      BY <1>0, <2>2, <2>3
    <3>2. j - 1 <= j
      BY <3>1
    <3> QED BY <3>1, <3>2
  <2>4. \A h \in ToSet(listing') \union ToSet(pulled) : updated'[h] # 0
    <3>1. ToSet(listing) \subseteq Items /\ ToSet(pulled) \subseteq Items
      BY <1>0 DEF Sane, ToSet
    <3> QED BY <1>1, <1>2, <2>2, <3>1 DEF Sane
  <2> QED BY <1>0, <1>1, <1>2, <1>3, <1>4, <2>2, <2>3, <2>4, SourceStep
<1>5. CASE connector # "gitlab"
  <2>1. listing' = Append(listing, i)
    BY <1>3, <1>5
  <2>2. /\ listing' \in Seq(Items) /\ IsInjective(listing')
        /\ ToSet(listing') = {i} \union ToSet(listing)
        /\ \A j \in DOMAIN listing' :
              j \in Nat /\ (listing'[j] = i
                            \/ (j \in DOMAIN listing /\ listing'[j] = listing[j]))
    BY <1>0, <2>1, PutLast
  <2>3. ASSUME NEW j \in DOMAIN listing', listing'[j] \in standing \union ToSet(pulled)
        PROVE  j \in DOMAIN listing /\ listing'[j] = listing[j] /\ j <= j
    BY <1>0, <2>2, <2>3
  <2>4. \A h \in ToSet(listing') \union ToSet(pulled) : updated'[h] # 0
    <3>1. ToSet(listing) \subseteq Items /\ ToSet(pulled) \subseteq Items
      BY <1>0 DEF Sane, ToSet
    <3> QED BY <1>1, <1>2, <2>2, <3>1 DEF Sane
  <2> QED BY <1>0, <1>1, <1>2, <1>3, <2>2, <2>3, <2>4, SourceStep
<1> QED BY <1>4, <1>5

\* A merge request that is modified moves to the front and stands still no longer.
LEMMA ModifyStep ==
    ASSUME WalkInv, NEW i \in Items, Modify(i)
    PROVE  WalkInv'
<1> USE DEF WalkInv
<1>0. /\ listing \in Seq(Items) /\ IsInjective(listing) /\ standing \subseteq ToSet(listing)
      /\ i \in ToSet(listing) /\ DOMAIN listing \subseteq Nat
      /\ ToSet(listing) \subseteq Items /\ ToSet(pulled) \subseteq Items
  BY DEF Sane, Passed, Modify, Contains, ToSet
<1>1. /\ updated' \in [Items -> 0..MaxTime] /\ clock' \in 1..MaxTime
      /\ \A h \in Items : updated'[h] = IF h = i THEN clock ELSE updated[h]
      /\ clock # 0
  BY DEF Sane, Modify
<1>2. /\ UNCHANGED <<phase, connector, page, last, pulled>> /\ standing' = standing \ {i}
      /\ listing' = IF connector = "gitlab" THEN <<i>> \o Without(i) ELSE listing
      /\ Contains(listing, i)
  BY DEF Modify, runVars
<1>3. \A h \in ToSet(listing) \union ToSet(pulled) : updated'[h] # 0
  BY <1>0, <1>1 DEF Sane
<1>4. CASE connector = "gitlab"
  <2> DEFINE w == Without(i)
  <2>1. /\ w \in Seq(Items) /\ IsInjective(w) /\ ToSet(w) = ToSet(listing) \ {i}
        /\ \A j \in DOMAIN w : \E h \in DOMAIN listing : h <= j + 1 /\ listing[h] = w[j]
    BY <1>0, <1>2, WithoutMeans
  <2> HIDE DEF w
  <2>2. listing' = <<i>> \o w
    BY <1>2, <1>4 DEF w
  <2>3. /\ listing' \in Seq(Items) /\ IsInjective(listing')
        /\ ToSet(listing') = {i} \union ToSet(w)
        /\ \A j \in DOMAIN listing' :
              j \in Nat /\ (listing'[j] = i \/ (j - 1 \in DOMAIN w /\ listing'[j] = w[j - 1]))
    BY <2>1, <2>2, PutInFront
  <2>4. ASSUME NEW j \in DOMAIN listing', listing'[j] \in standing'
        PROVE  \E h \in DOMAIN listing : h <= j /\ listing[h] = listing'[j]
    <3>1. j \in Nat /\ j - 1 \in DOMAIN w /\ listing'[j] = w[j - 1]
      BY <1>2, <2>3, <2>4
    <3>2. (j - 1) + 1 = j
      BY <3>1
    <3> QED BY <2>1, <3>1, <3>2
  <2>5. ToSet(listing') = ToSet(listing)
    BY <1>0, <2>1, <2>3
  <2>6. standing' \subseteq standing /\ standing' \subseteq ToSet(listing')
    BY <1>0, <1>2, <2>5
  <2> QED BY <1>1, <1>2, <1>3, <1>4, <2>3, <2>4, <2>5, <2>6, SourceStep
<1>5. CASE connector # "gitlab"
  <2>1. listing' = listing
    BY <1>2, <1>5
  <2>2. standing' \subseteq standing /\ standing' \subseteq ToSet(listing')
    BY <1>0, <1>2, <2>1
  <2>3. \A j \in DOMAIN listing : j <= j
    BY <1>0
  <2>4. \A j \in DOMAIN listing' : listing'[j] \in standing' =>
           \E h \in DOMAIN listing : h <= j /\ listing[h] = listing'[j]
    BY <2>1, <2>3
  <2>5. \A j \in DOMAIN listing' : listing'[j] \in ToSet(pulled) =>
           \E h \in DOMAIN listing : j <= h /\ listing[h] = listing'[j]
    BY <2>1, <2>3
  <2> QED BY <1>0, <1>1, <1>2, <1>3, <2>1, <2>2, <2>4, <2>5, SourceStep
<1> QED BY <1>4, <1>5

\* Where an item is deleted, nothing counts as standing still.
LEMMA PurgeStep ==
    ASSUME WalkInv, NEW i \in Items, Purge(i)
    PROVE  WalkInv'
<1> USE DEF WalkInv
<1>0. listing \in Seq(Items) /\ IsInjective(listing) /\ Contains(listing, i)
  BY DEF Sane, Purge
<1>1. /\ UNCHANGED <<phase, connector, page, last, pulled, updated, clock>>
      /\ standing' = {} /\ listing' = Without(i)
  BY DEF Purge, runVars
<1>2. /\ listing' \in Seq(Items) /\ IsInjective(listing')
      /\ ToSet(listing') = ToSet(listing) \ {i}
      /\ \A j \in DOMAIN listing' : \E h \in DOMAIN listing : j <= h /\ listing[h] = listing'[j]
  BY <1>0, <1>1, WithoutMeans
<1>3. \A h \in ToSet(listing') \union ToSet(pulled) : updated'[h] # 0
  BY <1>1, <1>2 DEF Sane
<1>4. updated' \in [Items -> 0..MaxTime] /\ clock' \in 1..MaxTime
  BY <1>1 DEF Sane
<1> QED BY <1>1, <1>2, <1>3, <1>4, SourceStep

\* Time moves nothing.
LEMMA TickStep ==
    ASSUME WalkInv, Tick
    PROVE  WalkInv'
<1>1. clock' \in 1..MaxTime
  BY BoundsAssumption DEF WalkInv, Sane, Tick
<1>2. UNCHANGED <<connector, listing, updated, phase, page, last, pulled, standing>>
  BY DEF Tick, runVars
<1>3. Sane'
  BY <1>1, <1>2 DEF WalkInv, Sane
<1>4. Passed' /\ Once'
  BY <1>2 DEF WalkInv, Passed, Once, Before
<1> QED BY <1>3, <1>4 DEF WalkInv

----------------------------------------------------------------------------
(* The steps of a run. *)

\* A run that ends early promises nothing, whatever it has pulled.
LEMMA EndStep ==
    ASSUME WalkInv, UNCHANGED <<listing, updated, clock, connector, page, pulled, standing>>,
           phase' = "idle"
    PROVE  WalkInv'
<1>1. Sane'
  BY DEF WalkInv, Sane
<1>2. Passed' /\ Once'
  BY DEF WalkInv, Passed, Once
<1> QED BY <1>1, <1>2 DEF WalkInv

\* A run starts with the first page and nothing pulled.
LEMMA StartStep ==
    ASSUME WalkInv, StartRun
    PROVE  WalkInv'
<1>1. /\ UNCHANGED <<listing, updated, clock, connector>> /\ page' = 1 /\ phase' = "paging"
      /\ pulled' = <<>> /\ standing' = ToSet(listing)
  BY DEF StartRun, sourceVars
<1>2. ToSet(pulled') = {} /\ pulled' \in Seq(Items) /\ DOMAIN pulled' = {}
  BY <1>1 DEF ToSet
<1>3. Sane'
  BY <1>1, <1>2 DEF WalkInv, Sane
<1>4. Before(1) = 0 /\ Before(page') = 0
  BY <1>1, PagesAdjoin
<1>5. \A j \in DOMAIN listing : ~(j <= 0)
  BY DEF WalkInv, Sane
<1>6. Passed'
  BY <1>1, <1>2, <1>4, <1>5 DEF Passed, Before
<1>7. Once'
  BY <1>1, <1>2 DEF Once, IsInjective
<1> QED BY <1>3, <1>6, <1>7 DEF WalkInv

\* A page is pulled; the next is turned, or the run has all and goes on to save,
\* or it ends.
LEMMA PullStep ==
    ASSUME WalkInv, phase = "paging",
           UNCHANGED <<listing, updated, clock, connector, standing>>,
           pulled' = pulled \o PageOf(page),
           \/ /\ phase' = "paging" /\ page' = page + 1 /\ connector # "artefacts"
              /\ connector = "sonarqube" =>
                    \A j \in DOMAIN listing : listing[j] \in standing => j <= last' * PageSize
           \/ /\ phase' = "save" /\ page' = page
              /\ \A j \in DOMAIN listing : listing[j] \in standing => j <= Before(page + 1)
           \/ phase' = "idle" /\ page' = page
    PROVE  WalkInv'
<1> DEFINE q == PageOf(page)
<1> USE DEF WalkInv
<1>a. /\ listing \in Seq(Items) /\ IsInjective(listing) /\ pulled \in Seq(Items)
      /\ page \in Nat \ {0} /\ standing \subseteq ToSet(listing)
  BY DEF Sane, Passed
<1>b. Before(page) \in Nat /\ Before(page + 1) \in Nat
  BY <1>a, PagesAdjoin
<1>c. DOMAIN listing \subseteq Nat
  BY <1>a
<1>0. /\ listing \in Seq(Items) /\ IsInjective(listing) /\ pulled \in Seq(Items)
      /\ page \in Nat \ {0} /\ standing \subseteq ToSet(listing)
      /\ Before(page) \in Nat /\ Before(page + 1) \in Nat
      /\ DOMAIN listing \subseteq Nat
  BY <1>a, <1>b, <1>c
<1>1. /\ q \in Seq(Items)
      /\ \A j \in DOMAIN listing : Before(page) < j /\ j <= Before(page + 1) =>
            j - Before(page) \in DOMAIN q /\ q[j - Before(page)] = listing[j]
      /\ \A m \in DOMAIN q :
            /\ m \in Nat \ {0} /\ Before(page) + m \in DOMAIN listing
            /\ Before(page) + m <= Before(page + 1) /\ q[m] = listing[Before(page) + m]
  BY <1>0, PageOfMeans
<1> HIDE DEF q
<1>2. pulled' = pulled \o q /\ pulled' \in Seq(Items) /\ ToSet(pulled') = ToSet(pulled) \union ToSet(q)
  BY <1>0, <1>1, ConcatMeans, ConcatToSet DEF q
<1>3. ToSet(q) \subseteq ToSet(listing)
  BY <1>1 DEF ToSet
<1>4. Sane'
  BY <1>0, <1>2, <1>3 DEF Sane
<1>5. ASSUME NEW j \in DOMAIN listing, j <= Before(page + 1), listing[j] \in standing
      PROVE  listing[j] \in ToSet(pulled')
  <2>1. CASE j <= Before(page)
    BY <1>2, <1>5, <2>1 DEF Passed
  <2>2. CASE ~(j <= Before(page))
    <3>1. Before(page) < j
      BY <1>0, <2>2
    <3>2. listing[j] \in ToSet(q)
      BY <1>1, <1>5, <3>1 DEF ToSet
    <3> QED BY <1>2, <3>2
  <2> QED BY <2>1, <2>2
<1>6. ASSUME connector # "gitlab"
      PROVE  /\ IsInjective(pulled')
             /\ \A j \in DOMAIN listing : listing[j] \in ToSet(pulled') => j <= Before(page + 1)
  <2>1. IsInjective(q)
    <3> SUFFICES ASSUME NEW m \in DOMAIN q, NEW n \in DOMAIN q, q[m] = q[n] PROVE m = n
      BY DEF IsInjective
    <3>1. Before(page) + m = Before(page) + n
      BY <1>0, <1>1 DEF IsInjective
    <3> QED BY <1>0, <1>1, <3>1
  <2>2. ASSUME NEW x \in DOMAIN pulled, NEW m \in DOMAIN q PROVE pulled[x] # q[m]
    <3>1. m \in Nat \ {0} /\ Before(page) + m \in DOMAIN listing
          /\ q[m] = listing[Before(page) + m]
      BY <1>1
    <3>2. ~(Before(page) + m <= Before(page))
      BY <1>0, <3>1
    <3>3. ~(listing[Before(page) + m] \in ToSet(pulled))
      BY <1>6, <3>1, <3>2 DEF Once
    <3> QED BY <3>1, <3>3 DEF ToSet
  <2>3. IsInjective(pulled')
    BY <1>0, <1>1, <1>2, <1>6, <2>1, <2>2, ConcatInjective DEF Once
  <2>4. ASSUME NEW j \in DOMAIN listing, listing[j] \in ToSet(pulled')
        PROVE  j <= Before(page + 1)
    <3>1. CASE listing[j] \in ToSet(pulled)
      <4>1. j <= Before(page) /\ j \in Nat
        BY <1>0, <1>6, <3>1 DEF Once
      <4>2. Before(page) <= Before(page + 1)
        BY <1>0, PagesAdjoin
      <4> QED BY <1>0, <4>1, <4>2
    <3>2. CASE listing[j] \in ToSet(q)
      <4>1. PICK m \in DOMAIN q : listing[j] = q[m]
        BY <3>2 DEF ToSet
      <4>2. j = Before(page) + m
        BY <1>0, <1>1, <4>1 DEF IsInjective
      <4> QED BY <1>1, <4>2
    <3> QED BY <1>2, <2>4, <3>1, <3>2
  <2> QED BY <2>3, <2>4
<1>7. CASE phase' = "paging" /\ page' = page + 1 /\ connector # "artefacts"
           /\ (connector = "sonarqube" =>
                  \A j \in DOMAIN listing : listing[j] \in standing => j <= last' * PageSize)
  <2>1. page + 1 \in Nat \ {0} /\ Before(page') = Before(page + 1)
    BY <1>0, <1>7
  <2>2. Sane'
    BY <1>4, <1>7, <2>1
  <2>3. Passed'
    <3>1. ASSUME NEW j \in DOMAIN listing, j <= Before(page'), listing[j] \in standing
          PROVE  listing[j] \in ToSet(pulled')
      BY <1>5, <2>1, <3>1
    <3>2. (standing \subseteq ToSet(listing))'
      BY <1>0
    <3> QED BY <1>7, <3>1, <3>2 DEF Passed, Before
  <2>4. Once'
    BY <1>6, <1>7, <2>1 DEF Once, Before
  <2> QED BY <2>2, <2>3, <2>4
<1>8. CASE phase' = "save" /\ page' = page
           /\ \A j \in DOMAIN listing : listing[j] \in standing => j <= Before(page + 1)
  <2>1. Sane'
    BY <1>4, <1>8
  <2>2. Passed'
    <3>1. standing \subseteq ToSet(pulled')
      <4> SUFFICES ASSUME NEW i \in standing PROVE i \in ToSet(pulled')
        OBVIOUS
      <4>1. PICK j \in DOMAIN listing : listing[j] = i
        BY <1>0 DEF ToSet
      <4> QED BY <1>5, <1>8, <4>1
    <3>2. (standing \subseteq ToSet(listing))'
      BY <1>0
    <3> QED BY <1>8, <3>1, <3>2 DEF Passed
  <2>3. Once'
    BY <1>6, <1>8 DEF Once
  <2> QED BY <2>1, <2>2, <2>3
<1>9. CASE phase' = "idle" /\ page' = page
  <2>1. Sane'
    BY <1>4, <1>9
  <2>2. Passed' /\ Once'
    BY <1>0, <1>6, <1>9 DEF Passed, Once
  <2> QED BY <2>1, <2>2
<1> QED BY <1>7, <1>8, <1>9

\* The artefacts are pulled at once.
LEMMA PrefixStep ==
    ASSUME WalkInv, ReadPrefix
    PROVE  WalkInv'
<1> USE DEF WalkInv
<1>0. /\ connector = "artefacts" /\ phase = "paging" /\ pulled' = pulled \o listing
      /\ phase' = "save" /\ page' = page
      /\ UNCHANGED <<connector, listing, updated, clock, standing>>
  BY DEF ReadPrefix, Take, End, sourceVars
<1>1. /\ listing \in Seq(Items) /\ IsInjective(listing) /\ pulled \in Seq(Items)
      /\ DOMAIN listing = 1..Len(listing) /\ Len(listing) \in Nat
  BY DEF Sane
<1>2. pulled' \in Seq(Items) /\ ToSet(pulled') = ToSet(pulled) \union ToSet(listing)
  BY <1>0, <1>1, ConcatMeans, ConcatToSet
<1>3. Sane'
  BY <1>0, <1>2 DEF Sane
<1>4. Passed'
  BY <1>0, <1>2 DEF Passed
<1>5. \A j \in DOMAIN listing : ~(listing[j] \in ToSet(pulled))
  <2>1. page = 1
    BY <1>0 DEF Once
  <2>2. Before(page) = 0
    BY <2>1, PagesAdjoin
  <2> QED BY <1>0, <1>1, <2>2 DEF Once
<1>6. IsInjective(pulled')
  BY <1>0, <1>1, <1>5, ConcatInjective DEF Once, ToSet
<1>7. Once'
  BY <1>0, <1>6 DEF Once
<1> QED BY <1>3, <1>4, <1>7

\* The first page, and how many pages it announces.
LEMMA FetchFirstStep ==
    ASSUME WalkInv, FetchFirst
    PROVE  WalkInv'
<1>0. /\ connector = "sonarqube" /\ phase = "paging" /\ page = 1
      /\ pulled' = pulled \o PageOf(page) /\ last' = PageCount(Total)
      /\ UNCHANGED <<listing, updated, clock, connector, standing>>
  BY DEF FetchFirst, Ingest, sourceVars
<1>1. /\ Len(listing) \in Nat /\ DOMAIN listing = 1..Len(listing) /\ Total = Len(listing)
      /\ \A j \in DOMAIN listing : j \in Nat /\ j <= Len(listing)
  BY DEF WalkInv, Sane, Total
<1>2. Before(page + 1) = PageSize /\ PageSize \in Nat
  <2>1. Before(1 + 1) = Before(1) + PageSize /\ Before(1) = 0 /\ PageSize \in Nat
    BY PagesAdjoin
  <2> QED BY <1>0, <2>1
<1>3. CASE Total <= PageSize /\ End("save")
  <2>1. phase' = "save" /\ page' = page
    BY <1>3 DEF End
  <2>2. \A j \in DOMAIN listing : j <= Before(page + 1)
    BY <1>1, <1>2, <1>3
  <2> QED BY <1>0, <2>1, <2>2, PullStep
<1>4. CASE Fail
  <2>1. phase' = "idle" /\ page' = page
    BY <1>4 DEF Fail, End
  <2> QED BY <1>0, <2>1, PullStep
<1>5. CASE Total > PageSize /\ Total <= Cap
           /\ IF PageCount(Total) < 2 THEN End("save") ELSE TurnPage
  <2>1. /\ PageCount(Total) \in Nat /\ Total <= PageCount(Total) * PageSize
        /\ PageCount(Total) >= 2
    BY <1>1, <1>5, PageCountCovers
  <2>2. phase' = "paging" /\ page' = page + 1
    BY <1>0, <1>5, <2>1 DEF TurnPage
  <2>3. PageCount(Total) * PageSize \in Nat
    BY <1>2, <2>1
  <2>4. \A j \in DOMAIN listing : j <= last' * PageSize
    BY <1>0, <1>1, <2>1, <2>3
  <2> QED BY <1>0, <2>2, <2>4, PullStep
<1> QED BY <1>3, <1>4, <1>5 DEF FetchFirst

\* The further pages, up to the number announced.
LEMMA FetchNextStep ==
    ASSUME WalkInv, FetchNext
    PROVE  WalkInv'
<1>0. /\ connector = "sonarqube" /\ phase = "paging" /\ page > 1
      /\ pulled' = pulled \o PageOf(page) /\ last' = last
      /\ UNCHANGED <<listing, updated, clock, connector, standing>>
      /\ IF page = last THEN End("save") ELSE TurnPage
  BY DEF FetchNext, Ingest, sourceVars
<1>1. \A j \in DOMAIN listing : listing[j] \in standing => j <= last * PageSize
  BY <1>0 DEF WalkInv, Passed
<1>2. CASE page = last
  <2>1. phase' = "save" /\ page' = page
    BY <1>0, <1>2 DEF End
  <2>2. page * PageSize = Before(page + 1)
    BY PagesAdjoin DEF WalkInv, Sane
  <2> QED BY <1>0, <1>1, <1>2, <2>1, <2>2, PullStep
<1>3. CASE page # last
  <2>1. phase' = "paging" /\ page' = page + 1
    BY <1>0, <1>3 DEF TurnPage
  <2> QED BY <1>0, <1>1, <2>1, PullStep
<1> QED BY <1>2, <1>3

\* Pages read until one is short, or while the server names a next one.
LEMMA FetchOtherStep ==
    ASSUME WalkInv, FetchAlerts \/ FetchMergeRequests
    PROVE  WalkInv'
<1>0. /\ connector \in {"owasp_zap", "gitlab"} /\ phase = "paging"
      /\ pulled' = pulled \o PageOf(page)
      /\ UNCHANGED <<listing, updated, clock, connector, standing>>
  BY DEF FetchAlerts, FetchMergeRequests, Take, sourceVars
<1>1. /\ page \in Nat \ {0} /\ listing \in Seq(Items)
      /\ Len(listing) \in Nat /\ DOMAIN listing = 1..Len(listing)
  BY DEF WalkInv, Sane
<1>a. page * PageSize = Before(page + 1) /\ Before(page + 1) \in Nat
  <2>1. /\ Before(page) \in Nat /\ page * PageSize = Before(page) + PageSize
        /\ Before(page + 1) = Before(page) + PageSize /\ PageSize \in Nat
    BY <1>1, PagesAdjoin
  <2> HIDE DEF Before
  <2> QED BY <2>1
<1>b. /\ PageOf(page) \in Seq(Items)
      /\ Len(PageOf(page)) < PageSize => Len(listing) <= Before(page + 1)
  BY <1>1, PageOfMeans
<1>2. /\ page * PageSize = Before(page + 1) /\ Before(page + 1) \in Nat
      /\ Len(PageOf(page)) < PageSize => Len(listing) <= Before(page + 1)
  BY <1>a, <1>b
<1>3. \/ phase' = "paging" /\ page' = page + 1
      \/ phase' = "save" /\ page' = page /\ Len(listing) <= Before(page + 1)
  BY <1>1, <1>2 DEF FetchAlerts, FetchMergeRequests, Take, End, TurnPage
<1>4. CASE phase' = "paging" /\ page' = page + 1
  BY <1>0, <1>4, PullStep
<1>5. CASE phase' = "save" /\ page' = page /\ Len(listing) <= Before(page + 1)
  <2>1. \A j \in DOMAIN listing : j <= Before(page + 1)
    BY <1>1, <1>2, <1>5
  <2> QED BY <1>0, <1>5, <2>1, PullStep
<1> QED BY <1>3, <1>4, <1>5

\* A page that is tried again is the same page.
LEMMA RateLimitedStep ==
    ASSUME WalkInv, RateLimited
    PROVE  WalkInv'
<1>0. /\ page' = page /\ phase' \in {phase, "idle"}
      /\ UNCHANGED <<listing, updated, clock, connector, pulled, standing, last>>
  BY DEF RateLimited, Fail, End, sourceVars
<1>1. CASE phase' = "idle"
  BY <1>0, <1>1, EndStep
<1>2. CASE phase' = phase
  <2>1. Sane'
    BY <1>0 DEF WalkInv, Sane
  <2>2. Passed' /\ Once'
    BY <1>0, <1>2 DEF WalkInv, Passed, Once, Before
  <2> QED BY <2>1, <2>2 DEF WalkInv
<1> QED BY <1>0, <1>1, <1>2

\* Every step keeps WalkInv.
LEMMA WalkStep == WalkInv /\ [Next]_vars => WalkInv'
<1> SUFFICES ASSUME WalkInv, [Next]_vars PROVE WalkInv'
  OBVIOUS
<1>1. CASE Tick
  BY <1>1, TickStep
<1>2. ASSUME NEW i \in Items, Create(i) \/ Modify(i) \/ Purge(i)
      PROVE  WalkInv'
  BY <1>2, CreateStep, ModifyStep, PurgeStep
<1>3. CASE StartRun
  BY <1>3, StartStep
<1>4. CASE FetchFirst
  BY <1>4, FetchFirstStep
<1>5. CASE FetchNext
  BY <1>5, FetchNextStep
<1>6. CASE RateLimited
  BY <1>6, RateLimitedStep
<1>7. CASE FetchAlerts \/ FetchMergeRequests
  BY <1>7, FetchOtherStep
<1>8. CASE ReadPrefix
  BY <1>8, PrefixStep
<1>9. CASE Save \/ WriteBatch \/ Crash
  <2>1. /\ UNCHANGED <<listing, updated, clock, connector, page, pulled, standing>>
        /\ phase' = "idle"
    BY <1>9 DEF Save, WriteBatch, Crash, Fail, End, sourceVars, markVars
  <2> QED BY <2>1, EndStep
<1>10. CASE UNCHANGED vars
  <2>1. Sane'
    BY <1>10 DEF WalkInv, Sane, vars, sourceVars, runVars
  <2>2. Passed' /\ Once'
    BY <1>10 DEF WalkInv, Passed, Once, Before, vars, sourceVars, runVars
  <2> QED BY <2>1, <2>2 DEF WalkInv
<1> QED BY <1>1, <1>2, <1>3, <1>4, <1>5, <1>6, <1>7, <1>8, <1>9, <1>10 DEF Next

\* WalkInv holds in every reachable state.
LEMMA WalkInvariant == Spec => []WalkInv
BY InitWalkInv, WalkStep, PTL DEF Spec

\* WalksAreWhole: a source that grows and changes while it is walked hides
\* nothing that stands still, and repeats nothing unless what changes moves.
THEOREM WalksStayWhole == Spec => []WalksAreWhole
<1>1. WalkInv => WalksAreWhole
  BY DEF WalkInv, Passed, Once, WalksAreWhole
<1> QED BY <1>1, WalkInvariant, PTL

----------------------------------------------------------------------------
(* The mark. *)

\* Types of the marks and of bronze.
Marks ==
    /\ bronze \in [Versions -> 0..Many]
    /\ store \in 0..MaxTime /\ mark \in 0..MaxTime /\ prev \in 0..MaxTime
    /\ connector # "sonarqube" => store = 0

\* While nothing has disturbed a traversal, all that is listed stands still, and
\* what SonarQube's run has pulled is in bronze.
Calm ==
    ~disturbed =>
        /\ \A i \in ToSet(listing) : Behind(i)
        /\ phase \in {"paging", "save"} =>
              /\ ToSet(listing) = standing
              /\ connector = "sonarqube" => prev = store /\ \A i \in ToSet(pulled) : InBronze(i)

MarkInv == WalkInv /\ Marks /\ Calm

\* What is listed or has been pulled has a version.
LEMMA ListedVersions ==
    ASSUME Sane, NEW i \in ToSet(listing) \union ToSet(pulled)
    PROVE  i \in Items /\ updated[i] \in 1..MaxTime /\ <<i, updated[i]>> \in Versions
<1>1. i \in Items
  BY DEF Sane, ToSet
<1>2. updated[i] \in 0..MaxTime /\ updated[i] # 0
  BY <1>1 DEF Sane
<1>3. updated[i] \in 1..MaxTime
  BY <1>2, BoundsAssumption
<1> QED BY <1>1, <1>3 DEF Versions

\* An append loses no row and adds one of each record.
LEMMA Append1Means ==
    ASSUME bronze \in [Versions -> 0..Many], NEW records
    PROVE  /\ Append1(records) \in [Versions -> 0..Many]
           /\ \A v \in Versions : bronze[v] > 0 => Append1(records)[v] > 0
           /\ \A v \in Versions : v \in records => Append1(records)[v] > 0
<1> SUFFICES ASSUME NEW v \in Versions
             PROVE  /\ Append1(records)[v] \in 0..Many
                    /\ bronze[v] > 0 => Append1(records)[v] > 0
                    /\ v \in records => Append1(records)[v] > 0
  BY DEF Append1
<1>1. Append1(records)[v] = IF v \in records /\ bronze[v] < Many THEN bronze[v] + 1 ELSE bronze[v]
  BY DEF Append1
<1>2. bronze[v] \in 0..Many /\ Many = 2
  BY DEF Many
<1>3. CASE v \in records /\ bronze[v] < Many
  BY <1>1, <1>2, <1>3
<1>4. CASE ~(v \in records /\ bronze[v] < Many)
  BY <1>1, <1>2, <1>4
<1> QED BY <1>3, <1>4

\* What a page adds to bronze and to the mark.
LEMMA IngestMeans ==
    ASSUME Sane, Marks, NEW q \in Seq(Items), ToSet(q) \subseteq ToSet(listing), Ingest(q)
    PROVE  /\ bronze' \in [Versions -> 0..Many] /\ mark' \in 0..MaxTime
           /\ \A v \in Versions : bronze[v] > 0 => bronze'[v] > 0
           /\ \A i \in ToSet(q) :
                 prev = 0 \/ updated[i] > prev => bronze'[<<i, updated[i]>>] > 0
<1> DEFINE new == FilterSinceHwm(Records(q))
<1>1. bronze' = Append1(new) /\ mark' = AdvanceHwm(new)
  BY DEF Ingest
<1>2. new \subseteq Versions
  <2>1. \A i \in ToSet(q) : <<i, updated[i]>> \in Versions
    BY ListedVersions
  <2> QED BY <2>1 DEF FilterSinceHwm, Records
<1>3. ASSUME NEW i \in ToSet(q), prev = 0 \/ updated[i] > prev
      PROVE  <<i, updated[i]>> \in new /\ <<i, updated[i]>> \in Versions
  <2>1. <<i, updated[i]>> \in Records(q)
    BY DEF Records
  <2> QED BY <1>2, <1>3, <2>1 DEF FilterSinceHwm
<1> HIDE DEF new
<1>4. mark' \in 0..MaxTime
  <2> DEFINE T == {mark} \union {r[2] : r \in new}
  <2>1. \A r \in new : r[2] \in 1..MaxTime
    BY <1>2 DEF Versions
  <2>2. MaxTime \in Nat /\ mark \in 0..MaxTime
    BY BoundsAssumption DEF Marks
  <2>3. T \in SUBSET Nat /\ T # {} /\ \A t \in T : t <= MaxTime
    BY <2>1, <2>2
  <2>4. mark' = Latest(T)
    BY <1>1 DEF AdvanceHwm
  <2> HIDE DEF T
  <2>5. mark' \in T
    BY <2>2, <2>3, <2>4, LatestMeans
  <2> QED BY <2>2, <2>3, <2>5
<1>5. /\ bronze' \in [Versions -> 0..Many]
      /\ \A v \in Versions : bronze[v] > 0 => bronze'[v] > 0
      /\ \A v \in Versions : v \in new => bronze'[v] > 0
  BY <1>1, Append1Means DEF Marks
<1> QED BY <1>3, <1>4, <1>5

\* The elements with one in front.
LEMMA FrontToSet ==
    ASSUME NEW S, NEW s \in Seq(S), NEW i \in S
    PROVE  ToSet(<<i>> \o s) = {i} \union ToSet(s)
<1> DEFINE a == <<i>>
<1>1. a \in Seq(S) /\ DOMAIN a = 1..1 /\ a[1] = i
  OBVIOUS
<1>2. ToSet(a) = {i}
  BY <1>1 DEF ToSet
<1> HIDE DEF a
<1>3. ToSet(a \o s) = {i} \union ToSet(s)
  BY <1>1, <1>2, ConcatToSet
<1> QED BY <1>3 DEF a

\* The items that are listed after a step of the source.
LEMMA SourceLists ==
    ASSUME Sane, NEW i \in Items, Create(i) \/ Modify(i) \/ Purge(i)
    PROVE  ToSet(listing') \subseteq ToSet(listing) \union (IF Purge(i) THEN {} ELSE {i})
<1>1. ASSUME Contains(listing, i)
      PROVE  Without(i) \in Seq(Items) /\ ToSet(Without(i)) \subseteq ToSet(listing)
  BY <1>1, WithoutMeans DEF Sane
<1>2. listing \in Seq(Items)
  BY DEF Sane
<1>3. CASE Purge(i)
  BY <1>1, <1>3 DEF Purge
<1>4. CASE Create(i)
  <2>1. ToSet(<<i>> \o listing) = {i} \union ToSet(listing)
    BY <1>2, FrontToSet
  <2>2. ToSet(Append(listing, i)) = {i} \union ToSet(listing)
    <3>1. ~(i \in ToSet(listing))
      BY <1>4 DEF Sane, Create
    <3> QED BY <3>1, PutLast DEF Sane
  <2> QED BY <1>3, <1>4, <2>1, <2>2 DEF Create
<1>5. CASE Modify(i)
  <2>1. Contains(listing, i)
    BY <1>5 DEF Modify
  <2>2. ToSet(<<i>> \o Without(i)) = {i} \union ToSet(Without(i))
    BY <1>1, <2>1, FrontToSet
  <2> QED BY <1>1, <1>3, <1>5, <2>1, <2>2 DEF Modify
<1> QED BY <1>3, <1>4, <1>5

\* What changes between two runs is later than the mark.
LEMMA SourceMarkStep ==
    ASSUME MarkInv, NEW i \in Items, Create(i) \/ Modify(i) \/ Purge(i)
    PROVE  Marks' /\ Calm'
<1> USE DEF MarkInv
<1>0. UNCHANGED <<bronze, store, mark, prev, connector, phase, pulled>>
  BY DEF Create, Modify, Purge, runVars, markVars
<1>1. Marks'
  BY <1>0 DEF Marks
<1>2. ASSUME ~disturbed'
      PROVE  /\ ~disturbed /\ ~(phase \in {"paging", "save"})
             /\ Purge(i) \/ ~(clock <= store)
  BY <1>2 DEF Create, Modify, Purge, Disturb
<1>3. ASSUME ~disturbed', NEW h \in ToSet(listing') PROVE Behind(h)'
  <2>1. h \in ToSet(listing) \/ (h = i /\ ~Purge(i))
    BY SourceLists DEF WalkInv
  <2>2. ASSUME h = i, ~Purge(i) PROVE updated'[h] = clock
    BY <2>2 DEF Create, Modify, WalkInv, Sane
  <2>3. CASE h = i /\ ~Purge(i)
    <3>1. ~(updated'[h] <= store)
      BY <1>2, <1>3, <2>2, <2>3
    <3> QED BY <1>0, <3>1 DEF Behind
  <2>4. CASE h \in ToSet(listing) /\ ~(h = i /\ ~Purge(i))
    <3>1. updated'[h] = updated[h]
      BY <2>4, ListedVersions DEF Create, Modify, Purge, WalkInv, Sane
    <3>2. Behind(h)
      BY <1>2, <1>3, <2>4 DEF Calm
    <3> QED BY <1>0, <3>1, <3>2 DEF Behind, InBronze
  <2> QED BY <2>1, <2>3, <2>4
<1>4. Calm'
  BY <1>0, <1>2, <1>3 DEF Calm
<1> QED BY <1>1, <1>4

\* What a page holds is in bronze, as new or from an earlier run.
LEMMA FetchMarkStep ==
    ASSUME MarkInv, FetchFirst \/ FetchNext
    PROVE  Marks' /\ Calm'
<1> USE DEF MarkInv
<1> DEFINE q == PageOf(page)
<1>0. /\ connector = "sonarqube" /\ phase = "paging" /\ Ingest(q)
      /\ UNCHANGED <<connector, listing, updated, store, prev, standing, disturbed>>
      /\ pulled' = pulled \o q
  BY DEF FetchFirst, FetchNext, Ingest, sourceVars
<1>1. q \in Seq(Items) /\ ToSet(q) \subseteq ToSet(listing)
  BY PageOfMeans DEF WalkInv, Sane, ToSet
<1> HIDE DEF q
<1>2. /\ bronze' \in [Versions -> 0..Many] /\ mark' \in 0..MaxTime
      /\ \A v \in Versions : bronze[v] > 0 => bronze'[v] > 0
      /\ \A i \in ToSet(q) : prev = 0 \/ updated[i] > prev => bronze'[<<i, updated[i]>>] > 0
  BY <1>0, <1>1, IngestMeans DEF WalkInv
<1>3. Marks'
  BY <1>0, <1>2 DEF Marks
<1>4. ASSUME NEW i \in ToSet(listing) \union ToSet(pulled), InBronze(i) PROVE InBronze(i)'
  <2>1. <<i, updated[i]>> \in Versions
    BY ListedVersions DEF WalkInv
  <2> QED BY <1>0, <1>2, <1>4, <2>1 DEF InBronze
<1>5. ASSUME ~disturbed, NEW i \in ToSet(listing) PROVE Behind(i)'
  BY <1>0, <1>4, <1>5 DEF Calm, Behind
<1>6. ASSUME ~disturbed, NEW i \in ToSet(pulled') PROVE InBronze(i)'
  <2>1. ToSet(pulled') = ToSet(pulled) \union ToSet(q)
    BY <1>0, <1>1, ConcatToSet DEF WalkInv, Sane
  <2>2. CASE i \in ToSet(pulled)
    BY <1>0, <1>4, <1>6, <2>2 DEF Calm
  <2>3. CASE i \in ToSet(q) /\ (prev = 0 \/ updated[i] > prev)
    BY <1>0, <1>2, <2>3 DEF InBronze
  <2>4. CASE i \in ToSet(q) /\ ~(prev = 0 \/ updated[i] > prev)
    <3>1. i \in ToSet(listing) /\ updated[i] \in 1..MaxTime
      BY <1>1, <2>4, ListedVersions DEF WalkInv
    <3>2. updated[i] <= store
      BY <1>0, <1>6, <2>4, <3>1 DEF Calm, Marks
    <3>3. InBronze(i)
      BY <1>6, <3>1, <3>2 DEF Calm, Behind
    <3> QED BY <1>4, <3>1, <3>3
  <2> QED BY <1>6, <2>1, <2>2, <2>3, <2>4
<1>7. Calm'
  BY <1>0, <1>5, <1>6 DEF Calm
<1> QED BY <1>3, <1>7

\* When the mark is saved, all that is listed has been pulled.
LEMMA SaveMarkStep ==
    ASSUME MarkInv, Save
    PROVE  Marks' /\ Calm'
<1> USE DEF MarkInv
<1>0. /\ connector = "sonarqube" /\ phase = "save" /\ store' = mark /\ phase' = "idle"
      /\ UNCHANGED <<connector, listing, updated, prev, mark, pulled, bronze, disturbed>>
  BY DEF Save, End, sourceVars
<1>1. Marks'
  BY <1>0 DEF Marks
<1>2. ASSUME ~disturbed, NEW i \in ToSet(listing) PROVE InBronze(i)
  <2>1. i \in ToSet(pulled)
    BY <1>0, <1>2 DEF Calm, WalkInv, Passed
  <2> QED BY <1>0, <1>2, <2>1 DEF Calm
<1>3. Calm'
  BY <1>0, <1>2 DEF Calm, Behind, InBronze
<1> QED BY <1>1, <1>3

\* The connectors without a mark have nothing below it.
LEMMA WriteMarkStep ==
    ASSUME MarkInv, WriteBatch
    PROVE  Marks' /\ Calm'
<1> USE DEF MarkInv
<1>0. /\ connector # "sonarqube" /\ phase' = "idle" /\ bronze' = Append1(Records(pulled))
      /\ UNCHANGED <<connector, listing, updated, store, prev, mark, pulled, disturbed>>
  BY DEF WriteBatch, End, sourceVars, markVars
<1>1. Marks'
  BY <1>0, Append1Means DEF Marks
<1>2. ASSUME NEW i \in ToSet(listing) PROVE ~(updated[i] <= store)
  <2>1. updated[i] \in 1..MaxTime /\ store = 0
    BY <1>0, ListedVersions DEF WalkInv, Marks
  <2> QED BY <2>1
<1>3. Calm'
  BY <1>0, <1>2 DEF Calm, Behind
<1> QED BY <1>1, <1>3

\* A run starts from the persisted mark.
LEMMA StartMarkStep ==
    ASSUME MarkInv, StartRun
    PROVE  Marks' /\ Calm'
<1> USE DEF MarkInv
<1>0. /\ prev' = store /\ mark' = store /\ pulled' = <<>> /\ standing' = ToSet(listing)
      /\ UNCHANGED <<connector, listing, updated, store, bronze, disturbed>>
  BY DEF StartRun, sourceVars
<1>1. Marks'
  BY <1>0 DEF Marks
<1>2. ToSet(pulled') = {}
  BY <1>0 DEF ToSet
<1>3. Calm'
  BY <1>0, <1>2 DEF Calm, Behind, InBronze
<1> QED BY <1>1, <1>3

\* The steps that write nothing.
LEMMA OtherMarkStep ==
    ASSUME MarkInv,
           UNCHANGED <<connector, listing, updated, markVars, bronze, standing, disturbed>>,
           phase' \in {"paging", "save"} => phase \in {"paging", "save"},
           connector = "sonarqube" => pulled' = pulled
    PROVE  Marks' /\ Calm'
<1>1. Marks'
  BY DEF MarkInv, Marks, markVars
<1>2. Calm'
  BY DEF MarkInv, Calm, Behind, InBronze, markVars
<1> QED BY <1>1, <1>2

\* MarkInv holds at the start.
LEMMA InitMarkInv == Init => MarkInv
<1> SUFFICES ASSUME Init PROVE MarkInv
  OBVIOUS
<1>1. WalkInv
  BY InitWalkInv
<1>2. Marks
  BY BoundsAssumption DEF Init, Marks, Many
<1>3. ToSet(listing) = {}
  BY DEF Init, ToSet
<1> QED BY <1>1, <1>2, <1>3 DEF Init, MarkInv, Calm

\* Every step keeps MarkInv.
LEMMA MarkStep == MarkInv /\ [Next]_vars => MarkInv'
<1> SUFFICES ASSUME MarkInv, [Next]_vars PROVE Marks' /\ Calm'
  BY WalkStep DEF MarkInv
<1>1. ASSUME NEW i \in Items, Create(i) \/ Modify(i) \/ Purge(i)
      PROVE  Marks' /\ Calm'
  BY <1>1, SourceMarkStep
<1>2. CASE StartRun
  BY <1>2, StartMarkStep
<1>3. CASE FetchFirst \/ FetchNext
  BY <1>3, FetchMarkStep
<1>4. CASE Save
  BY <1>4, SaveMarkStep
<1>5. CASE WriteBatch
  BY <1>5, WriteMarkStep
<1>6. CASE RateLimited \/ Crash
  BY <1>6, OtherMarkStep DEF RateLimited, Crash, Fail, End, sourceVars
<1>7. CASE FetchAlerts \/ FetchMergeRequests \/ ReadPrefix
  BY <1>7, OtherMarkStep DEF FetchAlerts, FetchMergeRequests, ReadPrefix, Take, sourceVars
<1>8. CASE Tick \/ UNCHANGED vars
  BY <1>8, OtherMarkStep DEF Tick, vars, sourceVars, runVars
<1> QED BY <1>1, <1>2, <1>3, <1>4, <1>5, <1>6, <1>7, <1>8 DEF Next

\* NothingBelowTheMark: as long as the source stands still during traversals,
\* whatever a run is refused, however it fails and wherever it is lost.
THEOREM MarkHolds == Spec => []NothingBelowTheMark
<1>1. MarkInv => NothingBelowTheMark
  BY DEF MarkInv, Calm, NothingBelowTheMark
<1>2. Spec => []MarkInv
  BY InitMarkInv, MarkStep, PTL DEF Spec
<1> QED BY <1>1, <1>2, PTL

----------------------------------------------------------------------------
(* The counts. *)

Running == phase \in {"paging", "save"}

\* Where every run has come to its end undisturbed, SonarQube's bronze holds one
\* row of a version that is as old as the mark; those beyond the mark that the
\* run has read are of issues that it has pulled.
CountedSonar ==
    ~disturbed /\ ~interrupted /\ connector = "sonarqube" =>
        \A v \in Versions :
            /\ bronze[v] <= 1
            /\ bronze[v] > 0 =>
                  /\ ~Running => v[2] <= store
                  /\ Running => v[2] <= mark /\ (v[2] <= prev \/ v[1] \in ToSet(pulled))

\* The others append a version at most once in a run, when it ends.
CountedOthers ==
    connector # "sonarqube" =>
        \A v \in Versions : bronze[v] <= runs /\ (Running => bronze[v] + 1 <= runs)

CountInv == MarkInv /\ runs \in Nat /\ CountedSonar /\ CountedOthers

\* A page that is new to the run brings versions that are new to bronze.
LEMMA IngestCounts ==
    ASSUME CountInv, ~disturbed, ~interrupted, FetchFirst \/ FetchNext, NEW v \in Versions
    PROVE  /\ bronze'[v] <= 1
           /\ bronze'[v] > 0 => v[2] <= mark' /\ (v[2] <= prev \/ v[1] \in ToSet(pulled'))
<1> USE DEF CountInv, MarkInv
<1> DEFINE q == PageOf(page)
           new == FilterSinceHwm(Records(q))
<1>0. /\ connector = "sonarqube" /\ phase = "paging" /\ pulled' = pulled \o q
      /\ bronze' = Append1(new) /\ mark' = AdvanceHwm(new)
  BY DEF FetchFirst, FetchNext, Ingest
<1>1. /\ listing \in Seq(Items) /\ IsInjective(listing) /\ pulled \in Seq(Items)
      /\ page \in Nat \ {0} /\ DOMAIN listing = 1..Len(listing)
  BY DEF WalkInv, Sane
<1>2. /\ q \in Seq(Items)
      /\ \A m \in DOMAIN q : /\ m \in Nat \ {0} /\ Before(page) + m \in DOMAIN listing
                             /\ q[m] = listing[Before(page) + m]
  BY <1>1, PageOfMeans
<1>3. ToSet(pulled') = ToSet(pulled) \union ToSet(q)
  BY <1>0, <1>1, <1>2, ConcatToSet
<1> HIDE DEF q
<1>4. ASSUME NEW i \in ToSet(q) PROVE i \in ToSet(listing) /\ ~(i \in ToSet(pulled))
  <2>1. PICK m \in DOMAIN q : q[m] = i
    BY DEF ToSet
  <2>2. Before(page) \in Nat
    BY <1>1, PagesAdjoin
  <2>3. ~(Before(page) + m <= Before(page))
    BY <1>2, <2>2
  <2>4. ~(listing[Before(page) + m] \in ToSet(pulled))
    BY <1>0, <1>2, <2>3 DEF WalkInv, Once
  <2> QED BY <1>2, <2>1, <2>4 DEF ToSet
<1>5. ASSUME NEW r \in new
      PROVE  /\ r \in Versions /\ r[1] \in ToSet(q) /\ ~(r[1] \in ToSet(pulled))
             /\ ~(r[2] <= prev)
  <2>1. PICK i \in ToSet(q) : r = <<i, updated[i]>> /\ (prev = 0 \/ updated[i] > prev)
    BY DEF FilterSinceHwm, Records
  <2>2. updated[i] \in 1..MaxTime /\ <<i, updated[i]>> \in Versions
    BY <1>4, ListedVersions DEF WalkInv
  <2>3. prev \in 0..MaxTime
    BY DEF Marks
  <2>4. ~(updated[i] <= prev)
    BY <2>1, <2>2, <2>3
  <2> QED BY <1>4, <2>1, <2>2, <2>4
<1> HIDE DEF new
<1>6. /\ mark' \in Nat /\ mark \in Nat /\ mark <= mark'
      /\ \A r \in new : r[2] \in Nat /\ r[2] <= mark'
  <2> DEFINE T == {mark} \union {r[2] : r \in new}
  <2>1. \A r \in new : r[2] \in 1..MaxTime
    BY <1>5 DEF Versions
  <2>2. MaxTime \in Nat /\ mark \in 0..MaxTime
    BY BoundsAssumption DEF Marks
  <2>3. T \in SUBSET Nat /\ T # {} /\ \A t \in T : t <= MaxTime
    BY <2>1, <2>2
  <2>4. mark' = Latest(T) /\ mark \in T /\ \A r \in new : r[2] \in T
    BY <1>0 DEF AdvanceHwm
  <2> HIDE DEF T
  <2>5. mark' \in T /\ \A u \in T : u <= mark'
    BY <2>2, <2>3, <2>4, LatestMeans
  <2> QED BY <2>1, <2>2, <2>3, <2>4, <2>5
<1>7. /\ bronze[v] \in 0..2 /\ bronze[v] <= 1
      /\ bronze[v] > 0 => v[2] <= mark /\ (v[2] <= prev \/ v[1] \in ToSet(pulled))
  BY <1>0 DEF CountedSonar, Running, Marks, Many
<1>8. bronze'[v] = IF v \in new /\ bronze[v] < 2 THEN bronze[v] + 1 ELSE bronze[v]
  BY <1>0 DEF Append1, Many
<1>9. v[2] \in Nat
  BY DEF Versions
<1>10. CASE v \in new
  <2>1. ~(bronze[v] > 0)
    BY <1>5, <1>7, <1>10
  <2> QED BY <1>3, <1>5, <1>6, <1>7, <1>8, <1>10, <2>1
<1>11. CASE ~(v \in new)
  <2>1. bronze'[v] = bronze[v]
    BY <1>8, <1>11
  <2> QED BY <1>3, <1>6, <1>7, <1>9, <2>1
<1> QED BY <1>10, <1>11

\* Every step keeps the counts of SonarQube.
LEMMA CountedSonarStep ==
    ASSUME CountInv, [Next]_vars
    PROVE  CountedSonar'
<1> USE DEF CountInv
<1> SUFFICES ASSUME ~disturbed', ~interrupted', connector' = "sonarqube", NEW v \in Versions
             PROVE  /\ bronze'[v] <= 1
                    /\ bronze'[v] > 0 =>
                          /\ ~Running' => v[2] <= store'
                          /\ Running' => /\ v[2] <= mark'
                                         /\ v[2] <= prev' \/ v[1] \in ToSet(pulled')
  BY DEF CountedSonar
<1>0. connector = "sonarqube"
  BY DEF Next, Tick, Create, Modify, Purge, StartRun, FetchFirst, FetchNext, RateLimited, Save,
         FetchAlerts, FetchMergeRequests, ReadPrefix, Take, WriteBatch, Crash, sourceVars, vars
<1>1. CASE FetchFirst \/ FetchNext
  <2>1. ~disturbed /\ ~interrupted /\ prev' = prev
    BY <1>1 DEF FetchFirst, FetchNext, Fail, sourceVars
  <2>2. Running'
    BY <1>1, <2>1 DEF FetchFirst, FetchNext, Fail, End, TurnPage, Running
  <2> QED BY <1>1, <2>1, <2>2, IngestCounts
<1>2. CASE Save
  <2>1. /\ Running /\ ~Running' /\ store' = mark
        /\ UNCHANGED <<bronze, disturbed, interrupted>>
    BY <1>2 DEF Save, End, Running, sourceVars
  <2> QED BY <1>0, <2>1 DEF CountedSonar
<1>3. CASE StartRun
  <2>1. /\ ~Running /\ Running' /\ prev' = store /\ mark' = store
        /\ UNCHANGED <<bronze, disturbed, interrupted>>
    BY <1>3 DEF StartRun, Running
  <2> QED BY <1>0, <2>1 DEF CountedSonar
<1>4. CASE RateLimited
  <2>1. /\ phase' = phase /\ UNCHANGED <<bronze, store, mark, prev, pulled, disturbed, interrupted>>
    BY <1>4 DEF RateLimited, Fail, markVars
  <2> QED BY <1>0, <2>1 DEF CountedSonar, Running
<1>5. ASSUME NEW i \in Items, Create(i) \/ Modify(i) \/ Purge(i)
      PROVE  UNCHANGED <<phase, bronze, store, mark, prev, pulled, interrupted>> /\ ~disturbed
  BY <1>5 DEF Create, Modify, Purge, Disturb, runVars, markVars
<1>6. CASE Tick \/ UNCHANGED vars \/ \E i \in Items : Create(i) \/ Modify(i) \/ Purge(i)
  <2>1. UNCHANGED <<phase, bronze, store, mark, prev, pulled, interrupted>> /\ ~disturbed
    BY <1>5, <1>6 DEF Tick, vars, runVars, markVars
  <2> QED BY <1>0, <2>1 DEF CountedSonar, Running
<1>7. CASE Crash \/ FetchAlerts \/ FetchMergeRequests \/ ReadPrefix \/ WriteBatch
  BY <1>0, <1>7 DEF Crash, Fail, FetchAlerts, FetchMergeRequests, ReadPrefix, WriteBatch
<1> QED BY <1>1, <1>2, <1>3, <1>4, <1>6, <1>7 DEF Next

\* Every step keeps the counts of the others.
LEMMA CountedOthersStep ==
    ASSUME CountInv, [Next]_vars
    PROVE  runs' \in Nat /\ CountedOthers'
<1> USE DEF CountInv, Running
<1>1. CASE StartRun
  <2>1. /\ ~Running /\ runs' = runs + 1 /\ UNCHANGED <<bronze, connector>>
    BY <1>1 DEF StartRun, sourceVars
  <2>2. \A v \in Versions : bronze[v] \in 0..2
    BY DEF MarkInv, Marks, Many
  <2>3. ASSUME connector # "sonarqube", NEW v \in Versions
        PROVE  bronze[v] <= runs + 1 /\ bronze[v] + 1 <= runs + 1
    BY <2>2, <2>3 DEF CountedOthers
  <2> QED BY <2>1, <2>3 DEF CountedOthers
<1>2. CASE WriteBatch
  <2>1. /\ Running /\ ~Running' /\ runs' = runs /\ bronze' = Append1(Records(pulled))
        /\ UNCHANGED connector /\ connector # "sonarqube"
    BY <1>2 DEF WriteBatch, End, sourceVars
  <2>2. ASSUME NEW v \in Versions PROVE bronze'[v] <= runs
    <3>1. bronze[v] \in 0..2 /\ bronze[v] + 1 <= runs
      BY <2>1 DEF MarkInv, Marks, Many, CountedOthers
    <3>2. bronze'[v] \in {bronze[v], bronze[v] + 1}
      BY <2>1 DEF Append1
    <3> QED BY <3>1, <3>2
  <2> QED BY <2>1, <2>2 DEF CountedOthers
<1>3. ASSUME UNCHANGED <<bronze, runs, connector>>, Running' => Running
      PROVE  runs' \in Nat /\ CountedOthers'
  BY <1>3 DEF CountedOthers
<1>4. CASE FetchFirst \/ FetchNext \/ Save
  <2>1. connector = "sonarqube" /\ UNCHANGED <<connector, runs>>
    BY <1>4 DEF FetchFirst, FetchNext, Save, sourceVars
  <2> QED BY <2>1 DEF CountedOthers
<1>5. CASE RateLimited \/ Crash \/ FetchAlerts \/ FetchMergeRequests \/ ReadPrefix
  BY <1>3, <1>5 DEF RateLimited, Crash, Fail, End, FetchAlerts, FetchMergeRequests, ReadPrefix,
                    Take, sourceVars
<1>6. ASSUME NEW i \in Items, Create(i) \/ Modify(i) \/ Purge(i)
      PROVE  UNCHANGED <<phase, bronze, runs, connector>>
  BY <1>6 DEF Create, Modify, Purge, runVars
<1>7. CASE Tick \/ UNCHANGED vars \/ \E i \in Items : Create(i) \/ Modify(i) \/ Purge(i)
  <2>1. UNCHANGED <<phase, bronze, runs, connector>>
    BY <1>6, <1>7 DEF Tick, vars, sourceVars, runVars
  <2> QED BY <1>3, <2>1
<1> QED BY <1>1, <1>2, <1>4, <1>5, <1>7 DEF Next

\* CountInv holds at the start.
LEMMA InitCountInv == Init => CountInv
<1> SUFFICES ASSUME Init PROVE CountInv
  OBVIOUS
<1>1. runs = 0 /\ phase = "idle" /\ \A v \in Versions : bronze[v] = 0
  BY DEF Init
<1> QED BY <1>1, InitMarkInv DEF CountInv, CountedSonar, CountedOthers, Running

\* Every step keeps CountInv.
LEMMA CountStep == CountInv /\ [Next]_vars => CountInv'
BY MarkStep, CountedSonarStep, CountedOthersStep DEF CountInv

\* EachVersionOnce: runs that are neither disturbed nor interrupted append no
\* version of an issue twice.
THEOREM VersionsComeOnce == Spec => []EachVersionOnce
<1>1. CountInv => EachVersionOnce
  BY DEF CountInv, CountedSonar, CountedOthers, EachVersionOnce
<1>2. Spec => []CountInv
  BY InitCountInv, CountStep, PTL DEF Spec
<1> QED BY <1>1, <1>2, PTL
=============================================================================
