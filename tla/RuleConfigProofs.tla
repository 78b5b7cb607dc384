-------------------------- MODULE RuleConfigProofs --------------------------
(***************************************************************************)
(* Proofs about RuleConfig, for every set of rule sets, requests, payloads *)
(* and numbers of materials.                                               *)
(***************************************************************************)
EXTENDS RuleConfig, FiniteSetTheorems, WellFoundedInduction, TLAPS

\* An id is given once, and the clock does not run backwards.
VersionsOK ==
    /\ \A v \in versions : v.id <= made /\ v.second <= now
    /\ \A v, w \in versions : v.id = w.id => v = w
    /\ \A v, w \in versions : v.id < w.id => v.second <= w.second

\* What a validation is about to mark has been checked.
RequestsOK == \A r \in Requests : request[r].op = "validate" => Validates(request[r].payload)

IInv ==
    /\ TypeOK /\ VersionsOK /\ RequestsOK /\ ValidatedIsValid
    /\ applied.by <= made /\ PublishedIsInEffect

-----------------------------------------------------------------------------
(* Maxima and rounding                                                      *)

\* A finite set of integers that is not empty has a greatest element: one with the fewest above.
LEMMA MaxExists ==
    ASSUME NEW S \in SUBSET Int, IsFiniteSet(S), S # {}
    PROVE  Max(S) \in S /\ \A y \in S : Max(S) >= y
<1> DEFINE Above(x) == {y \in S : y > x}
           T == {Cardinality(Above(x)) : x \in S}
<1>1. \A x \in S : IsFiniteSet(Above(x)) /\ Cardinality(Above(x)) \in Nat
  BY FS_Subset, FS_CardinalityType
<1>2. PICK n \in T : \A m \in T : <<m, n>> \notin OpToRel(<, Nat)
  <2>1. T \subseteq Nat /\ T # {}
    BY <1>1
  <2> QED  BY <2>1, NatLessThanWellFounded, WFMin
<1>3. PICK x \in S : n = Cardinality(Above(x))
  OBVIOUS
<1>4. ASSUME NEW y \in S, y > x PROVE FALSE
  <2>0. x \in Int /\ y \in Int /\ \A z \in S : z \in Int
    OBVIOUS
  <2>1. Above(y) \subseteq Above(x)
    <3>1. \A z \in S : z > y => z > x
      BY <1>4, <2>0
    <3> QED  BY <3>1
  <2>5. y \in Above(x) /\ y \notin Above(y)
    BY <1>4, <2>0
  <2>2. Cardinality(Above(y)) <= Cardinality(Above(x)) /\ Cardinality(Above(y)) # n
    BY <1>1, <1>3, <2>1, <2>5, FS_Subset
  <2>3. Cardinality(Above(y)) \in T /\ n \in Nat /\ Cardinality(Above(y)) \in Nat
    BY <1>1, <1>3
  <2> HIDE DEF Above, T
  <2>4. <<Cardinality(Above(y)), n>> \in OpToRel(<, Nat)
    BY <1>3, <2>2, <2>3 DEF OpToRel
  <2> QED  BY <1>2, <2>3, <2>4
<1>5. \E z \in S : \A y \in S : z >= y
  BY <1>4
<1> QED  BY <1>5 DEF Max

LEMMA CeilDivCovers ==
    ASSUME NEW n \in Nat, NEW b \in Nat \ {0}
    PROVE  CeilDiv(n, b) \in Nat /\ CeilDiv(n, b) * b >= n /\ (n > 0 => CeilDiv(n, b) > 0)
<1>1. LET q == (n + b - 1) \div b IN q \in Int /\ b * q <= n + b - 1 /\ n + b - 1 < b * q + b
  OBVIOUS
<1> QED  BY <1>1 DEF CeilDiv

LEMMA CeilToThreeCovers ==
    ASSUME NEW k \in Nat
    PROVE  CeilToThreeMultiple(k) \in Nat /\ CeilToThreeMultiple(k) >= k
BY CeilDivCovers DEF CeilToThreeMultiple

LEMMA MulMono ==
    ASSUME NEW a \in Nat, NEW b \in Nat, NEW c \in Nat, NEW d \in Nat, a <= c, b <= d
    PROVE  a * b <= c * d
<1>1. a * b <= a * d
  OBVIOUS
<1>2. a * d <= c * d
  OBVIOUS
<1> QED  BY <1>1, <1>2

-----------------------------------------------------------------------------
(* The material groups                                                      *)

IsRange(r) == {r.min, r.max, r.base, r.copies, r.cap, r.projects} \subseteq Int

\* A plan holds n materials in groups of at most size, and, when the groups come in threes for
\* three projects, the ads.
Fits(plan, n, size) ==
    /\ plan.groups * size >= n
    /\ plan.groups % 3 = 0 /\ plan.projects = 3 => plan.adLimit * plan.projects >= plan.groups

LEMMA ThirdsFit ==
    ASSUME NEW n \in Nat, NEW size \in Nat, NEW groups \in Nat, NEW projects \in Int,
           groups * size >= n
    PROVE  Fits(MaterialPlan(groups, groups \div 3, projects), n, size)
BY DEF Fits, MaterialPlan

LEMMA InThrees ==
    ASSUME NEW n \in Nat, NEW cap \in Nat \ {0}, NEW size \in Nat, cap <= size
    PROVE  LET groups == CeilToThreeMultiple(CeilDiv(n, cap))
           IN  groups \in Nat /\ groups * size >= n
<1>1. CeilDiv(n, cap) \in Nat /\ CeilDiv(n, cap) * cap >= n
  BY CeilDivCovers
<1>2. LET groups == CeilToThreeMultiple(CeilDiv(n, cap))
      IN  groups \in Nat /\ groups >= CeilDiv(n, cap)
  BY <1>1, CeilToThreeCovers
<1> DEFINE few == CeilDiv(n, cap)
           groups == CeilToThreeMultiple(few)
<1>3. few \in Nat /\ groups \in Nat /\ few <= groups /\ few * cap >= n
  BY <1>1, <1>2
<1> HIDE DEF few, groups
<1>4. few * cap <= groups * size
  BY <1>3, MulMono
<1>5. groups * size >= n
  BY <1>3, <1>4
<1> QED  BY <1>3, <1>5 DEF few, groups

LEMMA MatchedFits ==
    ASSUME NEW n \in Nat, NEW r, IsRange(r), NEW size \in Nat \ {0}, r.cap <= size
    PROVE  Fits(Matched(n, r), n, size)
<1> DEFINE base == AtLeast(1, r.base)
           copies == AtLeast(0, r.copies)
           cap == AtLeast(1, r.cap)
           groups == IF CeilDiv(n, base) <= cap THEN base * (copies + 1)
                     ELSE CeilToThreeMultiple(CeilDiv(n, cap))
           projects == AtLeast(1, r.projects)
<1>1. /\ base \in Nat \ {0} /\ copies \in Nat /\ cap \in Nat \ {0} /\ cap <= size
      /\ projects \in Int
  BY DEF IsRange, AtLeast
<1>2. Matched(n, r) = MaterialPlan(groups, groups \div 3, projects)
  BY DEF Matched
<1> HIDE DEF base, copies, cap, projects
<1>3. CASE CeilDiv(n, base) <= cap
  <2> DEFINE few == CeilDiv(n, base)
  <2>1. few \in Nat /\ few * base >= n /\ few <= size
    BY <1>1, <1>3, CeilDivCovers
  <2> HIDE DEF few
  <2>2. few * base <= size * base
    BY <1>1, <2>1, MulMono
  <2>3. base <= base * (copies + 1) /\ base * (copies + 1) \in Nat
    BY <1>1
  <2>4. base * size <= (base * (copies + 1)) * size
    BY <1>1, <2>3, MulMono
  <2>5. size * base = base * size /\ few * base \in Nat /\ base * size \in Nat
        /\ (base * (copies + 1)) * size \in Nat
    BY <1>1, <2>1, <2>3
  <2>6. (base * (copies + 1)) * size >= n
    BY <2>1, <2>2, <2>4, <2>5
  <2>7. groups = base * (copies + 1)
    BY <1>3
  <2> QED  BY <1>1, <1>2, <2>3, <2>6, <2>7, ThirdsFit
<1>4. CASE ~(CeilDiv(n, base) <= cap)
  <2>1. groups = CeilToThreeMultiple(CeilDiv(n, cap))
    BY <1>4
  <2>2. groups \in Nat /\ groups * size >= n
    BY <1>1, <2>1, InThrees
  <2> HIDE DEF groups
  <2> QED  BY <1>1, <1>2, <2>2, ThirdsFit
<1> QED  BY <1>3, <1>4

LEMMA TestPlanFits ==
    ASSUME NEW n \in Nat \ {0}, NEW per \in Nat \ {0}, NEW size \in Nat, per <= size
    PROVE  LET plan == TestPlan(n, per)
           IN  plan.groups * size >= n /\ plan.adLimit * plan.projects >= plan.groups
<1> DEFINE groups == CeilDiv(n, per)
           adLimit == Min({10, CeilDiv(groups, 3)})
           projects == CeilDiv(groups, adLimit)
<1>1. groups \in Nat \ {0} /\ groups * per >= n
  BY CeilDivCovers
<1>2. TestPlan(n, per) = MaterialPlan(groups, adLimit, projects)
  BY DEF TestPlan
<1> HIDE DEF groups
<1>3. adLimit \in Nat \ {0}
  <2>1. CeilDiv(groups, 3) \in Nat \ {0}
    BY <1>1, CeilDivCovers
  <2>2. \E x \in {10, CeilDiv(groups, 3)} : \A y \in {10, CeilDiv(groups, 3)} : x =< y
    <3>1. CASE 10 <= CeilDiv(groups, 3)
      BY <2>1, <3>1
    <3>2. CASE ~(10 <= CeilDiv(groups, 3))
      BY <2>1, <3>2
    <3> QED  BY <3>1, <3>2
  <2>3. adLimit \in {10, CeilDiv(groups, 3)}
    BY <2>2 DEF Min
  <2> QED  BY <2>1, <2>3
<1> HIDE DEF adLimit
<1>4. projects \in Nat /\ projects * adLimit >= groups
  BY <1>1, <1>3, CeilDivCovers
<1> HIDE DEF projects
<1>5. groups * per <= groups * size
  BY <1>1, MulMono
<1>6. groups * size >= n
  BY <1>1, <1>5
<1>7. adLimit * projects >= groups
  BY <1>1, <1>3, <1>4
<1> QED  BY <1>2, <1>6, <1>7 DEF MaterialPlan

\* The greatest size of a group, over a column of the table.
LEMMA ColumnMax ==
    ASSUME NEW S \in SUBSET Int, IsFiniteSet(S)
    PROVE  LET m == Max({DefaultGroupSizeCap} \cup S)
           IN  m \in Nat /\ m >= DefaultGroupSizeCap /\ \A x \in S : x <= m
<1>1. IsFiniteSet({DefaultGroupSizeCap} \cup S)
  BY FS_Singleton, FS_Union
<1>5. {DefaultGroupSizeCap} \cup S \subseteq Int
  BY DEF DefaultGroupSizeCap
<1> DEFINE T == {DefaultGroupSizeCap} \cup S
<1>2. DefaultGroupSizeCap \in T /\ T # {} /\ T \subseteq Int /\ IsFiniteSet(T) /\ S \subseteq T
  BY <1>1, <1>5
<1> HIDE DEF T
<1>3. Max(T) \in T /\ \A y \in T : Max(T) >= y
  BY <1>2, MaxExists
<1>4. Max(T) \in Nat /\ Max(T) >= DefaultGroupSizeCap /\ \A x \in S : x <= Max(T)
  <2>1. Max(T) \in Int /\ Max(T) >= DefaultGroupSizeCap /\ \A x \in S : Max(T) >= x /\ x \in Int
    BY <1>2, <1>3
  <2> HIDE DEF T
  <2>2. Max(T) \in Nat
    BY <2>1 DEF DefaultGroupSizeCap
  <2> QED  BY <2>1, <2>2
<1> QED  BY <1>4 DEF T

LEMMA Columns ==
    ASSUME NEW rs, IsRangeTable(rs)
    PROVE  /\ {r.cap : r \in rs} \in SUBSET Int /\ IsFiniteSet({r.cap : r \in rs})
           /\ {r.base : r \in rs} \in SUBSET Int /\ IsFiniteSet({r.base : r \in rs})
<1>1. [r \in rs |-> r.cap] \in Surjection(rs, {r.cap : r \in rs})
  BY DEF Surjection
<1>2. [r \in rs |-> r.base] \in Surjection(rs, {r.base : r \in rs})
  BY DEF Surjection
<1> QED  BY <1>1, <1>2, FS_Surjection DEF IsRangeTable

LEMMA PartOfTable ==
    ASSUME NEW rs, IsRangeTable(rs), NEW S \in SUBSET rs PROVE IsRangeTable(S)
BY FS_Subset DEF IsRangeTable

LEMMA NormalFits ==
    ASSUME NEW rs, IsRangeTable(rs), NEW n \in Nat, NEW plan \in NormalPlans(n, rs)
    PROVE  Fits(plan, n, Max({DefaultGroupSizeCap} \cup {r.cap : r \in rs}))
<1> DEFINE size == Max({DefaultGroupSizeCap} \cup {r.cap : r \in rs})
<1>1. size \in Nat /\ size >= DefaultGroupSizeCap /\ \A r \in rs : r.cap <= size
  BY Columns, ColumnMax
<1>2. size \in Nat \ {0}
  BY <1>1 DEF DefaultGroupSizeCap
<1> HIDE DEF size
<1>3. ASSUME NEW r \in Matching(rs, n), plan = Matched(n, r) PROVE Fits(plan, n, size)
  <2>1. r \in rs
    BY DEF Matching
  <2>2. IsRange(r)
    BY <2>1 DEF IsRange, IsRangeTable
  <2> QED  BY <1>1, <1>2, <1>3, <2>1, <2>2, MatchedFits
<1>4. ASSUME plan = Unmatched(n, rs) PROVE Fits(plan, n, size)
  <2> DEFINE caps == {r.cap : r \in {s \in rs : s.cap > 0}}
             cap == IF caps = {} THEN DefaultGroupSizeCap ELSE Max(caps)
             groups == CeilToThreeMultiple(CeilDiv(n, cap))
  <2>1. caps \in SUBSET Int /\ IsFiniteSet(caps)
    <3>1. IsRangeTable({s \in rs : s.cap > 0})
      BY PartOfTable
    <3> QED  BY <3>1, Columns
  <2>2. \A c \in caps : c > 0 /\ c <= size
    BY <1>1
  <2>3. plan = MaterialPlan(groups, groups \div 3, 3)
    BY <1>4 DEF Unmatched
  <2> HIDE DEF caps
  <2>4. cap \in Nat \ {0} /\ cap <= size
    <3>1. CASE caps = {}
      BY <1>1, <3>1 DEF DefaultGroupSizeCap
    <3>2. CASE caps # {}
      <4>1. Max(caps) \in caps
        BY <2>1, <3>2, MaxExists
      <4>2. Max(caps) \in Int
        BY <2>1, <4>1
      <4> QED  BY <2>2, <3>2, <4>1, <4>2
    <3> QED  BY <3>1, <3>2
  <2> HIDE DEF cap
  <2>5. groups \in Nat /\ groups * size >= n
    BY <1>1, <2>4, InThrees
  <2> HIDE DEF groups
  <2>6. size \in Nat /\ 3 \in Int
    BY <1>2
  <2> QED  BY <2>3, <2>5, <2>6, ThirdsFit
<1> QED  BY <1>3, <1>4 DEF NormalPlans, size

LEMMA TestFits ==
    ASSUME NEW rs, IsRangeTable(rs), NEW n \in Nat \ {0}, NEW plan \in TestPlans(n, rs)
    PROVE  LET size == Max({DefaultGroupSizeCap} \cup {r.base : r \in rs})
           IN  plan.groups * size >= n /\ plan.adLimit * plan.projects >= plan.groups
<1> DEFINE size == Max({DefaultGroupSizeCap} \cup {r.base : r \in rs})
<1>1. size \in Nat /\ size >= DefaultGroupSizeCap /\ \A r \in rs : r.base <= size
  BY Columns, ColumnMax
<1>2. size \in Nat /\ size >= 30
  BY <1>1 DEF DefaultGroupSizeCap
<1> HIDE DEF size
<1>3. ASSUME NEW r \in Matching(rs, n), plan = TestPlan(n, AtLeast(1, r.base))
      PROVE  plan.groups * size >= n /\ plan.adLimit * plan.projects >= plan.groups
  <2>1. r \in rs
    BY DEF Matching
  <2>2. r.base \in Int
    BY <2>1 DEF IsRangeTable
  <2>3. AtLeast(1, r.base) \in Nat \ {0} /\ AtLeast(1, r.base) <= size
    BY <1>1, <1>2, <2>1, <2>2 DEF AtLeast
  <2> QED  BY <1>2, <1>3, <2>3, TestPlanFits
<1>4. ASSUME plan = TestPlan(n, IF n < 20 THEN 2 ELSE 3)
      PROVE  plan.groups * size >= n /\ plan.adLimit * plan.projects >= plan.groups
  <2>1. (IF n < 20 THEN 2 ELSE 3) \in Nat \ {0} /\ (IF n < 20 THEN 2 ELSE 3) <= size
    BY <1>2
  <2> QED  BY <1>2, <1>4, <2>1, TestPlanFits
<1> QED  BY <1>3, <1>4 DEF TestPlans, size

\* Whatever the ranges in effect are.
LEMMA TableFits ==
    ASSUME IsRangeTable(ranges) PROVE GroupsFit
<1> DEFINE tests == {r \in ranges : r.test}
           size == Max({DefaultGroupSizeCap} \cup
                       (IF tests = {} THEN {r.cap : r \in ranges} ELSE {r.base : r \in tests}))
<1>1. SUFFICES ASSUME NEW n \in Counts, NEW plan \in Plans(n, ranges)
               PROVE  /\ plan.groups * size >= n
                      /\ tests # {} \/ (plan.groups % 3 = 0 /\ plan.projects = 3)
                            => plan.adLimit * plan.projects >= plan.groups
  BY DEF GroupsFit
<1>2. n \in Nat
  BY RuleConfigAssumption
<1>3. CASE n = 0
  <2>1. plan = MaterialPlan(0, 0, 0)
    BY <1>3 DEF Plans
  <2>2. size \in Nat
    <3>1. CASE tests = {}
      BY <3>1, Columns, ColumnMax
    <3>2. CASE tests # {}
      <4>1. IsRangeTable(tests)
        BY PartOfTable
      <4>2. {r.base : r \in tests} \in SUBSET Int /\ IsFiniteSet({r.base : r \in tests})
        BY <4>1, Columns
      <4> QED  BY <3>2, <4>2, ColumnMax
    <3> QED  BY <3>1, <3>2
  <2> HIDE DEF size
  <2> QED  BY <1>3, <2>1, <2>2 DEF MaterialPlan
<1>4. CASE n # 0 /\ tests = {}
  <2>1. plan \in NormalPlans(n, ranges)
    BY <1>4 DEF Plans
  <2>2. size = Max({DefaultGroupSizeCap} \cup {r.cap : r \in ranges})
    BY <1>4
  <2>3. Fits(plan, n, size)
    BY <1>2, <2>1, <2>2, NormalFits
  <2> QED  BY <1>4, <2>3 DEF Fits
<1>5. CASE n # 0 /\ tests # {}
  <2>1. plan \in TestPlans(n, tests) /\ IsRangeTable(tests)
    BY <1>5, PartOfTable DEF Plans
  <2>2. size = Max({DefaultGroupSizeCap} \cup {r.base : r \in tests})
    BY <1>5
  <2>3. n \in Nat \ {0}
    BY <1>2, <1>5
  <2> HIDE DEF tests, size
  <2> QED  BY <2>1, <2>2, <2>3, TestFits
<1> QED  BY <1>3, <1>4, <1>5

-----------------------------------------------------------------------------
(* Versions                                                                 *)

\* The ids of the first start.
LEMMA SeedIds ==
    /\ Cardinality(RuleSets) \in Nat
    /\ SeedId \in [RuleSets -> 1 .. Cardinality(RuleSets)]
    /\ \A s, t \in RuleSets : SeedId[s] = SeedId[t] => s = t
<1> DEFINE n == Cardinality(RuleSets)
<1>1. n \in Nat /\ ExistsBijection(1 .. n, RuleSets)
  BY RuleConfigAssumption, FS_CardinalityType
<1>2. PICK f \in [1 .. n -> RuleSets] : \A s \in RuleSets : \E i \in 1 .. n : f[i] = s
  BY <1>1 DEF ExistsBijection, Bijection, Surjection
<1> DEFINE g == [s \in RuleSets |-> CHOOSE i \in 1 .. n : f[i] = s]
<1>3. \A s \in RuleSets : g[s] \in 1 .. n /\ f[g[s]] = s
  BY <1>2
<1>4. g \in [RuleSets -> 1 .. n] /\ \A s, t \in RuleSets : g[s] = g[t] => s = t
  BY <1>3
<1> HIDE DEF g, n
<1>5. \E id \in [RuleSets -> 1 .. n] : \A s, t \in RuleSets : id[s] = id[t] => s = t
  BY <1>4
<1> QED  BY <1>1, <1>5 DEF SeedId, n

LEMMA Numbering ==
    ASSUME TypeOK, NEW s \in RuleSets PROVE NextNumber(OfSet(s)) \in Nat \ {0}
<1> DEFINE vs == OfSet(s)
           numbers == {v.number : v \in vs}
<1>1. IsFiniteSet(vs) /\ \A v \in vs : v.number \in Nat
  BY FS_Subset DEF TypeOK, OfSet, Version
<1>2. [v \in vs |-> v.number] \in Surjection(vs, numbers)
  BY DEF Surjection
<1>3. IsFiniteSet(numbers)
  BY <1>1, <1>2, FS_Surjection
<1>4. numbers \subseteq Nat
  BY <1>1
<1>5. CASE vs # {}
  <2>1. numbers # {}
    BY <1>5
  <2> HIDE DEF numbers, vs
  <2>2. Max(numbers) \in numbers
    BY <1>3, <1>4, <2>1, MaxExists
  <2>4. Max(numbers) \in Nat
    BY <1>4, <2>2
  <2>3. Max(numbers) + 1 \in Nat \ {0}
    BY <2>4
  <2> QED  BY <1>5, <2>3 DEF NextNumber, numbers, vs
<1>6. CASE vs = {}
  BY <1>6 DEF NextNumber
<1> QED  BY <1>5, <1>6

LEMMA StoredExists ==
    ASSUME NEW id, Exists(id) PROVE Stored(id) \in versions /\ Stored(id).id = id
BY DEF Exists, Stored

VersionTable ==
    /\ versions \in SUBSET Version /\ IsFiniteSet(versions)
    /\ now \in Nat /\ made \in Nat
    /\ VersionsOK

LEMMA Adding ==
    ASSUME VersionTable, NEW s \in RuleSets, NEW n \in Nat \ {0}, NEW st \in Status,
           NEW p \in Payload, Added(NewVersion(s, n, st, p)), UNCHANGED now
    PROVE  VersionTable' /\ NewVersion(s, n, st, p).id = made + 1
<1> DEFINE new == NewVersion(s, n, st, p)
<1>1. new \in Version /\ new.id = made + 1 /\ new.second = now
  BY DEF VersionTable, VersionsOK, NewVersion, Version
<1> HIDE DEF new
<1>2. versions' = versions \cup {new} /\ made' = made + 1 /\ now' = now
  BY DEF Added, new
<1>3. versions' \in SUBSET Version /\ IsFiniteSet(versions')
  BY <1>1, <1>2, FS_AddElement DEF VersionTable, VersionsOK
<1>4. \A v \in versions' : v.id <= made' /\ v.second <= now'
  BY <1>1, <1>2 DEF VersionTable, VersionsOK, Version
<1>5. ASSUME NEW v \in versions', NEW w \in versions'
      PROVE  (v.id = w.id => v = w) /\ (v.id < w.id => v.second <= w.second)
  <2>1. CASE v \in versions /\ w \in versions
    BY <2>1 DEF VersionTable, VersionsOK
  <2>2. CASE v \in versions /\ w = new
    BY <1>1, <2>2 DEF VersionTable, VersionsOK, Version
  <2>3. CASE v = new /\ w \in versions
    BY <1>1, <2>3 DEF VersionTable, VersionsOK, Version
  <2>4. CASE v = new /\ w = new
    BY <1>1, <2>4 DEF VersionTable, VersionsOK, Version
  <2> QED  BY <1>2, <2>1, <2>2, <2>3, <2>4
<1>6. now' \in Nat /\ made' \in Nat
  BY <1>2 DEF VersionTable, VersionsOK
<1> QED  BY <1>1, <1>3, <1>4, <1>5, <1>6 DEF VersionTable, VersionsOK, new

LEMMA Replacing ==
    ASSUME VersionTable, NEW v \in Version, NEW old \in versions, v.id = old.id,
           v.second = old.second, versions' = Replaced(old.id, v), UNCHANGED <<now, made>>
    PROVE  VersionTable'
<1>1. versions' = {w \in versions : w.id # old.id} \cup {v}
  BY DEF Replaced
<1>2. versions' \in SUBSET Version
  BY <1>1 DEF VersionTable, VersionsOK
<1>3. IsFiniteSet(versions')
  <2>1. IsFiniteSet({w \in versions : w.id # old.id})
    BY FS_Subset DEF VersionTable, VersionsOK
  <2> QED  BY <1>1, <2>1, FS_AddElement
<1>4. ASSUME NEW x \in versions'
      PROVE  x.id <= made /\ x.second <= now
             /\ \E y \in versions : y.id = x.id /\ y.second = x.second /\ (x = y \/ x = v)
  BY <1>1 DEF VersionTable, VersionsOK
<1>5. \A x, y \in versions' : x.id = y.id => x = y
  BY <1>1 DEF VersionTable, VersionsOK
<1>6. \A x, y \in versions' : x.id < y.id => x.second <= y.second
  BY <1>4 DEF VersionTable, VersionsOK
<1> QED  BY <1>2, <1>3, <1>4, <1>5, <1>6 DEF VersionTable, VersionsOK

-----------------------------------------------------------------------------
(* Requests                                                                 *)

\* A request that begins has read a version, or there was none of its kind.
LEMMA Beginning ==
    ASSUME TypeOK, NEW r \in Requests, NEW s \in RuleSets,
           \/ BeginSave(r, s) \/ BeginValidate(r, s) \/ BeginPublish(r, s) \/ BeginDelete(r, s)
    PROVE  /\ \E q \in Request : /\ request' = [request EXCEPT ![r] = q]
                                 /\ q.op = "validate" => Validates(q.payload)
           /\ ops' \in Nat
           /\ UNCHANGED <<versions, prices, ranges, now, made, applied, resaved>>
<1>1. ASSUME NEW op \in {"save", "validate", "publish", "delete"}, NEW id \in Nat,
             NEW p \in Payload, Begin(r, op, s, id, p), op = "validate" => Validates(p)
      PROVE  /\ \E q \in Request : /\ request' = [request EXCEPT ![r] = q]
                                   /\ q.op = "validate" => Validates(q.payload)
             /\ ops' \in Nat
             /\ UNCHANGED <<versions, prices, ranges, now, made, applied, resaved>>
  <2> DEFINE q == [op |-> op, set |-> s, target |-> id, payload |-> p,
                   next |-> NextNumber(OfSet(s))]
  <2>1. q \in Request
    BY Numbering DEF Request
  <2>2. request' = [request EXCEPT ![r] = q] /\ (q.op = "validate" => Validates(q.payload))
    BY <1>1 DEF Begin
  <2>3. ops' \in Nat /\ UNCHANGED <<versions, prices, ranges, now, made, applied, resaved>>
    BY <1>1 DEF Begin, Operation, TypeOK
  <2> HIDE DEF q
  <2> QED  BY <2>1, <2>2, <2>3
<1>2. \A vs \in SUBSET versions : \A v \in vs : v.id \in Nat /\ v.payload \in Payload
  BY DEF TypeOK, Version
<1>3. ASSUME NEW S, NEW v \in Latest(InStatus(OfSet(s), S))
      PROVE  v.id \in Nat /\ v.payload \in Payload
  BY <1>2 DEF Latest, InStatus, OfSet
<1>4. CASE BeginSave(r, s)
  <2>1. PICK p \in Payloads : \/ Begin(r, "save", s, NoVersion, p)
                              \/ \E v \in Latest(InStatus(OfSet(s), {"DRAFT"})) :
                                    Begin(r, "save", s, v.id, p)
    BY <1>4 DEF BeginSave
  <2>2. p \in Payload /\ NoVersion \in Nat
    BY DEF Payload, NoVersion
  <2>3. ASSUME NEW id \in Nat, Begin(r, "save", s, id, p)
        PROVE  /\ \E q \in Request : /\ request' = [request EXCEPT ![r] = q]
                                     /\ q.op = "validate" => Validates(q.payload)
               /\ ops' \in Nat
               /\ UNCHANGED <<versions, prices, ranges, now, made, applied, resaved>>
    BY <1>1, <2>2, <2>3
  <2> QED  BY <1>3, <2>1, <2>2, <2>3
<1>5. CASE BeginValidate(r, s)
  <2>1. PICK v \in Latest(InStatus(OfSet(s), {"DRAFT"})) :
             Validates(v.payload) /\ Begin(r, "validate", s, v.id, v.payload)
    BY <1>5 DEF BeginValidate
  <2>2. v.id \in Nat /\ v.payload \in Payload
    BY <1>3
  <2> QED  BY <1>1, <2>1, <2>2
<1>6. CASE BeginPublish(r, s)
  <2>1. PICK v \in Latest(InStatus(OfSet(s), {"DRAFT", "VALIDATING"})) :
             Begin(r, "publish", s, v.id, v.payload)
    BY <1>6 DEF BeginPublish
  <2>2. v.id \in Nat /\ v.payload \in Payload
    BY <1>3
  <2> QED  BY <1>1, <2>1, <2>2
<1>7. CASE BeginDelete(r, s)
  <2>1. PICK v \in OfSet(s) : Begin(r, "delete", s, v.id, v.payload)
    BY <1>7 DEF BeginDelete
  <2>2. v.id \in Nat /\ v.payload \in Payload
    BY <1>2 DEF OfSet
  <2> QED  BY <1>1, <2>1, <2>2
<1> QED  BY <1>4, <1>5, <1>6, <1>7

-----------------------------------------------------------------------------
(* The invariant                                                            *)

LEMMA Initially == ASSUME Init PROVE IInv
<1> DEFINE first(s) == [set |-> s, id |-> SeedId[s], number |-> 1, second |-> 0,
                        status |-> "DRAFT", payload |-> DefaultPayload[s]]
<1>1. versions = {first(s) : s \in RuleSets}
  BY DEF Init
<1>2. \A s \in RuleSets : first(s) \in Version /\ first(s).id <= Cardinality(RuleSets)
                           /\ first(s).second = 0 /\ first(s).status = "DRAFT"
  BY SeedIds DEF Version, Status, Payload
<1>3. \A s, t \in RuleSets : first(s).id = first(t).id => first(s) = first(t)
  BY SeedIds
<1>4. IsFiniteSet(versions)
  <2>1. [s \in RuleSets |-> first(s)] \in Surjection(RuleSets, versions)
    BY <1>1 DEF Surjection
  <2> QED  BY <2>1, RuleConfigAssumption, FS_Surjection
<1> HIDE DEF first
<1>5. TypeOK
  <2>1. request \in [Requests -> Request]
    BY DEF Init, Request
  <2> QED  BY <1>1, <1>2, <1>4, <2>1, SeedIds, RuleConfigAssumption DEF Init, TypeOK, NoVersion
<1>6. VersionsOK
  BY <1>1, <1>2, <1>3 DEF Init, VersionsOK
<1>7. RequestsOK
  BY DEF Init, RequestsOK, Idle
<1>8. ValidatedIsValid
  BY <1>1, <1>2 DEF ValidatedIsValid, InStatus
<1>9. applied.by <= made /\ PublishedIsInEffect
  <2>1. \A v \in versions : v.id # NoVersion
    BY <1>1, <1>2 DEF Version, NoVersion
  <2> QED  BY <2>1, SeedIds DEF Init, PublishedIsInEffect, NoVersion
<1> QED  BY <1>5, <1>6, <1>7, <1>8, <1>9 DEF IInv

\* A published payload's ranges are a table, and so is one a start has completed.
LEMMA TablesStay ==
    ASSUME TypeOK
    PROVE  /\ \A p \in Payload : Apply(p) => IsRangeTable(ranges')
           /\ Start => IsRangeTable(ranges')
<1>1. ASSUME NEW p \in Payload, Apply(p) PROVE IsRangeTable(ranges')
  BY <1>1, RuleConfigAssumption DEF Apply, TypeOK
<1>2. ASSUME Start PROVE IsRangeTable(ranges')
  <2> DEFINE added == MissingIn(ranges, DefaultRanges)
  <2>1. ranges' = ranges \cup added
    BY <1>2 DEF Start
  <2>2. IsRangeTable(added)
    BY RuleConfigAssumption, PartOfTable DEF MissingIn
  <2>3. IsFiniteSet(ranges')
    BY <2>1, <2>2, FS_Union DEF TypeOK, IsRangeTable
  <2> QED  BY <2>1, <2>2, <2>3 DEF TypeOK, IsRangeTable
<1> QED  BY <1>1, <1>2

\* What each action that writes does to the versions.
LEMMA Writing ==
    ASSUME TypeOK, VersionsOK, NEW r \in Requests,
           Save(r) \/ Validate(r) \/ Publish(r) \/ Delete(r)
    PROVE  VersionTable'
<1> DEFINE q == request[r]
<1>1. VersionTable
  BY DEF VersionTable, TypeOK
<1>2. q \in Request
  BY DEF TypeOK
<1>3. q.op \in {"save", "validate", "publish", "delete"}
  BY DEF Save, Validate, Publish, Delete
<1>4. q.set \in RuleSets /\ q.target \in Nat /\ q.payload \in Payload /\ q.next \in Nat \ {0}
  BY <1>2, <1>3 DEF Request, Idle
<1> HIDE DEF q
<1>5. {"DRAFT", "VALIDATING", "PUBLISHED"} \subseteq Status
  BY DEF Status
<1>6. ASSUME NEW st \in Status, NEW id, Exists(id), UNCHANGED <<now, made>>,
             versions' = Replaced(id, [Stored(id) EXCEPT !.payload = q.payload, !.status = st])
      PROVE  VersionTable'
  <2> DEFINE v == [Stored(id) EXCEPT !.payload = q.payload, !.status = st]
  <2>1. Stored(id) \in versions /\ Stored(id).id = id /\ Stored(id) \in Version
    BY <1>6, StoredExists DEF TypeOK
  <2>2. v \in Version /\ v.id = id /\ v.second = Stored(id).second
    BY <1>4, <2>1 DEF Version
  <2> HIDE DEF v
  <2> QED  BY <1>1, <1>6, <2>1, <2>2, Replacing DEF v
<1>7. CASE Save(r)
  <2>1. CASE q.target = NoVersion
    BY <1>1, <1>4, <1>5, <1>7, <2>1, Adding DEF Save, q
  <2>2. CASE q.target # NoVersion
    BY <1>5, <1>6, <1>7, <2>2 DEF Save, q
  <2> QED  BY <2>1, <2>2
<1>8. CASE Validate(r)
  BY <1>1, <1>4, <1>5, <1>8, Adding DEF Validate, q
<1>9. CASE Publish(r)
  <2>1. Exists(q.target) /\ UNCHANGED <<now, made>>
    BY <1>9 DEF Publish, q
  <2>2. versions' = Replaced(q.target, [Stored(q.target) EXCEPT !.payload = q.payload,
                                                               !.status = "PUBLISHED"])
    BY <1>9 DEF Publish, q
  <2> QED  BY <1>5, <1>6, <2>1, <2>2
<1>10. CASE Delete(r)
  <2>1. versions' \subseteq versions /\ UNCHANGED <<now, made>>
    BY <1>10 DEF Delete
  <2>2. IsFiniteSet(versions')
    BY <2>1, FS_Subset DEF TypeOK
  <2> QED  BY <1>1, <2>1, <2>2 DEF VersionTable, VersionsOK
<1> QED  BY <1>7, <1>8, <1>9, <1>10

Begins(r) == \E s \in RuleSets : \/ BeginSave(r, s) \/ BeginValidate(r, s)
                                 \/ BeginPublish(r, s) \/ BeginDelete(r, s)

Writes(r) == Save(r) \/ Validate(r) \/ Publish(r) \/ Delete(r)

LEMMA Steps ==
    ASSUME [Next]_vars
    PROVE  \/ \E r \in Requests : Begins(r) \/ Writes(r) \/ RequestFails(r)
           \/ Start \/ Tick \/ UNCHANGED vars
BY DEF Next, Begins, Writes

\* The payload and the target of a request that writes.
LEMMA Written ==
    ASSUME TypeOK, NEW r \in Requests, Writes(r)
    PROVE  /\ request[r].payload \in Payload /\ request[r].target \in Nat
           /\ request' = [request EXCEPT ![r] = Idle] /\ UNCHANGED ops
<1>1. request[r] \in Request /\ request[r].op # "idle"
  BY DEF TypeOK, Writes, Save, Validate, Publish, Delete
<1>2. request' = [request EXCEPT ![r] = Idle] /\ UNCHANGED ops
  BY DEF Writes, Save, Validate, Publish, Delete, Done
<1> QED  BY <1>1, <1>2 DEF Request, Idle

LEMMA TypeStep ==
    ASSUME TypeOK, VersionsOK, [Next]_vars PROVE TypeOK' /\ VersionsOK'
<1>1. ASSUME NEW r \in Requests, Begins(r) PROVE TypeOK' /\ VersionsOK'
  <2>1. PICK q \in Request : request' = [request EXCEPT ![r] = q]
    BY <1>1, Beginning DEF Begins
  <2>2. request' \in [Requests -> Request]
    BY <2>1 DEF TypeOK
  <2>3. ops' \in Nat /\ UNCHANGED <<versions, prices, ranges, now, made, applied, resaved>>
    BY <1>1, Beginning DEF Begins
  <2> QED  BY <2>2, <2>3 DEF TypeOK, VersionsOK
<1>2. ASSUME NEW r \in Requests, Writes(r) PROVE TypeOK' /\ VersionsOK'
  <2>1. VersionTable'
    BY <1>2, Writing DEF Writes
  <2>2. request' \in [Requests -> Request]
    BY <1>2, Written DEF TypeOK, Request
  <2>3. ops' \in Nat
    BY <1>2, Written DEF TypeOK
  <2>4. applied'.by \in Nat
    <3>1. CASE Publish(r)
      <4>1. applied' = InEffect(request[r].target, request[r].payload) /\ request[r].target \in Nat
        BY <1>2, <3>1, Written DEF Publish
      <4>2. applied'.by \in {request[r].target, NoVersion, applied.by}
        BY <4>1 DEF InEffect
      <4> QED  BY <4>1, <4>2 DEF TypeOK, NoVersion
    <3>2. CASE Save(r) \/ Validate(r) \/ Delete(r)
      BY <3>2 DEF Save, Validate, Delete, TypeOK
    <3> QED  BY <1>2, <3>1, <3>2 DEF Writes
  <2>5. IsRangeTable(ranges')
    <3>1. CASE Publish(r)
      <4>1. Apply(request[r].payload)
        BY <3>1 DEF Publish
      <4> QED  BY <1>2, <4>1, Written, TablesStay
    <3>2. CASE Save(r) \/ Validate(r) \/ Delete(r)
      BY <3>2 DEF Save, Validate, Delete, TypeOK
    <3> QED  BY <1>2, <3>1, <3>2 DEF Writes
  <2> QED  BY <2>1, <2>2, <2>3, <2>4, <2>5 DEF TypeOK, VersionTable
<1>3. ASSUME NEW r \in Requests, RequestFails(r) PROVE TypeOK' /\ VersionsOK'
  <2>1. request' \in [Requests -> Request]
    BY <1>3 DEF RequestFails, Done, TypeOK, Request
  <2> QED  BY <1>3, <2>1 DEF RequestFails, TypeOK, VersionsOK
<1>4. CASE Start
  <2>1. IsRangeTable(ranges')
    BY <1>4, TablesStay
  <2> QED  BY <1>4, <2>1 DEF Start, Operation, TypeOK, VersionsOK
<1>5. CASE Tick
  <2>1. now \in Nat /\ now' = now + 1 /\ UNCHANGED <<versions, made, request, applied, ranges, ops>>
    BY <1>5 DEF Tick, TypeOK
  <2>2. \A v \in versions : v.second <= now' /\ v.id <= made
    BY <2>1 DEF TypeOK, Version, VersionsOK
  <2> QED  BY <2>1, <2>2 DEF TypeOK, VersionsOK
<1>6. CASE UNCHANGED vars
  BY <1>6 DEF vars, TypeOK, VersionsOK
<1> QED  BY <1>1, <1>2, <1>3, <1>4, <1>5, <1>6, Steps

LEMMA RequestsStep ==
    ASSUME TypeOK, RequestsOK, [Next]_vars PROVE RequestsOK'
<1>1. ASSUME NEW r \in Requests, Begins(r) PROVE RequestsOK'
  <2>1. PICK q \in Request : /\ request' = [request EXCEPT ![r] = q]
                             /\ q.op = "validate" => Validates(q.payload)
    BY <1>1, Beginning DEF Begins
  <2> QED  BY <2>1 DEF RequestsOK, TypeOK
<1>2. ASSUME NEW r \in Requests, Writes(r) \/ RequestFails(r) PROVE RequestsOK'
  <2>1. request' = [request EXCEPT ![r] = Idle]
    BY <1>2, Written DEF RequestFails, Done
  <2> QED  BY <2>1 DEF RequestsOK, TypeOK, Idle
<1>3. CASE Start \/ Tick \/ UNCHANGED vars
  BY <1>3 DEF RequestsOK, Start, Tick, vars
<1> QED  BY <1>1, <1>2, <1>3, Steps

LEMMA ValidatedStep ==
    ASSUME TypeOK, RequestsOK, ValidatedIsValid, [Next]_vars PROVE ValidatedIsValid'
<1>1. ASSUME NEW r \in Requests, Save(r) PROVE ValidatedIsValid'
  <2>1. CASE request[r].target = NoVersion
    BY <1>1, <2>1 DEF Save, Added, NewVersion, ValidatedIsValid, InStatus
  <2>2. CASE request[r].target # NoVersion
    <3>1. Stored(request[r].target) \in Version
      BY <1>1, <2>2, StoredExists DEF Save, TypeOK
    <3> QED  BY <1>1, <2>2, <3>1, ZenonT(60) DEF Save, Replaced, ValidatedIsValid, InStatus, Version
  <2> QED  BY <2>1, <2>2
<1>2. ASSUME NEW r \in Requests, Validate(r) PROVE ValidatedIsValid'
  BY <1>2 DEF Validate, Added, NewVersion, ValidatedIsValid, InStatus, RequestsOK
<1>3. ASSUME NEW r \in Requests, Publish(r) PROVE ValidatedIsValid'
  <2>1. Stored(request[r].target) \in Version
    BY <1>3, StoredExists DEF Publish, TypeOK
  <2> QED  BY <1>3, <2>1 DEF Publish, Replaced, ValidatedIsValid, InStatus, Version
<1>4. ASSUME NEW r \in Requests, Delete(r) PROVE ValidatedIsValid'
  BY <1>4 DEF Delete, ValidatedIsValid, InStatus
<1>5. ASSUME UNCHANGED versions PROVE ValidatedIsValid'
  BY <1>5 DEF ValidatedIsValid, InStatus
<1>6. ASSUME NEW r \in Requests, Begins(r) PROVE UNCHANGED versions
  BY <1>6, Beginning DEF Begins
<1>7. ASSUME NEW r \in Requests, RequestFails(r) PROVE UNCHANGED versions
  BY <1>7 DEF RequestFails
<1>8. Start \/ Tick \/ UNCHANGED vars => UNCHANGED versions
  BY DEF Start, Tick, vars
<1> QED  BY <1>1, <1>2, <1>3, <1>4, <1>5, <1>6, <1>7, <1>8, Steps DEF Writes

LEMMA EffectStep ==
    ASSUME TypeOK, VersionsOK, applied.by <= made, PublishedIsInEffect, [Next]_vars
    PROVE  applied'.by <= made' /\ PublishedIsInEffect'
<1>0. /\ \A v \in versions : v \in Version /\ v.id \in Nat \ {0} /\ v.id <= made
      /\ made \in Nat /\ applied.by \in Nat
  BY DEF TypeOK, VersionsOK, Version
<1>1. ASSUME NEW r \in Requests, NEW n, NEW s, NEW st, NEW p, Added(NewVersion(s, n, st, p)),
             UNCHANGED <<prices, applied, resaved>>
      PROVE  applied'.by <= made' /\ PublishedIsInEffect'
  <2>1. NewVersion(s, n, st, p).id = made + 1
    BY DEF NewVersion
  <2>2. versions' = versions \cup {NewVersion(s, n, st, p)} /\ made' = made + 1
    BY <1>1 DEF Added
  <2>3. applied'.by <= made' /\ NewVersion(s, n, st, p).id # applied'.by
    BY <1>0, <1>1, <2>1, <2>2
  <2> QED  BY <1>1, <2>2, <2>3 DEF PublishedIsInEffect
<1>2. ASSUME NEW r \in Requests, Save(r) PROVE applied'.by <= made' /\ PublishedIsInEffect'
  <2>1. CASE request[r].target = NoVersion
    BY <1>1, <1>2, <2>1 DEF Save
  <2>2. CASE request[r].target # NoVersion
    <3> DEFINE id == request[r].target
               new == [Stored(id) EXCEPT !.payload = request[r].payload, !.status = "DRAFT"]
    <3>1. Stored(id) \in versions /\ Stored(id).id = id /\ Stored(id) \in Version
      BY <1>0, <1>2, <2>2, StoredExists DEF Save
    <3>2. versions' = {w \in versions : w.id # id} \cup {new} /\ new.id = id
      BY <1>2, <2>2, <3>1 DEF Save, Replaced, Version
    <3>3. UNCHANGED <<prices, applied, made>> /\ resaved \subseteq resaved'
          /\ (Stored(id).status = "PUBLISHED" => id \in resaved')
      BY <1>2, <2>2 DEF Save
    <3> HIDE DEF new
    <3>4. id = applied.by => id \in resaved'
      BY <3>1, <3>3 DEF PublishedIsInEffect
    <3> QED  BY <3>2, <3>3, <3>4 DEF PublishedIsInEffect
  <2> QED  BY <2>1, <2>2
<1>3. ASSUME NEW r \in Requests, Validate(r) PROVE applied'.by <= made' /\ PublishedIsInEffect'
  BY <1>1, <1>3 DEF Validate
<1>4. ASSUME NEW r \in Requests, Publish(r) PROVE applied'.by <= made' /\ PublishedIsInEffect'
  <2> DEFINE id == request[r].target
             p == request[r].payload
             new == [Stored(id) EXCEPT !.status = "PUBLISHED", !.payload = p]
  <2>1. Stored(id) \in versions /\ Stored(id).id = id /\ Stored(id) \in Version
    BY <1>0, <1>4, StoredExists DEF Publish
  <2>2. versions' = {w \in versions : w.id # id} \cup {new}
    BY <1>4 DEF Publish, Replaced
  <2>3. new.id = id /\ new.status = "PUBLISHED" /\ new.payload = p
    BY <2>1 DEF Version
  <2>4. /\ Apply(p) /\ applied' = InEffect(id, p) /\ resaved' = resaved \ {id} /\ made' = made
    BY <1>4 DEF Publish
  <2> HIDE DEF new, id, p
  <2>5. CASE HasPrices(p)
    <3>1. applied' = [by |-> id, rules |-> PricesOf(p)] /\ prices' = PricesOf(p)
      BY <2>4, <2>5 DEF InEffect, Apply
    <3>2. id <= made
      BY <1>0, <2>1
    <3> QED  BY <2>2, <2>3, <2>4, <3>1, <3>2 DEF PublishedIsInEffect
  <2>6. CASE ~HasPrices(p) /\ id = applied.by
    <3>1. applied' = [applied EXCEPT !.by = NoVersion] /\ prices' = prices
      BY <2>4, <2>6 DEF InEffect, Apply
    <3>2. \A v \in versions' : v.id # NoVersion
      BY <1>0, <2>1, <2>2, <2>3 DEF NoVersion
    <3> QED  BY <1>0, <2>4, <3>1, <3>2 DEF PublishedIsInEffect, NoVersion
  <2>7. CASE ~HasPrices(p) /\ id # applied.by
    <3>1. applied' = applied /\ prices' = prices
      BY <2>4, <2>7 DEF InEffect, Apply
    <3> QED  BY <2>2, <2>3, <2>4, <2>7, <3>1 DEF PublishedIsInEffect
  <2> QED  BY <2>5, <2>6, <2>7
<1>5. ASSUME NEW r \in Requests, Delete(r) PROVE applied'.by <= made' /\ PublishedIsInEffect'
  BY <1>5 DEF Delete, PublishedIsInEffect
<1>6. CASE Start
  <2>1. prices' = prices \cup MissingIn(prices, DefaultPrices) /\ UNCHANGED <<versions, applied, resaved, made>>
    BY <1>6 DEF Start
  <2>2. MissingIn(prices, DefaultPrices) \subseteq DefaultPrices
    BY DEF MissingIn
  <2> QED  BY <2>1, <2>2 DEF PublishedIsInEffect
<1>7. ASSUME UNCHANGED <<versions, prices, applied, resaved, made>>
      PROVE  applied'.by <= made' /\ PublishedIsInEffect'
  BY <1>7 DEF PublishedIsInEffect
<1>8. ASSUME NEW r \in Requests, Begins(r)
      PROVE  UNCHANGED <<versions, prices, applied, resaved, made>>
  BY <1>8, Beginning DEF Begins
<1>9. ASSUME NEW r \in Requests, RequestFails(r)
      PROVE  UNCHANGED <<versions, prices, applied, resaved, made>>
  BY <1>9 DEF RequestFails
<1>10. Tick \/ UNCHANGED vars => UNCHANGED <<versions, prices, applied, resaved, made>>
  BY DEF Tick, vars
<1> QED  BY <1>2, <1>3, <1>4, <1>5, <1>6, <1>7, <1>8, <1>9, <1>10, Steps DEF Writes

LEMMA Inductive == Spec => []IInv
<1>1. Init => IInv
  BY Initially
<1>2. IInv /\ [Next]_vars => IInv'
  BY TypeStep, RequestsStep, ValidatedStep, EffectStep DEF IInv
<1> QED  BY <1>1, <1>2, PTL DEF Spec

-----------------------------------------------------------------------------
(* Theorems                                                                 *)

\* Every variable keeps its type, whatever requests and starts do.
THEOREM TypeCorrect == Spec => []TypeOK
<1>1. IInv => TypeOK
  BY DEF IInv
<1> QED  BY <1>1, Inductive, PTL

\* What carries the mark of a validated version has passed the validation.
THEOREM MarkedIsValid == Spec => []ValidatedIsValid
<1>1. IInv => ValidatedIsValid
  BY DEF IInv
<1> QED  BY <1>1, Inductive, PTL

\* The price rules in effect are those of the version published last, and defaults.
THEOREM PublishedInEffect == Spec => []PublishedIsInEffect
<1>1. IInv => PublishedIsInEffect
  BY DEF IInv
<1> QED  BY <1>1, Inductive, PTL

\* The groups computed from the ranges in effect hold all materials, for every number.
THEOREM AllMaterialsFit == Spec => []GroupsFit
<1>1. IInv => GroupsFit
  BY TableFits DEF IInv, TypeOK
<1> QED  BY <1>1, Inductive, PTL

\* A request that begins to publish has taken the version that was created last, unless
\* versions of one second and number cannot be told apart.
THEOREM NewestIsPublished == Spec => PublishesNewest
<1> DEFINE Waiting(s) == InStatus(OfSet(s), {"DRAFT", "VALIDATING"})
           Chosen(r) == \A v, w \in Waiting(request'[r].set) :
                            v.id = request'[r].target =>
                                w.id <= v.id \/ (w.second = v.second /\ w.number <= v.number)
           Chooses == \A r \in Requests :
                          request[r].op = "idle" /\ request'[r].op = "publish" => Chosen(r)
<1>1. ASSUME IInv, [Next]_vars, NEW r \in Requests, request[r].op = "idle",
             request'[r].op = "publish"
      PROVE  Chosen(r)
  <2>0. TypeOK /\ VersionsOK
    BY <1>1 DEF IInv
  <2>1. PICK s \in RuleSets : BeginPublish(r, s)
    <3>1. ASSUME NEW u \in Requests, Writes(u) \/ RequestFails(u) PROVE FALSE
      <4>1. request' = [request EXCEPT ![u] = Idle]
        BY <2>0, <3>1, Written DEF RequestFails, Done
      <4> QED  BY <1>1, <2>0, <4>1 DEF TypeOK, Idle
    <3>2. ~Start /\ ~Tick /\ request' # request
      BY <1>1 DEF Start, Tick
    <3>3. PICK u \in Requests : Begins(u)
      BY <1>1, <3>1, <3>2, Steps DEF vars
    <3>4. PICK op, s, id, p : Begin(u, op, s, id, p)
                              /\ (op = "publish" => s \in RuleSets /\ BeginPublish(u, s))
      BY <3>3 DEF Begins, BeginSave, BeginValidate, BeginPublish, BeginDelete
    <3>5. u = r /\ op = "publish"
      BY <1>1, <2>0, <3>4 DEF Begin, TypeOK
    <3> QED  BY <3>4, <3>5
  <2>2. PICK v \in Latest(Waiting(s)) : Begin(r, "publish", s, v.id, v.payload)
    BY <2>1 DEF BeginPublish
  <2>3. request'[r].set = s /\ request'[r].target = v.id
    BY <2>0, <2>2 DEF Begin, TypeOK
  <2>4. Waiting(s) \subseteq versions
    BY DEF InStatus, OfSet
  <2>5. v \in Waiting(s) /\ \A w \in Waiting(s) : \/ w.second < v.second
                                                  \/ w.second = v.second /\ w.number <= v.number
    BY DEF Latest
  <2>6. ASSUME NEW w \in Waiting(s), w.second < v.second PROVE w.id <= v.id
    <3>1. v \in versions /\ w \in versions /\ v.id \in Nat /\ w.id \in Nat
          /\ v.second \in Nat /\ w.second \in Nat
      BY <2>0, <2>4, <2>5 DEF TypeOK, Version
    <3>2. v.id < w.id => v.second <= w.second
      BY <2>0, <3>1 DEF VersionsOK
    <3> QED  BY <2>6, <3>1, <3>2
  <2>7. \A x \in Waiting(s) : x.id = v.id => x = v
    BY <2>0, <2>4, <2>5 DEF VersionsOK
  <2> QED  BY <2>3, <2>5, <2>6, <2>7
<1>2. IInv /\ [Next]_vars => [Chooses]_vars
  BY <1>1
<1>3. PublishesNewest <=> [][Chooses]_vars
  BY DEF PublishesNewest
<1> QED  BY <1>2, <1>3, Inductive, PTL DEF Spec

=============================================================================
