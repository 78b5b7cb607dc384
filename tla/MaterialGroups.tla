--------------------------- MODULE MaterialGroups ---------------------------
(***************************************************************************)
(* MaterialGroupRule (plan_rules.py): how many groups the materials of a   *)
(* drama are put in, how often these are copied, and how many projects and *)
(* ads per project carry them.  A range is a record of the rule table.     *)
(***************************************************************************)
EXTENDS Integers, FiniteSets, FiniteSetsExt

Open == -1                 \* the max of a range without an upper end
DefaultGroupSizeCap == 30

\* The columns are integers, which nothing keeps from being negative.
IsRangeTable(rs) ==
    /\ IsFiniteSet(rs)
    /\ \A r \in rs : {r.min, r.max, r.base, r.copies, r.cap, r.projects} \subseteq Int

CeilDiv(a, b) == (a + b - 1) \div b
CeilToThreeMultiple(k) == CeilDiv(k, 3) * 3
AtLeast(low, k) == IF k < low THEN low ELSE k

\* The most specific matching ranges: of equal ones the first in the table is taken.
Matching(ranges, n) ==
    LET hits == {r \in ranges : r.min <= n /\ (r.max = Open \/ n <= r.max)} IN
    {r \in hits : \A s \in hits : s.min <= r.min}

\* What the form of the delivery system is given.
MaterialPlan(groups, adLimit, projects) ==
    [groups |-> groups, adLimit |-> adLimit, projects |-> projects]

\* No range matches: even groups of at most the greatest cap, in threes.
Unmatched(n, ranges) ==
    LET caps == {r.cap : r \in {s \in ranges : s.cap > 0}}
        groups == CeilToThreeMultiple(CeilDiv(n, IF caps = {} THEN DefaultGroupSizeCap ELSE Max(caps)))
    IN MaterialPlan(groups, groups \div 3, 3)

\* Mutant: rounds down, so a few materials too many still fit.
MatchedDown(n, r) ==
    LET base == AtLeast(1, r.base)  copies == AtLeast(0, r.copies)  cap == AtLeast(1, r.cap)
        groups == IF n \div base <= cap THEN base * (copies + 1)
                  ELSE CeilToThreeMultiple(CeilDiv(n, cap))
    IN MaterialPlan(groups, groups \div 3, AtLeast(1, r.projects))

\* The base groups and their copies, unless they would be too large.
Matched(n, r) ==
    LET base == AtLeast(1, r.base)  copies == AtLeast(0, r.copies)  cap == AtLeast(1, r.cap)
        groups == IF CeilDiv(n, base) <= cap THEN base * (copies + 1)
                  ELSE CeilToThreeMultiple(CeilDiv(n, cap))
    IN MaterialPlan(groups, groups \div 3, AtLeast(1, r.projects))

NormalPlans(n, ranges) ==
    IF Matching(ranges, n) = {} THEN {Unmatched(n, ranges)}
    ELSE {Matched(n, r) : r \in Matching(ranges, n)}

\* Two or three materials a group, no copies, at most ten ads a project.
TestPlan(n, perGroup) ==
    LET groups == CeilDiv(n, perGroup)
        adLimit == Min({10, CeilDiv(groups, 3)})
    IN MaterialPlan(groups, adLimit, CeilDiv(groups, adLimit))

TestPlans(n, ranges) ==
    IF Matching(ranges, n) = {} THEN {TestPlan(n, IF n < 20 THEN 2 ELSE 3)}
    ELSE {TestPlan(n, AtLeast(1, r.base)) : r \in Matching(ranges, n)}

\* The plans for n materials. One test range in the table makes every plan a test plan.
Plans(n, ranges) ==
    LET tests == {r \in ranges : r.test} IN
    IF n = 0 THEN {MaterialPlan(0, 0, 0)}
    ELSE IF tests # {} THEN TestPlans(n, tests) ELSE NormalPlans(n, ranges)

=============================================================================
