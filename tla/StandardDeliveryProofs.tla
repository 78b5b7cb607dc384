----------------------- MODULE StandardDeliveryProofs -----------------------
(***************************************************************************)
(* Proofs about AccountAssignment and StandardDelivery, for every set of   *)
(* dramas, links, CIDs and account sheets, block size and bound.           *)
(***************************************************************************)
EXTENDS StandardDelivery, SequenceTheorems, FiniteSetTheorems, WellFoundedInduction, TLAPS

-----------------------------------------------------------------------------
(* The inductive invariant                                                  *)

ReadRow == [at : Nat \ {0}, group : Groups, cid : Cid, drama : Drama \cup {Nobody, Other},
            enabled : BOOLEAN, test : BOOLEAN]

Account == [role : Groups, cid : Cid, test : BOOLEAN]

Statuses == {"", "UNAVAILABLE", "CONFLICT", "DRY_RUN", "PARTIAL_WRITE", "CONFIRMED"}

Assignment == [pc : AssignPcs, drama : Drama \cup {Nobody}, real : BOOLEAN, used : SUBSET Cid,
               reserved : SUBSET Cid, planned : Seq([kind : Kinds, rows : Seq(ReadRow)]),
               accounts : Seq(Account), template : Seq(ReadRow), last : Nat, k : Nat,
               todo : SUBSET Nat, written : BOOLEAN, status : Statuses]

PlatformTask == [drama : Drama, run : Nat, cids : SUBSET Cid,
                 status : {"HIDDEN", "PENDING", "COMPLETED", "FAILED"}]

Run == [pc : RunPcs, drama : Drama \cup {Nobody}, task : Nat, polls : 0 .. MaxPolls]

Reports == {"none", "DRY_RUN", "MANUAL_REVIEW", "UNCERTAIN", "COMPLETED"}

\* The assignment belongs to the execution, which goes on with an assignment that succeeded.
PhasesOK ==
    /\ run.pc # "idle" => run.drama \in Drama
    /\ run.pc \in {"idle", "prepare"} => assign.pc = "idle"
    /\ run.pc = "assign" => assign.pc # "idle"
    /\ run.pc \notin {"idle", "prepare", "assign"} =>
          assign.pc = "done" /\ assign.status \in {"CONFIRMED", "DRY_RUN"}

RunOK ==
    /\ run \in Run /\ runs \in 0 .. MaxRuns
    /\ PhasesOK
    /\ run.pc \in {"poll", "finish", "report"} => run.task \in Shown

\* What CompletionIsBacked needs of the steps between the poll and the report.
FinishOK ==
    /\ run.pc \in {"finish", "report"} => platform[run.task].status = "COMPLETED"
    /\ run.pc = "report" => marks[run.drama] = run.task
    /\ \A d \in Drama : {marks[d], ledger[d]} \subseteq {0} \cup DOMAIN platform

PlatformOK ==
    /\ platform \in Seq(PlatformTask)
    /\ marks \in [Drama -> Nat] /\ ledger \in [Drama -> Nat]
    /\ result \in [Drama -> Reports]
    /\ FinishOK /\ CompletionIsBacked

SheetsOK == \A kind \in Kinds : RepeatsApart(sheet[kind])

UsedToday(d) == {u.cid : u \in {v \in usage : v.day = DayOf[d]}}

HasPattern(rows, pattern) ==
    Len(rows) = Len(pattern) /\ \A i \in DOMAIN pattern : rows[i].group = pattern[i]

Appends == {"appendIAA", "appendIAP"}
KindOf(pc) == IF pc \in {"IAA", "appendIAA"} THEN "IAA" ELSE "IAP"

\* How many blocks are planned, and of which kind.
KindsOK(a) ==
    LET d == a.drama  p == a.planned  n == IF Needs(d, "IAA") THEN 1 ELSE 0 IN
    /\ d \in Drama
    /\ a.pc # "planned" => Needs(d, KindOf(a.pc))
    /\ a.pc \in {"IAA", "appendIAA"} => Len(p) = 0
    /\ a.pc \in {"IAP", "appendIAP"} => Len(p) = n
    /\ a.pc = "planned" => /\ Len(p) = n + IF Needs(d, "IAP") THEN 1 ELSE 0
                           /\ Needs(d, "IAP") => p[Len(p)].kind = "IAP"
    /\ a.pc \in {"IAP", "appendIAP", "planned"} /\ Needs(d, "IAA") => p[1].kind = "IAA"

DistinctCids(p) ==
    \A m, n \in DOMAIN p : \A i \in DOMAIN p[m].rows, j \in DOMAIN p[n].rows :
        p[m].rows[i].cid = p[n].rows[j].cid => m = n /\ i = j

\* Every block has its pattern; no CID is planned twice, nor one that was used on the day;
\* as long as another block is to follow, what is planned counts as used.
BlocksOK(a, usedToday) ==
    LET p == a.planned IN
    /\ \A m \in DOMAIN p : HasPattern(p[m].rows, RequiredPattern(p[m].kind, PaidTypes(a.drama)))
    /\ DistinctCids(p)
    /\ \A m \in DOMAIN p : CidsOf(p[m].rows) \cap usedToday = {}
    /\ a.pc # "planned" =>
          /\ usedToday \subseteq a.used \cap a.reserved
          /\ \A m \in DOMAIN p : CidsOf(p[m].rows) \subseteq a.used \cap a.reserved

\* The rows to copy are in the sheet s, a whole block, and the copy goes below the last row.
TemplateOK(a, s) ==
    LET t == a.template IN
    /\ HasPattern(t, BlockDefinition(KindOf(a.pc)))
    /\ \A i \in DOMAIN t : /\ t[i].at \in Filled(s) /\ s[t[i].at].group = t[i].group
                           /\ s[t[i].at].cid = t[i].cid
    /\ \A i, j \in DOMAIN t : i < j => t[i].at < t[j].at
    /\ \A i, j \in DOMAIN t : t[i].cid = t[j].cid => i = j
    /\ a.last \in Filled(s) /\ \A n \in Filled(s) : n <= a.last
    /\ FindBlock(Appended(a.last, t), a.used,
                 RequiredPattern(KindOf(a.pc), PaidTypes(a.drama))) # <<>>

\* Accounts with different CIDs: some for each link of the drama, none for another.
AccountsOK(accounts, d) ==
    /\ \A m, n \in DOMAIN accounts : accounts[m].cid = accounts[n].cid => m = n
    /\ \A n \in DOMAIN accounts : LinkOfType(DeliveryType(accounts[n].role)) \in Links[d]
    /\ \A l \in Links[d] : \E n \in DOMAIN accounts : accounts[n].role \in RolesOf(l)

\* The assignment a for the drama d, in the face of the sheets and the CIDs of the day.
AssignmentOK(a, d, sheets, usedToday) ==
    /\ a.pc \in Kinds \cup Appends \cup {"planned"} =>
          a.drama = d /\ KindsOK(a) /\ BlocksOK(a, usedToday)
    /\ a.pc \in Appends => TemplateOK(a, sheets[KindOf(a.pc)])
    /\ a.pc \in {"check", "write", "flag", "readBack", "record"} =>
          /\ a.drama = d /\ AccountsOK(a.accounts, d) /\ CandidatesValid(a.accounts)
          /\ CidsOf(a.accounts) \cap usedToday = {}
    /\ a.pc \in {"check", "write", "flag", "readBack"} => a.k \in DOMAIN a.planned
    /\ a.pc = "done" /\ a.status \in {"CONFIRMED", "DRY_RUN"} =>
          AccountsOK(a.accounts, d) /\ (a.real => CandidatesValid(a.accounts))

AssignOK == AssignmentOK(assign, run.drama, sheet, UsedToday(run.drama))

AccountsKept == AccountTypeOK /\ assign \in Assignment /\ SheetsOK /\ AssignOK

IInv == AccountsKept /\ RunOK /\ PlatformOK

-----------------------------------------------------------------------------
(* The rows as they are read                                                *)

\* What holds of 0 and of the successor of each number it holds of, holds of all.
LEMMA Induction ==
    ASSUME NEW S \in SUBSET Nat, 0 \in S, \A n \in S : n + 1 \in S PROVE S = Nat
<1> DEFINE Bad == Nat \ S
<1> SUFFICES ASSUME Bad # {} PROVE FALSE
  OBVIOUS
<1>1. PICK n \in Bad : \A m \in Bad : <<m, n>> \notin OpToRel(<, Nat)
  BY NatLessThanWellFounded, WFMin
<1>2. n - 1 \in Nat /\ n - 1 < n
  OBVIOUS
<1>3. n - 1 \notin Bad
  BY <1>1, <1>2 DEF OpToRel
<1> QED  BY <1>2, <1>3

\* The recursive definition over the rows of a sheet defines a function.
LEMMA FoldExists ==
    ASSUME NEW S, NEW base \in S, NEW n \in Nat, NEW step \in [1 .. n -> [S -> S]]
    PROVE  \E f \in [0 .. n -> S] :
               f = [i \in 0 .. n |-> IF i = 0 THEN base ELSE step[i][f[i - 1]]]
<1> DEFINE Partial(m) == {g \in [0 .. m -> S] : /\ g[0] = base
                                                /\ \A i \in 1 .. m : g[i] = step[i][g[i - 1]]}
           Good == {m \in Nat : m <= n => Partial(m) # {}}
<1>1. 0 \in Good
  <2>1. [i \in 0 .. 0 |-> base] \in Partial(0)
    OBVIOUS
  <2> QED  BY <2>1
<1>2. ASSUME NEW m \in Good PROVE m + 1 \in Good
  <2>1. ASSUME m + 1 <= n PROVE Partial(m + 1) # {}
    <3>1. PICK g \in Partial(m) : TRUE
      BY <2>1
    <3> DEFINE h == [i \in 0 .. m + 1 |-> IF i = m + 1 THEN step[i][g[m]] ELSE g[i]]
    <3>2. g[m] \in S /\ step[m + 1] \in [S -> S]
      BY <2>1
    <3>3. h \in [0 .. m + 1 -> S]
      BY <2>1, <3>1, <3>2
    <3>4. h[0] = base
      BY <3>1
    <3>5. ASSUME NEW i \in 1 .. m + 1 PROVE h[i] = step[i][h[i - 1]]
      BY <3>1
    <3> QED  BY <3>3, <3>4, <3>5
  <2> HIDE DEF Partial
  <2> QED  BY <2>1
<1> HIDE DEF Good
<1>3. n \in Good
  BY <1>1, <1>2, Induction DEF Good
<1>4. PICK g \in Partial(n) : TRUE
  BY <1>3 DEF Good
<1> QED  BY <1>4

CellsOf(s, n) == [at |-> n, group |-> s[n].group, cid |-> s[n].cid, drama |-> s[n].drama,
                  enabled |-> s[n].enabled, test |-> s[n].test]

\* The filled rows among the first n of a sheet, in their order.
ReadUpTo(rows, s, n) ==
    /\ rows \in Seq(ReadRow)
    /\ \A a \in DOMAIN rows : /\ rows[a].at \in Filled(s) /\ rows[a].at <= n
                               /\ rows[a] = CellsOf(s, rows[a].at)
    /\ \A a, b \in DOMAIN rows : a < b => rows[a].at < rows[b].at
    /\ \A i \in Filled(s) : i <= n => \E a \in DOMAIN rows : rows[a].at = i

LEMMA FilledIn ==
    ASSUME NEW s, NEW n \in Nat, DOMAIN s = 1 .. n
    PROVE  \A i \in Filled(s) : i \in 1 .. n /\ i \in Nat \ {0}
<1> SUFFICES ASSUME NEW i \in Filled(s) PROVE i \in 1 .. n /\ i \in Nat \ {0}
  OBVIOUS
<1>1. i \in DOMAIN s
  BY DEF Filled
<1> QED  BY <1>1

LEMMA ReadOneMore ==
    ASSUME NEW s \in Seq(AccountRow), NEW n \in 1 .. Len(s), NEW rows,
           ReadUpTo(rows, s, n - 1)
    PROVE  ReadUpTo(IF s[n].group = "" THEN rows ELSE Append(rows, CellsOf(s, n)), s, n)
<1>1. DOMAIN s = 1 .. Len(s) /\ Len(s) \in Nat /\ n \in Nat \ {0} /\ s[n] \in AccountRow
  OBVIOUS
<1>5. rows \in Seq(ReadRow) /\ DOMAIN rows = 1 .. Len(rows) /\ Len(rows) \in Nat
  BY LenProperties DEF ReadUpTo
<1>6. \A i \in Filled(s) : i \in Nat
  BY <1>1, FilledIn
<1>2. /\ rows \in Seq(ReadRow) /\ DOMAIN rows = 1 .. Len(rows) /\ Len(rows) \in Nat
      /\ \A i \in Filled(s) : i \in Nat
  BY <1>5, <1>6
<1>3. CASE s[n].group = ""
  <2>1. n \notin Filled(s)
    BY <1>3 DEF Filled
  <2>2. \A i \in Filled(s) : i <= n => i <= n - 1
    BY <1>1, <1>2, <2>1
  <2>3. \A i \in Filled(s) : i <= n - 1 => i <= n
    BY <1>1, <1>2
  <2> QED  BY <1>3, <2>2, <2>3 DEF ReadUpTo
<1>4. CASE s[n].group # ""
  <2> DEFINE new == Append(rows, CellsOf(s, n))
             m == Len(rows) + 1
  <2>1. n \in Filled(s)
    BY <1>1, <1>4 DEF Filled
  <2>2. CellsOf(s, n) \in ReadRow /\ CellsOf(s, n).at = n
    BY <1>1, <1>4 DEF CellsOf, ReadRow, AccountRow
  <2>3. /\ new \in Seq(ReadRow) /\ DOMAIN new = 1 .. m /\ new[m] = CellsOf(s, n)
        /\ \A a \in 1 .. Len(rows) : new[a] = rows[a]
    BY <1>2, <2>2, AppendProperties, LenProperties
  <2> HIDE DEF new
  <2>4. ASSUME NEW a \in 1 .. m
        PROVE  /\ new[a].at \in Filled(s) /\ new[a].at <= n
               /\ new[a] = CellsOf(s, new[a].at)
               /\ a = m \/ new[a].at <= n - 1
    <3>1. CASE a = m
      BY <1>1, <2>1, <2>2, <2>3, <3>1
    <3>2. CASE a \in 1 .. Len(rows)
      <4>1. /\ rows[a].at \in Filled(s) /\ rows[a].at <= n - 1
            /\ rows[a] = CellsOf(s, rows[a].at) /\ new[a] = rows[a]
        BY <1>2, <2>3, <3>2 DEF ReadUpTo
      <4> QED  BY <1>1, <1>2, <4>1
    <3> QED  BY <1>2, <3>1, <3>2
  <2>5. ASSUME NEW a \in 1 .. m, NEW b \in 1 .. m, a < b PROVE new[a].at < new[b].at
    <3>1. CASE b = m
      <4>1. new[a].at <= n - 1 /\ new[a].at \in Nat /\ new[b].at = n
        BY <1>2, <2>2, <2>3, <2>4, <2>5, <3>1
      <4> QED  BY <1>1, <4>1
    <3>2. CASE b \in 1 .. Len(rows)
      <4>1. a \in 1 .. Len(rows) /\ new[a] = rows[a] /\ new[b] = rows[b]
        BY <1>2, <2>3, <2>5, <3>2
      <4> QED  BY <1>2, <2>5, <3>2, <4>1 DEF ReadUpTo
    <3> QED  BY <1>2, <3>1, <3>2
  <2>6. ASSUME NEW i \in Filled(s), i <= n PROVE \E a \in 1 .. m : new[a].at = i
    <3>1. CASE i = n
      BY <1>2, <2>2, <2>3, <3>1
    <3>2. CASE i <= n - 1
      <4>1. PICK a \in DOMAIN rows : rows[a].at = i
        BY <3>2 DEF ReadUpTo
      <4> QED  BY <1>2, <2>3, <4>1
    <3> QED  BY <1>1, <1>2, <2>6, <3>1, <3>2
  <2> QED  BY <1>4, <2>3, <2>4, <2>5, <2>6 DEF ReadUpTo, new
<1> QED  BY <1>3, <1>4

\* ReadAccountRows returns the filled rows of the sheet.
LEMMA ReadAll ==
    \A kind \in Kinds : sheet \in [Kinds -> Seq(AccountRow)]
                         => ReadUpTo(ReadAccountRows(kind), sheet[kind], Len(sheet[kind]))
<1>0. SUFFICES ASSUME NEW kind \in Kinds, sheet \in [Kinds -> Seq(AccountRow)]
               PROVE  ReadUpTo(ReadAccountRows(kind), sheet[kind], Len(sheet[kind]))
  OBVIOUS
<1> DEFINE s == sheet[kind]
           N == Len(s)
           S == Seq(ReadRow)
           add(rows, n) == IF s[n].group = "" THEN rows ELSE Append(rows, CellsOf(s, n))
           f == CHOOSE g : g = [n \in 0 .. N |-> IF n = 0 THEN <<>> ELSE add(g[n - 1], n)]
<1>1. s \in Seq(AccountRow) /\ DOMAIN s = 1 .. N
  BY <1>0
<1>2. N \in Nat
  BY <1>1
<1>3. ASSUME NEW rows \in S, NEW n \in 1 .. N PROVE add(rows, n) \in S
  <2>1. s[n] \in AccountRow /\ n \in Nat \ {0}
    BY <1>1, <1>2
  <2>2. CASE s[n].group # ""
    <3>1. CellsOf(s, n) \in ReadRow
      BY <2>1, <2>2 DEF CellsOf, ReadRow, AccountRow
    <3> QED  BY <2>2, <3>1, AppendProperties
  <2> QED  BY <2>2
<1>4. <<>> \in S
  OBVIOUS
<1>11. ReadAccountRows(kind) = f[N]
  BY DEF ReadAccountRows, CellsOf
<1> HIDE DEF s, N, S, add
<1>5. \E g : g = [n \in 0 .. N |-> IF n = 0 THEN <<>> ELSE add(g[n - 1], n)]
  <2> DEFINE step == [n \in 1 .. N |-> [rows \in S |-> add(rows, n)]]
  <2>1. step \in [1 .. N -> [S -> S]]
    BY <1>3
  <2> HIDE DEF step
  <2>2. PICK g \in [0 .. N -> S] :
             g = [n \in 0 .. N |-> IF n = 0 THEN <<>> ELSE step[n][g[n - 1]]]
    BY <1>2, <1>4, <2>1, FoldExists
  <2>3. \A n \in 1 .. N : n - 1 \in 0 .. N
    BY <1>2
  <2>4. \A n \in 1 .. N : step[n][g[n - 1]] = add(g[n - 1], n)
    BY <2>2, <2>3 DEF step
  <2>5. g = [n \in 0 .. N |-> IF n = 0 THEN <<>> ELSE add(g[n - 1], n)]
    BY <1>2, <2>2, <2>4
  <2> QED  BY <2>5
<1>6. f = [n \in 0 .. N |-> IF n = 0 THEN <<>> ELSE add(f[n - 1], n)]
  BY <1>5
<1> HIDE DEF f
<1> DEFINE Good == {n \in Nat : n <= N => ReadUpTo(f[n], s, n)}
<1>7. 0 \in Good
  <2>1. f[0] = <<>>
    BY <1>2, <1>6
  <2>2. ASSUME NEW i \in Filled(s) PROVE i \in Nat /\ ~(i <= 0)
    <3>1. i \in 1 .. N
      BY <1>1 DEF Filled
    <3> QED  BY <1>2, <3>1
  <2>3. ReadUpTo(<<>>, s, 0)
    BY <2>2 DEF ReadUpTo
  <2> QED  BY <2>1, <2>3
<1>8. ASSUME NEW n \in Good PROVE n + 1 \in Good
  <2>1. ASSUME n + 1 <= N PROVE ReadUpTo(f[n + 1], s, n + 1)
    <3>1. ReadUpTo(f[n], s, n) /\ n + 1 \in 1 .. N /\ (n + 1) - 1 = n
      BY <1>2, <2>1
    <3>2. f[n + 1] = add(f[n], n + 1)
      BY <1>2, <1>6, <2>1, <3>1
    <3>3. ReadUpTo(f[(n + 1) - 1], s, (n + 1) - 1) /\ n + 1 \in 1 .. Len(s)
      BY <3>1 DEF N
    <3> HIDE DEF Good
    <3> QED  BY <1>1, <3>1, <3>2, <3>3, ReadOneMore DEF add
  <2> QED  BY <2>1
<1> HIDE DEF Good
<1>9. N \in Good
  BY <1>2, <1>7, <1>8, Induction DEF Good
<1>10. ReadUpTo(f[N], s, N)
  BY <1>2, <1>9 DEF Good
<1> QED  BY <1>10, <1>11 DEF s, N

-----------------------------------------------------------------------------
(* Patterns                                                                 *)

LEMMA GroupsAre ==
    /\ Groups = {"B1", "B4", "B7", "BX", "B1-9.9", "B2-2.9"}
    /\ ToSet(IaaGroups) = {"B1", "B4", "B7", "BX"}
    /\ \A g \in Groups : g # "" /\ Size[g] \in Nat \ {0} /\ Rank(g) \in Nat \ {0}
<1>1. ToSet(IaaGroups) = {"B1", "B4", "B7", "BX"}
  BY DEF ToSet, IaaGroups
<1>2. Groups = {"B1", "B4", "B7", "BX", "B1-9.9", "B2-2.9"}
  BY <1>1 DEF Groups
<1>3. \A g \in Groups : Size[g] \in Nat \ {0}
  BY AccountAssumption
<1>4. \A g : Rank(g) \in Nat \ {0}
  BY DEF Rank
<1>5. \A g \in Groups : g # ""
  BY <1>2
<1> QED  BY <1>1, <1>2, <1>3, <1>4, <1>5

\* The groups G, each somewhere, in the order of their ranks.
Ordered(p, G) ==
    /\ p \in Seq(Groups)
    /\ \A i, j \in DOMAIN p : i < j => Rank(p[i]) <= Rank(p[j])
    /\ \A i \in DOMAIN p : p[i] \in G
    /\ \A g \in G : \E i \in DOMAIN p : p[i] = g

LEMMA RepeatOrdered == \A g \in Groups : Ordered(Repeat(g), {g})
<1> SUFFICES ASSUME NEW g \in Groups PROVE Ordered(Repeat(g), {g})
  OBVIOUS
<1>1. Size[g] \in Nat \ {0} /\ Rank(g) \in Nat
  BY GroupsAre
<1>2. Repeat(g) \in Seq(Groups) /\ DOMAIN Repeat(g) = 1 .. Size[g]
  BY <1>1 DEF Repeat
<1>3. \A i \in 1 .. Size[g] : Repeat(g)[i] = g
  BY DEF Repeat
<1>4. 1 \in 1 .. Size[g]
  BY <1>1
<1> QED  BY <1>1, <1>2, <1>3, <1>4 DEF Ordered

LEMMA ConcatOrdered ==
    ASSUME NEW p, NEW q, NEW G, NEW H, Ordered(p, G), Ordered(q, H),
           \A g \in G, h \in H : Rank(g) <= Rank(h)
    PROVE  Ordered(p \o q, G \cup H)
<1> DEFINE r == p \o q
<1>1. p \in Seq(Groups) /\ q \in Seq(Groups)
  BY DEF Ordered
<1>2. /\ Len(p) \in Nat /\ Len(q) \in Nat /\ DOMAIN p = 1 .. Len(p) /\ DOMAIN q = 1 .. Len(q)
      /\ r \in Seq(Groups) /\ DOMAIN r = 1 .. Len(p) + Len(q)
  BY <1>1, ConcatProperties, LenProperties
<1>3. \A i \in 1 .. Len(p) + Len(q) : r[i] = IF i <= Len(p) THEN p[i] ELSE q[i - Len(p)]
  BY <1>1, ConcatProperties
<1> HIDE DEF r
<1>4. \A i \in 1 .. Len(p) : r[i] = p[i]
  BY <1>2, <1>3
<1>5. \A i \in 1 .. Len(p) + Len(q) : i > Len(p) => r[i] = q[i - Len(p)] /\ i - Len(p) \in 1 .. Len(q)
  BY <1>2, <1>3
<1>6. \A i \in 1 .. Len(q) : i + Len(p) \in 1 .. Len(p) + Len(q) /\ r[i + Len(p)] = q[i]
  BY <1>2, <1>5
<1>7. ASSUME NEW i \in 1 .. Len(p) + Len(q) PROVE r[i] \in G \cup H
  <2>1. CASE i <= Len(p)
    BY <1>2, <1>4, <2>1 DEF Ordered
  <2>2. CASE i > Len(p)
    BY <1>2, <1>5, <2>2 DEF Ordered
  <2> QED  BY <1>2, <2>1, <2>2
<1>8. ASSUME NEW i \in 1 .. Len(p) + Len(q), NEW j \in 1 .. Len(p) + Len(q), i < j
      PROVE  Rank(r[i]) <= Rank(r[j])
  <2>1. CASE j <= Len(p)
    <3>1. i \in 1 .. Len(p) /\ j \in 1 .. Len(p)
      BY <1>2, <1>8, <2>1
    <3>2. Rank(p[i]) <= Rank(p[j])
      BY <1>2, <1>8, <3>1 DEF Ordered
    <3> QED  BY <1>4, <3>1, <3>2
  <2>2. CASE i <= Len(p) /\ j > Len(p)
    <3>1. i \in 1 .. Len(p) /\ j - Len(p) \in 1 .. Len(q)
      BY <1>2, <1>5, <2>2
    <3>2. p[i] \in G /\ q[j - Len(p)] \in H
      BY <1>2, <3>1 DEF Ordered
    <3> QED  BY <1>4, <1>5, <2>2, <3>1, <3>2
  <2>3. CASE i > Len(p)
    <3>1. j > Len(p) /\ i - Len(p) < j - Len(p)
      BY <1>2, <1>8, <2>3
    <3>2. i - Len(p) \in 1 .. Len(q) /\ j - Len(p) \in 1 .. Len(q)
      BY <1>5, <2>3, <3>1
    <3>3. Rank(q[i - Len(p)]) <= Rank(q[j - Len(p)])
      BY <1>2, <3>1, <3>2 DEF Ordered
    <3> QED  BY <1>5, <2>3, <3>1, <3>3
  <2> QED  BY <1>2, <2>1, <2>2, <2>3
<1>9. ASSUME NEW g \in G \cup H PROVE \E i \in 1 .. Len(p) + Len(q) : r[i] = g
  <2>1. CASE g \in G
    <3>1. PICK i \in 1 .. Len(p) : p[i] = g
      BY <1>2, <2>1 DEF Ordered
    <3>2. i \in 1 .. Len(p) + Len(q)
      BY <1>2
    <3> QED  BY <1>4, <3>1, <3>2
  <2>2. CASE g \in H
    <3>1. PICK i \in 1 .. Len(q) : q[i] = g
      BY <1>2, <2>2 DEF Ordered
    <3> QED  BY <1>6, <3>1
  <2> QED  BY <2>1, <2>2
<1> QED  BY <1>2, <1>7, <1>8, <1>9 DEF Ordered, r

LEMMA EmptyOrdered == Ordered(<<>>, {})
BY DEF Ordered

PaidGroups(types) ==
    (IF "9.9" \in types THEN {"B1-9.9"} ELSE {}) \cup (IF "2.9" \in types THEN {"B2-2.9"} ELSE {})

LEMMA BlocksOrdered ==
    /\ Ordered(IaaBlock, {"B1", "B4", "B7", "BX"})
    /\ Ordered(IapBlock, {"B1-9.9", "B2-2.9"})
    /\ \A types : Ordered(RequiredPattern("IAP", types), PaidGroups(types))
    /\ \A types : RequiredPattern("IAA", types) = IaaBlock
<1>1. /\ Rank("B1") = 1 /\ Rank("B4") = 2 /\ Rank("B7") = 3 /\ Rank("BX") = 4
      /\ Rank("B1-9.9") = 1 /\ Rank("B2-2.9") = 2
  BY DEF Rank
<1>2. Ordered(Repeat("B1"), {"B1"}) /\ Ordered(Repeat("B4"), {"B4"}) /\ Ordered(Repeat("B7"), {"B7"})
      /\ Ordered(Repeat("BX"), {"BX"}) /\ Ordered(Repeat("B1-9.9"), {"B1-9.9"})
      /\ Ordered(Repeat("B2-2.9"), {"B2-2.9"})
  BY GroupsAre, RepeatOrdered
<1>3. Ordered(IaaBlock, {"B1", "B4", "B7", "BX"})
  <2>1. Ordered(Repeat("B1") \o Repeat("B4"), {"B1"} \cup {"B4"})
    BY <1>1, <1>2, ConcatOrdered
  <2>2. Ordered((Repeat("B1") \o Repeat("B4")) \o Repeat("B7"), ({"B1"} \cup {"B4"}) \cup {"B7"})
    BY <1>1, <1>2, <2>1, ConcatOrdered
  <2>3. Ordered(((Repeat("B1") \o Repeat("B4")) \o Repeat("B7")) \o Repeat("BX"),
                (({"B1"} \cup {"B4"}) \cup {"B7"}) \cup {"BX"})
    BY <1>1, <1>2, <2>2, ConcatOrdered
  <2>4. (({"B1"} \cup {"B4"}) \cup {"B7"}) \cup {"BX"} = {"B1", "B4", "B7", "BX"}
    OBVIOUS
  <2> QED  BY <2>3, <2>4 DEF IaaBlock
<1>4. Ordered(Repeat("B1-9.9") \o Repeat("B2-2.9"), {"B1-9.9"} \cup {"B2-2.9"})
  BY <1>1, <1>2, ConcatOrdered
<1>5. Ordered(IapBlock, {"B1-9.9", "B2-2.9"})
  <2>1. {"B1-9.9"} \cup {"B2-2.9"} = {"B1-9.9", "B2-2.9"}
    OBVIOUS
  <2> QED  BY <1>4, <2>1 DEF IapBlock
<1>6. ASSUME NEW types PROVE Ordered(RequiredPattern("IAP", types), PaidGroups(types))
  <2> DEFINE p == IF "9.9" \in types THEN Repeat("B1-9.9") ELSE <<>>
             q == IF "2.9" \in types THEN Repeat("B2-2.9") ELSE <<>>
             G == IF "9.9" \in types THEN {"B1-9.9"} ELSE {}
             H == IF "2.9" \in types THEN {"B2-2.9"} ELSE {}
  <2>1. Ordered(p, G) /\ Ordered(q, H)
    BY <1>2, EmptyOrdered
  <2>2. \A g \in G, h \in H : Rank(g) <= Rank(h)
    BY <1>1
  <2>3. RequiredPattern("IAP", types) = p \o q /\ PaidGroups(types) = G \cup H
    BY DEF RequiredPattern, PaidGroups
  <2> HIDE DEF p, q, G, H
  <2>4. Ordered(p \o q, G \cup H)
    BY <2>1, <2>2, ConcatOrdered
  <2> QED  BY <2>3, <2>4
<1>7. \A types : RequiredPattern("IAA", types) = IaaBlock
  BY DEF RequiredPattern
<1> QED  BY <1>3, <1>5, <1>6, <1>7

\* Patterns that hold a first group and another begin with the one and end beyond it.
LEMMA OrderedEnds ==
    ASSUME NEW p, NEW G, Ordered(p, G),
           \E g \in G : Rank(g) = 1, \E g \in G : Rank(g) > 1
    PROVE  p # <<>> /\ Rank(p[1]) = 1 /\ Rank(p[Len(p)]) > 1
<1>1. p \in Seq(Groups) /\ DOMAIN p = 1 .. Len(p) /\ Len(p) \in Nat
  BY LenProperties DEF Ordered
<1>2. PICK i \in DOMAIN p : Rank(p[i]) = 1
  BY DEF Ordered
<1>3. PICK j \in DOMAIN p : Rank(p[j]) > 1
  BY DEF Ordered
<1>4. 1 \in DOMAIN p /\ Len(p) \in DOMAIN p /\ 1 <= i /\ j <= Len(p) /\ i \in Nat /\ j \in Nat
  BY <1>1
<1>5. Rank(p[1]) \in Nat \ {0} /\ Rank(p[Len(p)]) \in Nat \ {0} /\ Rank(p[j]) \in Nat
  BY DEF Rank
<1>6. Rank(p[1]) <= 1
  <2>1. CASE i = 1
    BY <1>2, <2>1
  <2>2. CASE 1 < i
    BY <1>2, <1>4, <2>2 DEF Ordered
  <2> QED  BY <1>4, <2>1, <2>2
<1>7. Rank(p[j]) <= Rank(p[Len(p)])
  <2>1. CASE j = Len(p)
    BY <1>5, <2>1
  <2>2. CASE j < Len(p)
    BY <1>4, <2>2 DEF Ordered
  <2> QED  BY <1>1, <1>4, <2>1, <2>2
<1> QED  BY <1>1, <1>3, <1>4, <1>5, <1>6, <1>7

\* What the searches look for is ordered, and a whole block ends beyond its first group.
LEMMA PatternsOrdered ==
    ASSUME NEW kind \in Kinds
    PROVE  /\ \A types : \E G : Ordered(RequiredPattern(kind, types), G)
           /\ \E G : Ordered(BlockDefinition(kind), G)
           /\ BlockDefinition(kind) # <<>>
           /\ Rank(BlockDefinition(kind)[1]) = 1
           /\ Rank(BlockDefinition(kind)[Len(BlockDefinition(kind))]) > 1
<1>1. Rank("B1") = 1 /\ Rank("B4") = 2 /\ Rank("B1-9.9") = 1 /\ Rank("B2-2.9") = 2
  BY DEF Rank
<1>2. CASE kind = "IAA"
  <2>1. BlockDefinition(kind) = IaaBlock /\ \A types : RequiredPattern(kind, types) = IaaBlock
    BY <1>2 DEF BlockDefinition, RequiredPattern
  <2>2. Ordered(IaaBlock, {"B1", "B4", "B7", "BX"})
    BY BlocksOrdered
  <2>3. IaaBlock # <<>> /\ Rank(IaaBlock[1]) = 1 /\ Rank(IaaBlock[Len(IaaBlock)]) > 1
    BY <1>1, <2>2, OrderedEnds
  <2> QED  BY <2>1, <2>2, <2>3
<1>3. CASE kind = "IAP"
  <2>1. BlockDefinition(kind) = IapBlock
    BY <1>3 DEF BlockDefinition
  <2>2. Ordered(IapBlock, {"B1-9.9", "B2-2.9"})
    BY BlocksOrdered
  <2>3. IapBlock # <<>> /\ Rank(IapBlock[1]) = 1 /\ Rank(IapBlock[Len(IapBlock)]) > 1
    BY <1>1, <2>2, OrderedEnds
  <2>4. \A types : Ordered(RequiredPattern(kind, types), PaidGroups(types))
    BY <1>3, BlocksOrdered
  <2> QED  BY <2>1, <2>2, <2>3, <2>4
<1> QED  BY <1>2, <1>3 DEF Kinds

-----------------------------------------------------------------------------
(* Blocks                                                                   *)

LEMMA MinIs ==
    \A S \in SUBSET Nat : S # {} => Min(S) \in S /\ \A x \in S : Min(S) <= x
<1>0. SUFFICES ASSUME NEW S \in SUBSET Nat, S # {}
               PROVE  \E x \in S : \A y \in S : x <= y
  BY DEF Min
<1>1. PICK x \in S : \A y \in S : <<y, x>> \notin OpToRel(<, Nat)
  BY <1>0, NatLessThanWellFounded, WFMin
<1>2. ASSUME NEW y \in S PROVE x <= y
  <2>1. x \in Nat /\ y \in Nat /\ ~(y < x)
    BY <1>1 DEF OpToRel
  <2> QED  BY <2>1
<1> QED  BY <1>2

LEMMA MaxIs ==
    \A N \in Nat : \A S \in SUBSET (1 .. N) : S # {} => Max(S) \in S /\ \A x \in S : x <= Max(S)
<1>0. SUFFICES ASSUME NEW N \in Nat, NEW S \in SUBSET (1 .. N), S # {}
               PROVE  \E x \in S : \A y \in S : x >= y
  BY DEF Max
<1> DEFINE T == {N - x : x \in S}
<1>1. T \in SUBSET Nat /\ T # {}
  <2>1. \A x \in S : x \in 1 .. N
    OBVIOUS
  <2>2. \A x \in S : N - x \in Nat
    BY <2>1
  <2> QED  BY <1>0, <2>2
<1>2. Min(T) \in T /\ \A t \in T : Min(T) <= t
  BY <1>1, MinIs
<1>3. PICK x \in S : Min(T) = N - x
  BY <1>2
<1>4. ASSUME NEW y \in S PROVE x >= y
  <2>1. N - y \in T /\ x \in Nat /\ y \in Nat
    OBVIOUS
  <2>2. N - x <= N - y
    BY <1>2, <1>3, <2>1
  <2> QED  BY <2>1, <2>2
<1> QED  BY <1>4

\* Successive rows that fit, with the groups of the pattern.
IsWindow(w, rows, pattern, fitting) ==
    /\ w \in Seq(ReadRow) /\ HasPattern(w, pattern)
    /\ \E n \in Nat : \A i \in DOMAIN w : n + i \in DOMAIN rows \cap fitting /\ w[i] = rows[n + i]

LEMMA WindowIs ==
    ASSUME NEW rows \in Seq(ReadRow), NEW pattern \in Seq(Groups), NEW fitting,
           NEW n \in Starts(rows, pattern, fitting), pattern # <<>>
    PROVE  /\ IsWindow(Window(rows, pattern, n), rows, pattern, fitting)
           /\ Window(rows, pattern, n) # <<>>
<1> DEFINE w == Window(rows, pattern, n)
           L == Len(pattern)
<1>1. L \in Nat \ {0} /\ DOMAIN pattern = 1 .. L /\ Len(rows) \in Nat /\ DOMAIN rows = 1 .. Len(rows)
  BY LenProperties
<1>2. n \in 1 .. Len(rows) - L + 1 /\ n \in Nat \ {0} /\ n + L - 1 \in Nat
  BY <1>1 DEF Starts
<1>3. \A i \in 1 .. L : rows[n + i - 1].group = pattern[i] /\ n + i - 1 \in fitting
  BY <1>1 DEF Starts
<1> HIDE DEF L
<1>4. \A i \in 1 .. L : n + i - 1 \in DOMAIN rows
  BY <1>1, <1>2
<1>5. \A i \in n .. n + L - 1 : rows[i] \in ReadRow
  <2>1. \A i \in DOMAIN rows : rows[i] \in ReadRow
    BY <1>1
  <2>2. n .. n + L - 1 \subseteq DOMAIN rows
    BY <1>1, <1>2
  <2> QED  BY <2>1, <2>2
<1>6. w = SubSeq(rows, n, n + L - 1) /\ n \in Int /\ n + L - 1 \in Int
  BY <1>1, <1>2 DEF Window, L
<1> HIDE DEF w
<1>7. w \in Seq(ReadRow) /\ Len(w) = L /\ \A i \in 1 .. L : w[i] = rows[n + i - 1]
  <2>1. /\ w \in Seq(ReadRow)
        /\ Len(w) = IF n <= n + L - 1 THEN (n + L - 1) - n + 1 ELSE 0
        /\ \A i \in 1 .. (n + L - 1) - n + 1 : w[i] = rows[n + i - 1]
    BY <1>5, <1>6, SubSeqProperties
  <2>2. (n + L - 1) - n + 1 = L /\ n <= n + L - 1
    BY <1>1, <1>2
  <2> QED  BY <2>1, <2>2
<1>8. DOMAIN w = 1 .. L
  BY <1>7, LenProperties
<1>9. HasPattern(w, pattern)
  BY <1>1, <1>3, <1>7 DEF HasPattern, L
<1>10. n - 1 \in Nat /\ \A i \in 1 .. L : (n - 1) + i = n + i - 1
  BY <1>1, <1>2
<1>11. \A i \in DOMAIN w : (n - 1) + i \in DOMAIN rows \cap fitting /\ w[i] = rows[(n - 1) + i]
  BY <1>3, <1>4, <1>7, <1>8, <1>10
<1>12. IsWindow(w, rows, pattern, fitting)
  BY <1>7, <1>9, <1>10, <1>11 DEF IsWindow
<1>13. w # <<>>
  BY <1>1, <1>7
<1> QED  BY <1>12, <1>13 DEF w

Free(rows, allocated) == {n \in DOMAIN rows : LET r == rows[n] IN
                              r.enabled /\ r.drama = Nobody /\ r.cid \notin allocated}

\* What FindBlock finds is a window of free rows.
LEMMA FoundBlock ==
    ASSUME NEW rows \in Seq(ReadRow), NEW allocated, NEW pattern \in Seq(Groups)
    PROVE  /\ FindBlock(rows, allocated, pattern) \in Seq(ReadRow)
           /\ FindBlock(rows, allocated, pattern) # <<>> =>
                IsWindow(FindBlock(rows, allocated, pattern), rows, pattern, Free(rows, allocated))
<1> DEFINE starts == Starts(rows, pattern, Free(rows, allocated))
<1>1. FindBlock(rows, allocated, pattern)
        = IF pattern = <<>> \/ starts = {} THEN <<>> ELSE Window(rows, pattern, Min(starts))
  BY DEF FindBlock, Free
<1>2. CASE pattern = <<>> \/ starts = {}
  BY <1>1, <1>2
<1>3. CASE pattern # <<>> /\ starts # {}
  <2>1. starts \in SUBSET Nat
    BY LenProperties DEF Starts
  <2>2. Min(starts) \in starts
    BY <1>3, <2>1, MinIs
  <2> HIDE DEF starts
  <2>3. FindBlock(rows, allocated, pattern) = Window(rows, pattern, Min(starts))
    BY <1>1, <1>3
  <2>4. IsWindow(Window(rows, pattern, Min(starts)), rows, pattern, Free(rows, allocated))
    BY <1>3, <2>2, WindowIs DEF starts
  <2> QED  BY <2>3, <2>4 DEF IsWindow
<1> QED  BY <1>2, <1>3

\* The template is a whole block of the rows that were not used.
LEMMA FoundTemplate ==
    ASSUME NEW rows \in Seq(ReadRow), NEW kind \in Kinds, NEW used
    PROVE  /\ LatestAppendTemplate(rows, kind, used) \in Seq(ReadRow)
           /\ LatestAppendTemplate(rows, kind, used) # <<>> =>
                IsWindow(LatestAppendTemplate(rows, kind, used), rows, BlockDefinition(kind),
                         DOMAIN rows)
<1> DEFINE usable == {n \in DOMAIN rows : rows[n].enabled /\ rows[n].cid \notin used}
           starts == Starts(rows, BlockDefinition(kind), usable)
<1>1. LatestAppendTemplate(rows, kind, used)
        = IF starts = {} THEN <<>> ELSE Window(rows, BlockDefinition(kind), Max(starts))
  BY DEF LatestAppendTemplate
<1>2. BlockDefinition(kind) \in Seq(Groups) /\ BlockDefinition(kind) # <<>>
  BY PatternsOrdered DEF Ordered
<1>3. CASE starts = {}
  BY <1>1, <1>3
<1>4. CASE starts # {}
  <2>1. starts \in SUBSET (1 .. Len(rows))
    <3>1. Len(rows) \in Nat /\ Len(BlockDefinition(kind)) \in Nat \ {0}
      BY <1>2, LenProperties
    <3>2. starts \subseteq 1 .. Len(rows) - Len(BlockDefinition(kind)) + 1
      BY DEF Starts
    <3> QED  BY <3>1, <3>2
  <2>2. Max(starts) \in starts
    BY <1>4, <2>1, MaxIs, LenProperties
  <2> HIDE DEF starts
  <2>3. LatestAppendTemplate(rows, kind, used) = Window(rows, BlockDefinition(kind), Max(starts))
    BY <1>1, <1>4
  <2>4. IsWindow(Window(rows, BlockDefinition(kind), Max(starts)), rows, BlockDefinition(kind), usable)
    BY <1>2, <2>2, WindowIs DEF starts
  <2>5. usable \subseteq DOMAIN rows
    OBVIOUS
  <2> HIDE DEF usable
  <2>6. IsWindow(Window(rows, BlockDefinition(kind), Max(starts)), rows, BlockDefinition(kind),
                 DOMAIN rows)
    BY <2>4, <2>5 DEF IsWindow
  <2> QED  BY <2>3, <2>6 DEF IsWindow
<1> QED  BY <1>3, <1>4

\* A window of a sheet has every CID once: a repeat is in another block.
LEMMA DistinctWindow ==
    ASSUME NEW s \in Seq(AccountRow), NEW rows, ReadUpTo(rows, s, Len(s)), RepeatsApart(s),
           NEW pattern, NEW G, Ordered(pattern, G), NEW fitting, NEW w,
           IsWindow(w, rows, pattern, fitting)
    PROVE  /\ \A i \in DOMAIN w : w[i].at \in Filled(s) /\ w[i] = CellsOf(s, w[i].at)
           /\ \A i, j \in DOMAIN w : i < j => w[i].at < w[j].at
           /\ \A i, j \in DOMAIN w : w[i].cid = w[j].cid => i = j
<1>1. rows \in Seq(ReadRow) /\ w \in Seq(ReadRow) /\ pattern \in Seq(Groups)
  BY DEF ReadUpTo, IsWindow, Ordered
<1>2. /\ DOMAIN rows = 1 .. Len(rows) /\ Len(rows) \in Nat
      /\ DOMAIN w = 1 .. Len(w) /\ Len(w) \in Nat /\ DOMAIN pattern = 1 .. Len(pattern)
  BY <1>1, LenProperties
<1>3. PICK n \in Nat : \A i \in DOMAIN w : n + i \in DOMAIN rows /\ w[i] = rows[n + i]
  BY DEF IsWindow
<1>4. Len(w) = Len(pattern) /\ \A i \in DOMAIN pattern : w[i].group = pattern[i]
  BY DEF IsWindow, HasPattern
<1>5. \A i \in DOMAIN w : w[i].at \in Filled(s) /\ w[i] = CellsOf(s, w[i].at)
  BY <1>3 DEF ReadUpTo
<1>6. \A i \in Filled(s) : i \in Nat
  BY FilledIn, LenProperties
<1>7. ASSUME NEW i \in DOMAIN w, NEW j \in DOMAIN w, i < j PROVE w[i].at < w[j].at
  <2>1. n + i < n + j
    BY <1>2, <1>7
  <2> QED  BY <1>3, <2>1 DEF ReadUpTo
<1>8. ASSUME NEW i \in DOMAIN w, NEW j \in DOMAIN w, i < j PROVE w[i].cid # w[j].cid
  <2> SUFFICES ASSUME w[i].cid = w[j].cid PROVE FALSE
    OBVIOUS
  <2>1. s[w[i].at].cid = s[w[j].at].cid
    BY <1>5 DEF CellsOf
  <2>2. w[i].at \in Filled(s) /\ w[j].at \in Filled(s) /\ w[i].at < w[j].at
    BY <1>5, <1>7, <1>8
  <2>3. PICK x \in Filled(s), y \in Filled(s) :
             w[i].at <= x /\ x < y /\ y <= w[j].at /\ Rank(s[y].group) < Rank(s[x].group)
    BY <2>1, <2>2 DEF RepeatsApart
  <2>4. x <= Len(s) /\ y <= Len(s)
    BY FilledIn, LenProperties
  <2>5. PICK a \in DOMAIN rows, b \in DOMAIN rows : rows[a].at = x /\ rows[b].at = y
    BY <2>4 DEF ReadUpTo
  <2>6. \A c, d \in DOMAIN rows : rows[c].at <= rows[d].at => c <= d
    <3> SUFFICES ASSUME NEW c \in DOMAIN rows, NEW d \in DOMAIN rows, rows[c].at <= rows[d].at, ~(c <= d)
                 PROVE  FALSE
      OBVIOUS
    <3>1. d < c
      BY <1>2
    <3>2. rows[d].at < rows[c].at /\ rows[d].at \in Nat /\ rows[c].at \in Nat
      BY <1>6, <3>1 DEF ReadUpTo
    <3> QED  BY <3>2
  <2>7. n + i <= a /\ b <= n + j
    BY <1>3, <2>3, <2>5, <2>6
  <2>8. a < b
    <3>1. a <= b /\ a # b
      <4>1. x \in Nat /\ y \in Nat /\ x <= y /\ x # y
        BY <1>6, <2>3
      <4> QED  BY <2>5, <2>6, <4>1
    <3> QED  BY <1>2, <3>1
  <2> DEFINE p == a - n
             q == b - n
  <2>9. p \in DOMAIN w /\ q \in DOMAIN w /\ p < q /\ n + p = a /\ n + q = b
    BY <1>2, <2>7, <2>8
  <2> HIDE DEF p, q
  <2>10. s[x].group = pattern[p] /\ s[y].group = pattern[q]
    <3>1. w[p].at = x /\ w[q].at = y
      BY <1>3, <2>5, <2>9
    <3>2. s[x].group = w[p].group /\ s[y].group = w[q].group
      BY <1>5, <2>9, <3>1 DEF CellsOf
    <3> QED  BY <1>2, <1>4, <2>9, <3>2
  <2>11. Rank(pattern[p]) <= Rank(pattern[q])
    BY <1>2, <1>4, <2>9 DEF Ordered
  <2>12. Rank(pattern[p]) \in Nat /\ Rank(pattern[q]) \in Nat
    BY DEF Rank
  <2> QED  BY <2>3, <2>10, <2>11, <2>12
<1>9. ASSUME NEW i \in DOMAIN w, NEW j \in DOMAIN w, w[i].cid = w[j].cid PROVE i = j
  BY <1>2, <1>8, <1>9
<1> QED  BY <1>5, <1>7, <1>9

-----------------------------------------------------------------------------
(* Repeats in the sheets                                                    *)

\* Names, switches and test flags do not matter to them.
LEMMA RepeatsKept ==
    \A s, t : /\ RepeatsApart(s) /\ DOMAIN t = DOMAIN s
              /\ \A i \in DOMAIN s : t[i].group = s[i].group /\ t[i].cid = s[i].cid
              => RepeatsApart(t)
<1> SUFFICES ASSUME NEW s, NEW t, RepeatsApart(s), DOMAIN t = DOMAIN s,
                    \A i \in DOMAIN s : t[i].group = s[i].group /\ t[i].cid = s[i].cid
             PROVE  RepeatsApart(t)
  OBVIOUS
<1>1. Filled(t) = Filled(s)
  BY DEF Filled
<1>2. \A i \in Filled(s) : t[i].group = s[i].group /\ t[i].cid = s[i].cid
  BY DEF Filled
<1>3. ASSUME NEW i \in Filled(s), NEW j \in Filled(s), i < j, t[i].cid = t[j].cid
      PROVE  /\ \E m, n \in Filled(s) :
                   i <= m /\ m < n /\ n <= j /\ Rank(t[n].group) < Rank(t[m].group)
             /\ \A last \in Filled(s) :
                   (\A n \in Filled(s) : n <= last) => Rank(t[last].group) > 1
  <2>1. s[i].cid = s[j].cid
    BY <1>2, <1>3
  <2>2. PICK m \in Filled(s), n \in Filled(s) :
             i <= m /\ m < n /\ n <= j /\ Rank(s[n].group) < Rank(s[m].group)
    BY <1>3, <2>1 DEF RepeatsApart
  <2>3. \A last \in Filled(s) : (\A x \in Filled(s) : x <= last) => Rank(s[last].group) > 1
    BY <1>3, <2>1 DEF RepeatsApart
  <2> QED  BY <1>2, <2>2, <2>3
<1> QED  BY <1>1, <1>3 DEF RepeatsApart

\* The rows of a sheet below a copy of t that was put under the row last.
Extended(s, last, t) ==
    SubSeq(s, 1, last) \o Written(t) \o SubSeq(s, last + Len(t) + 1, Len(s))

LEMMA ExtendedIs ==
    ASSUME NEW s \in Seq(AccountRow), NEW last \in Filled(s), NEW t \in Seq(ReadRow)
    PROVE  /\ Extended(s, last, t) \in Seq(AccountRow)
           /\ \A i \in 1 .. last : Extended(s, last, t)[i] = s[i]
           /\ \A i \in DOMAIN t : /\ Extended(s, last, t)[last + i].group = t[i].group
                                  /\ Extended(s, last, t)[last + i].cid = t[i].cid
           /\ \A i \in DOMAIN Extended(s, last, t) : i > last + Len(t) =>
                 i \in DOMAIN s /\ Extended(s, last, t)[i] = s[i]
           /\ last + Len(t) \in 1 .. Len(Extended(s, last, t))
<1> DEFINE L == Len(t)
           N == Len(s)
           a == SubSeq(s, 1, last)
           b == Written(t)
           c == SubSeq(s, last + L + 1, N)
           r == Extended(s, last, t)
<1>1. DOMAIN s = 1 .. N /\ N \in Nat /\ DOMAIN t = 1 .. L /\ L \in Nat
  BY LenProperties
<1>2. last \in 1 .. N /\ last \in Nat \ {0} /\ last \in Int /\ N \in Int /\ last + L + 1 \in Int
  BY <1>1, FilledIn
<1>3. \A i \in 1 .. N : s[i] \in AccountRow
  BY <1>1
<1>4. a \in Seq(AccountRow) /\ Len(a) = last /\ \A i \in 1 .. last : a[i] = s[i]
  <2>1. \A i \in 1 .. last : s[i] \in AccountRow
    BY <1>2, <1>3
  <2>2. a \in Seq(AccountRow) /\ Len(a) = (IF 1 <= last THEN last - 1 + 1 ELSE 0)
        /\ \A i \in 1 .. last - 1 + 1 : a[i] = s[1 + i - 1]
    BY <1>2, <2>1, SubSeqProperties
  <2>3. last - 1 + 1 = last /\ 1 <= last /\ \A i \in 1 .. last : 1 + i - 1 = i
    BY <1>2
  <2> QED  BY <2>2, <2>3
<1>5. b \in Seq(AccountRow) /\ Len(b) = L /\ \A i \in 1 .. L : b[i].group = t[i].group /\ b[i].cid = t[i].cid
  <2>1. \A i \in 1 .. L : t[i] \in ReadRow
    BY <1>1
  <2>2. ASSUME NEW i \in 1 .. L
        PROVE  [group |-> t[i].group, cid |-> t[i].cid, drama |-> t[i].drama,
                enabled |-> t[i].enabled, test |-> t[i].test] \in AccountRow
    BY <2>1 DEF ReadRow, AccountRow
  <2>3. b = [i \in 1 .. L |-> [group |-> t[i].group, cid |-> t[i].cid, drama |-> t[i].drama,
                               enabled |-> t[i].enabled, test |-> t[i].test]]
    BY <1>1 DEF Written
  <2> HIDE DEF b, L
  <2> QED  BY <1>1, <2>2, <2>3
<1>6. /\ c \in Seq(AccountRow)
      /\ Len(c) = IF last + L + 1 <= N THEN N - (last + L + 1) + 1 ELSE 0
      /\ \A i \in 1 .. N - (last + L + 1) + 1 : c[i] = s[last + L + 1 + i - 1]
  <2>1. \A i \in last + L + 1 .. N : s[i] \in AccountRow
    BY <1>1, <1>2, <1>3
  <2> QED  BY <1>2, <2>1, SubSeqProperties, SMTT(60)
<1>7. r = (a \o b) \o c
  BY DEF Extended
<1> HIDE DEF a, b, c, r, L, N
<1>8. /\ a \o b \in Seq(AccountRow) /\ Len(a \o b) = last + L
      /\ \A i \in 1 .. last + L : (a \o b)[i] = IF i <= last THEN a[i] ELSE b[i - last]
  BY <1>4, <1>5, ConcatProperties, ZenonT(60)
<1>9. /\ r \in Seq(AccountRow) /\ Len(r) = (last + L) + Len(c)
      /\ \A i \in 1 .. (last + L) + Len(c) :
            r[i] = IF i <= last + L THEN (a \o b)[i] ELSE c[i - (last + L)]
  BY <1>6, <1>7, <1>8, ConcatProperties
<1>10. Len(c) \in Nat /\ DOMAIN r = 1 .. (last + L) + Len(c)
  BY <1>6, <1>9, LenProperties
<1>11. \A i \in 1 .. last : r[i] = s[i]
  BY <1>1, <1>2, <1>4, <1>8, <1>9, <1>10
<1>12. ASSUME NEW i \in 1 .. L PROVE r[last + i].group = t[i].group /\ r[last + i].cid = t[i].cid
  <2>0. i \in Nat \ {0} /\ i <= L
    BY <1>1
  <2>1. /\ last + i \in 1 .. last + L /\ last + i \in 1 .. (last + L) + Len(c)
        /\ ~(last + i <= last) /\ last + i <= last + L /\ (last + i) - last = i
    BY <1>1, <1>2, <1>10, <2>0
  <2>2. (a \o b)[last + i] = b[i]
    BY <1>8, <2>1
  <2>3. r[last + i] = (a \o b)[last + i]
    BY <1>9, <2>1
  <2> QED  BY <1>5, <2>2, <2>3
<1>13. ASSUME NEW i \in DOMAIN r, i > last + L PROVE i \in 1 .. N /\ r[i] = s[i]
  <2> DEFINE x == i - (last + L)
  <2>1. i \in Nat /\ x \in 1 .. Len(c) /\ r[i] = c[x]
    BY <1>1, <1>2, <1>9, <1>10, <1>13
  <2>2. Len(c) = N - (last + L + 1) + 1 /\ last + L + 1 <= N
    BY <1>6, <2>1, <1>10
  <2>3. c[x] = s[last + L + 1 + x - 1]
    BY <1>6, <2>1, <2>2
  <2>4. last + L + 1 + x - 1 = i /\ i \in 1 .. N
    BY <1>1, <1>2, <2>1, <2>2, SMTT(60)
  <2> QED  BY <2>1, <2>3, <2>4
<1>14. last + L \in 1 .. Len(r)
  BY <1>1, <1>2, <1>9, <1>10
<1> QED  BY <1>1, <1>9, <1>11, <1>12, <1>13, <1>14 DEF r, L, N

\* r is s, of N rows, with a copy of its rows `at`, a whole block, put under its last one.
IsCopy(s, N, at, t, L, last, r, R) ==
    /\ N \in Nat /\ DOMAIN s = 1 .. N /\ R \in Nat /\ DOMAIN r = 1 .. R
    /\ L \in Nat \ {0} /\ DOMAIN t = 1 .. L
    /\ Rank(t[1].group) = 1 /\ Rank(t[L].group) > 1 /\ \A i \in 1 .. L : t[i].group # ""
    /\ \A i \in 1 .. L :
          at[i] \in Filled(s) /\ s[at[i]].group = t[i].group /\ s[at[i]].cid = t[i].cid
    /\ \A i, j \in 1 .. L : i < j => at[i] < at[j]
    /\ \A i, j \in 1 .. L : t[i].cid = t[j].cid => i = j
    /\ last \in Filled(s) /\ \A n \in Filled(s) : n <= last
    /\ \A i \in 1 .. last : r[i] = s[i]
    /\ \A i \in 1 .. L : r[last + i].group = t[i].group /\ r[last + i].cid = t[i].cid
    /\ \A i \in 1 .. R : i > last + L => i \in 1 .. N /\ r[i] = s[i]
    /\ last + L <= R

\* Such a copy is another block: its CIDs stay apart from where they were.
LEMMA CopyApart ==
    \A s, N, at, t, L, last, r, R :
        IsCopy(s, N, at, t, L, last, r, R) /\ RepeatsApart(s) => RepeatsApart(r)
<1>a. SUFFICES ASSUME NEW s, NEW N, NEW at, NEW t, NEW L, NEW last, NEW r, NEW R,
                      IsCopy(s, N, at, t, L, last, r, R), RepeatsApart(s)
               PROVE  RepeatsApart(r)
  OBVIOUS
<1>0. /\ \A i \in 1 .. L : t[i].group # ""
      /\ \A i \in 1 .. L :
            at[i] \in Filled(s) /\ s[at[i]].group = t[i].group /\ s[at[i]].cid = t[i].cid
      /\ \A i, j \in 1 .. L : i < j => at[i] < at[j]
      /\ \A i, j \in 1 .. L : t[i].cid = t[j].cid => i = j
      /\ RepeatsApart(s)
  BY <1>a DEF IsCopy
<1>b. N \in Nat /\ R \in Nat /\ L \in Nat \ {0} /\ last + L <= R
  BY <1>a DEF IsCopy
<1>1. N \in Nat /\ DOMAIN s = 1 .. N
  BY <1>a DEF IsCopy
<1>2. R \in Nat /\ DOMAIN r = 1 .. R
  BY <1>a DEF IsCopy
<1>3. L \in Nat \ {0} /\ Rank(t[1].group) = 1 /\ Rank(t[L].group) > 1
  BY <1>a DEF IsCopy
<1>4. last \in Filled(s) /\ last \in 1 .. N /\ last \in Nat \ {0} /\ last + L <= R
  BY <1>a, FilledIn DEF IsCopy
<1>5. \A i \in Filled(s) : i \in Nat \ {0} /\ i <= last
  BY <1>a, FilledIn DEF IsCopy
<1>15. last \in Nat /\ last <= N /\ N \in Nat /\ L \in Nat /\ 1 <= L /\ R \in Nat /\ last + L <= R
  <2>1. last \in 1 .. N
    BY <1>4
  <2> QED  BY <1>b, <2>1
<1>16. last + L \in Nat /\ last <= R
  BY <1>15
<1>6. \A i \in 1 .. last : r[i] = s[i]
  BY <1>a DEF IsCopy
<1>18. \A i \in 1 .. R : i > last + L => i \in 1 .. N /\ r[i] = s[i]
  BY <1>a DEF IsCopy
<1>7. \A i \in 1 .. L : r[last + i].group = t[i].group /\ r[last + i].cid = t[i].cid
  BY <1>a DEF IsCopy
<1>17. ASSUME NEW i, i \in Filled(r) PROVE i \in DOMAIN r /\ r[i].group # ""
  BY <1>17 DEF Filled
<1>8. ASSUME NEW i, i \in Filled(r) PROVE i \in 1 .. R /\ i \in Nat /\ 1 <= i
  <2>1. i \in DOMAIN r
    BY <1>8, <1>17
  <2> QED  BY <1>2, <2>1
<1>9. ASSUME NEW i, i \in Filled(r)
      PROVE  \/ i \in Filled(s) /\ r[i] = s[i]
             \/ i - last \in 1 .. L /\ i > last
  <2>1. i \in Nat /\ 1 <= i /\ i \in 1 .. R
    BY <1>8, <1>9
  <2>2. r[i].group # ""
    BY <1>9, <1>17
  <2>3. ASSUME i \in 1 .. N, r[i] = s[i] PROVE i \in Filled(s)
    BY <1>1, <2>2, <2>3 DEF Filled
  <2>4. CASE i <= last
    <3>1. i \in 1 .. last /\ i \in 1 .. N
      BY <1>15, <2>1, <2>4
    <3> QED  BY <1>6, <2>3, <3>1
  <2>5. CASE i > last + L
    <3>1. i \in 1 .. N /\ r[i] = s[i]
      BY <1>18, <2>1, <2>5
    <3> QED  BY <2>3, <3>1
  <2>6. CASE i > last /\ i <= last + L
    <3>1. i - last \in 1 .. L
      BY <1>15, <2>1, <2>6
    <3> QED  BY <2>6, <3>1
  <2>7. i <= last \/ i > last + L \/ (i > last /\ i <= last + L)
    BY <1>15, <1>16, <2>1
  <2> QED  BY <2>4, <2>5, <2>6, <2>7
<1>10. ASSUME NEW i, i \in Filled(s) PROVE i \in Filled(r) /\ r[i] = s[i]
  <2>1. s[i].group # ""
    BY <1>10 DEF Filled
  <2>2. i \in Nat /\ 1 <= i /\ i <= last
    <3>1. i \in Nat \ {0} /\ i <= last
      BY <1>5, <1>10
    <3> QED  BY <3>1
  <2>3. i \in 1 .. last /\ i \in 1 .. R
    BY <1>15, <1>16, <2>2
  <2> QED  BY <1>2, <1>6, <2>1, <2>3 DEF Filled
<1>11. ASSUME NEW i \in 1 .. L PROVE last + i \in Filled(r)
  <2>1. last + i \in 1 .. R
    BY <1>15
  <2>2. r[last + i].group # ""
    <3>1. t[i].group # ""
      BY <1>0
    <3> QED  BY <1>7, <3>1
  <2> QED  BY <1>2, <2>1, <2>2 DEF Filled
<1>20. last \in Filled(s) /\ \A n \in Filled(s) : n <= last
  BY <1>a DEF IsCopy
<1>12. 1 \in 1 .. L /\ L \in 1 .. L
  BY <1>3
<1>13. ASSUME NEW i, NEW j, i \in Filled(r), j \in Filled(r), i < j, r[i].cid = r[j].cid
      PROVE  \E m, n \in Filled(r) :
                i <= m /\ m < n /\ n <= j /\ Rank(r[n].group) < Rank(r[m].group)
  <2>0. i \in Nat /\ j \in Nat
    BY <1>8, <1>13
  <2>1. CASE j \in Filled(s)
    <3>1. i \in Filled(s)
      <4>1. j <= last
        BY <1>5, <2>1
      <4>2. ~(i > last)
        BY <1>4, <1>13, <2>0, <4>1
      <4> QED  BY <1>9, <1>13, <4>2
    <3>2. s[i].cid = s[j].cid
      BY <1>10, <1>13, <2>1, <3>1
    <3>3. PICK m \in Filled(s), n \in Filled(s) :
               i <= m /\ m < n /\ n <= j /\ Rank(s[n].group) < Rank(s[m].group)
      BY <1>0, <1>13, <2>1, <3>1, <3>2 DEF RepeatsApart
    <3> QED  BY <1>10, <3>3
  <2>2. CASE i \in Filled(s) /\ j - last \in 1 .. L /\ j > last
    <3>1. PICK y \in 1 .. L : y = j - last /\ last + y = j
      BY <1>4, <2>0, <2>2
    <3>2. PICK o \in Filled(s) : o = at[y] /\ s[o].cid = t[y].cid
      BY <1>0
    <3>3. s[i].cid = s[o].cid
      BY <1>7, <1>10, <1>13, <2>2, <3>1, <3>2
    <3>4. CASE Rank(s[last].group) > 1
      <4>1. last + 1 <= j /\ i <= last /\ last < last + 1
        BY <1>4, <1>5, <2>0, <2>2
      <4>2. last \in Filled(r) /\ r[last] = s[last]
        BY <1>4, <1>10
      <4>3. last + 1 \in Filled(r) /\ r[last + 1].group = t[1].group
        BY <1>7, <1>11, <1>12
      <4> QED  BY <1>3, <3>4, <4>1, <4>2, <4>3
    <3>5. CASE ~(Rank(s[last].group) > 1)
      <4>1. i = o
        <5>1. \A a, b \in Filled(s) : a < b => s[a].cid # s[b].cid
          BY <1>0, <1>20, <3>5 DEF RepeatsApart
        <5>2. i \in Nat /\ o \in Nat
          BY <1>5, <2>2
        <5> QED  BY <2>2, <3>3, <5>1, <5>2
      <4>2. PICK e \in Filled(s) : e = at[L] /\ s[e].group = t[L].group
        BY <1>0, <1>12
      <4>3. i <= e
        <5>1. CASE y = L
          BY <1>5, <3>2, <4>1, <4>2, <5>1
        <5>2. CASE y < L
          <6>1. o < e
            BY <1>0, <1>12, <3>2, <4>2, <5>2
          <6> QED  BY <1>5, <4>1, <6>1
        <5> QED  BY <1>3, <5>1, <5>2
      <4>4. Rank(s[e].group) > 1 /\ e # last
        BY <1>3, <3>5, <4>2
      <4>5. e < last /\ last <= j
        BY <1>4, <1>5, <2>0, <2>2, <4>4
      <4>6. Rank(s[last].group) < Rank(s[e].group)
        <5>1. Rank(s[last].group) \in Nat /\ Rank(s[e].group) \in Nat
          BY DEF Rank
        <5> QED  BY <3>5, <4>4, <5>1
      <4>7. e \in Filled(r) /\ r[e] = s[e] /\ last \in Filled(r) /\ r[last] = s[last]
        BY <1>4, <1>10
      <4> QED  BY <4>3, <4>5, <4>6, <4>7
    <3> QED  BY <3>4, <3>5
  <2>3. CASE i - last \in 1 .. L /\ i > last /\ j - last \in 1 .. L /\ j > last
    <3>1. last + (i - last) = i /\ last + (j - last) = j /\ i - last # j - last
      BY <1>4, <1>13, <2>0
    <3>2. t[i - last].cid = t[j - last].cid
      BY <1>7, <1>13, <2>3, <3>1
    <3> QED  BY <1>0, <2>3, <3>1, <3>2
  <2> QED  BY <1>9, <1>13, <2>1, <2>2, <2>3
<1>14. ASSUME NEW x, x \in Filled(r), \A n \in Filled(r) : n <= x PROVE Rank(r[x].group) > 1
  <2>1. last + L \in Filled(r) /\ r[last + L].group = t[L].group
    BY <1>7, <1>11, <1>12
  <2>2. last + L <= x /\ x \in Nat
    BY <1>8, <1>14, <2>1
  <2>3. x <= last + L
    <3>1. CASE x \in Filled(s)
      BY <1>3, <1>4, <1>5, <2>2, <3>1
    <3>2. CASE x - last \in 1 .. L
      BY <1>3, <1>4, <2>2, <3>2
    <3> QED  BY <1>9, <1>14, <3>1, <3>2
  <2>4. x = last + L
    BY <1>3, <1>4, <2>2, <2>3
  <2> QED  BY <1>3, <2>1, <2>4
<1> QED  BY <1>13, <1>14 DEF RepeatsApart

LEMMA ExtendedApart ==
    ASSUME NEW s \in Seq(AccountRow), RepeatsApart(s),
           NEW kind \in Kinds, NEW t \in Seq(ReadRow), HasPattern(t, BlockDefinition(kind)),
           \A i \in DOMAIN t : /\ t[i].at \in Filled(s) /\ s[t[i].at].group = t[i].group
                              /\ s[t[i].at].cid = t[i].cid,
           \A i, j \in DOMAIN t : i < j => t[i].at < t[j].at,
           \A i, j \in DOMAIN t : t[i].cid = t[j].cid => i = j,
           NEW last \in Filled(s), \A n \in Filled(s) : n <= last,
           NEW rows \in Seq(ReadRow), DOMAIN rows = DOMAIN t, Len(rows) = Len(t),
           \A i \in DOMAIN t : rows[i].group = t[i].group /\ rows[i].cid = t[i].cid
    PROVE  RepeatsApart(Extended(s, last, rows))
<1> DEFINE r == Extended(s, last, rows)
           B == BlockDefinition(kind)
           at == [i \in 1 .. Len(t) |-> t[i].at]
<1>1. Len(s) \in Nat /\ DOMAIN s = 1 .. Len(s) /\ Len(t) \in Nat /\ DOMAIN t = 1 .. Len(t)
  BY LenProperties
<1>2. /\ r \in Seq(AccountRow)
      /\ \A i \in 1 .. last : r[i] = s[i]
      /\ \A i \in DOMAIN t : r[last + i].group = t[i].group /\ r[last + i].cid = t[i].cid
      /\ \A i \in DOMAIN r : i > last + Len(t) => i \in DOMAIN s /\ r[i] = s[i]
      /\ last + Len(t) \in 1 .. Len(r)
  <2>1. /\ r \in Seq(AccountRow)
        /\ \A i \in 1 .. last : r[i] = s[i]
        /\ \A i \in DOMAIN rows : r[last + i].group = rows[i].group /\ r[last + i].cid = rows[i].cid
        /\ \A i \in DOMAIN r : i > last + Len(rows) => i \in DOMAIN s /\ r[i] = s[i]
        /\ last + Len(rows) \in 1 .. Len(r)
    BY ExtendedIs
  <2> HIDE DEF r
  <2> QED  BY <2>1
<1>3. Len(r) \in Nat /\ DOMAIN r = 1 .. Len(r)
  BY <1>2, LenProperties
<1>4. /\ B # <<>> /\ Rank(B[1]) = 1 /\ Rank(B[Len(B)]) > 1 /\ B \in Seq(Groups)
  BY PatternsOrdered DEF Ordered
<1>5. Len(t) = Len(B) /\ \A i \in DOMAIN B : t[i].group = B[i]
  BY DEF HasPattern
<1> HIDE DEF r, B
<1>6. Len(B) \in Nat \ {0} /\ DOMAIN B = 1 .. Len(B)
  BY <1>4, LenProperties
<1>7. Rank(t[1].group) = 1 /\ Rank(t[Len(t)].group) > 1 /\ Len(t) \in Nat \ {0}
  <2>1. 1 \in DOMAIN B /\ Len(B) \in DOMAIN B
    BY <1>6
  <2> QED  BY <1>4, <1>5, <1>6, <2>1
<1>8. \A i \in 1 .. Len(t) : t[i].group # ""
  <2>1. \A i \in 1 .. Len(t) : s[t[i].at].group # "" /\ s[t[i].at].group = t[i].group
    BY <1>1 DEF Filled
  <2> QED  BY <2>1
<1>9. last + Len(t) <= Len(r)
  BY <1>2
<1>10. /\ \A i \in 1 .. Len(t) :
              at[i] \in Filled(s) /\ s[at[i]].group = t[i].group /\ s[at[i]].cid = t[i].cid
       /\ \A i, j \in 1 .. Len(t) : i < j => at[i] < at[j]
       /\ \A i, j \in 1 .. Len(t) : t[i].cid = t[j].cid => i = j
  BY <1>1
<1>11. /\ \A i \in 1 .. Len(t) : r[last + i].group = t[i].group /\ r[last + i].cid = t[i].cid
       /\ \A i \in 1 .. Len(r) : i > last + Len(t) => i \in 1 .. Len(s) /\ r[i] = s[i]
  BY <1>1, <1>2, <1>3
<1>12. \A i \in 1 .. last : r[i] = s[i]
  BY <1>2
<1> HIDE DEF at
<1>13. last \in Filled(s) /\ (\A n \in Filled(s) : n <= last) /\ RepeatsApart(s)
  OBVIOUS
<1>14. IsCopy(s, Len(s), at, t, Len(t), last, r, Len(r))
  BY <1>1, <1>3, <1>7, <1>8, <1>9, <1>10, <1>11, <1>12, <1>13, Zenon DEF IsCopy
<1>15. RepeatsApart(r)
  BY <1>13, <1>14, CopyApart, Zenon
<1> QED  BY <1>15 DEF r

-----------------------------------------------------------------------------
(* Accounts                                                                 *)

Block == [kind : Kinds, rows : Seq(ReadRow)]

LEMMA AccountsOfAre ==
    \A block : block.rows \in Seq(ReadRow) =>
        /\ AccountsOf(block) \in Seq(Account)
        /\ Len(AccountsOf(block)) = Len(block.rows)
        /\ \A n \in 1 .. Len(block.rows) : /\ AccountsOf(block)[n].role = block.rows[n].group
                                           /\ AccountsOf(block)[n].cid = block.rows[n].cid
<1>0. SUFFICES ASSUME NEW block, block.rows \in Seq(ReadRow)
               PROVE  /\ AccountsOf(block) \in Seq(Account)
                      /\ Len(AccountsOf(block)) = Len(block.rows)
                      /\ \A n \in 1 .. Len(block.rows) :
                            /\ AccountsOf(block)[n].role = block.rows[n].group
                            /\ AccountsOf(block)[n].cid = block.rows[n].cid
  OBVIOUS
<1> DEFINE rows == block.rows
           L == Len(rows)
           flag(n) == \/ rows[n].test
                      \/ IncludeTest /\ rows[n].at = TestRow(rows)
           a == AccountsOf(block)
<1>1. L \in Nat /\ DOMAIN rows = 1 .. L
  BY <1>0
<1>2. \A n \in 1 .. L : rows[n] \in ReadRow
  BY <1>0
<1>3. a = [n \in DOMAIN rows |-> [role |-> rows[n].group, cid |-> rows[n].cid, test |-> flag(n)]]
  BY DEF AccountsOf
<1>4. \A n \in 1 .. L : rows[n].group \in Groups /\ rows[n].cid \in Cid
  BY <1>2 DEF ReadRow
<1>5. \A n \in 1 .. L : flag(n) \in BOOLEAN
  <2>1. \A n \in 1 .. L : rows[n].test \in BOOLEAN
    BY <1>2 DEF ReadRow
  <2>2. IncludeTest \in BOOLEAN
    BY AccountAssumption
  <2> QED  BY <2>1, <2>2, Zenon
<1> HIDE DEF flag, L, rows, a
<1>6. \A n \in 1 .. L : [role |-> rows[n].group, cid |-> rows[n].cid, test |-> flag(n)] \in Account
  BY <1>4, <1>5 DEF Account
<1>7. a \in [1 .. L -> Account]
  BY <1>1, <1>3, <1>6
<1>8. a \in Seq(Account) /\ Len(a) = L
  BY <1>1, <1>7, LenProperties
<1>9. \A n \in 1 .. L : a[n].role = rows[n].group /\ a[n].cid = rows[n].cid
  BY <1>1, <1>3
<1> QED  BY <1>8, <1>9 DEF a, L, rows

IsOfRow(account, row) == account.role = row.group /\ account.cid = row.cid

\* The accounts are those of the planned rows, each of its own row.
Match(accounts, p) ==
    /\ \A n \in DOMAIN accounts : \E m \in DOMAIN p : \E i \in DOMAIN p[m].rows :
          IsOfRow(accounts[n], p[m].rows[i])
    /\ \A m \in DOMAIN p : \A i \in DOMAIN p[m].rows : \E n \in DOMAIN accounts :
          IsOfRow(accounts[n], p[m].rows[i])
    /\ DistinctCids(p) =>
          \A m, n \in DOMAIN accounts : accounts[m].cid = accounts[n].cid => m = n

LEMMA AccountsAre ==
    ASSUME NEW p \in Seq(Block), Len(p) <= 2
    PROVE  Accounts(p) \in Seq(Account) /\ Match(Accounts(p), p)
<1>1. Len(p) \in Nat /\ DOMAIN p = 1 .. Len(p)
  BY LenProperties
<1>2. \A m \in DOMAIN p : p[m].rows \in Seq(ReadRow)
  <2>1. \A b \in Block : b.rows \in Seq(ReadRow)
    BY DEF Block
  <2>2. \A m \in DOMAIN p : p[m] \in Block
    BY <1>1
  <2> QED  BY <2>1, <2>2
<1>3. CASE Len(p) = 0
  <2>1. p = <<>> /\ DOMAIN p = {}
    BY <1>1, <1>3
  <2>2. Accounts(p) = <<>>
    BY <2>1 DEF Accounts
  <2>3. <<>> \in Seq(Account) /\ DOMAIN <<>> = {}
    OBVIOUS
  <2>4. Match(<<>>, p)
    BY <2>1, <2>3, Zenon DEF Match
  <2> QED  BY <2>2, <2>3, <2>4
<1>4. CASE Len(p) = 1
  <2> DEFINE rows == p[1].rows
             a == AccountsOf(p[1])
  <2>1. p # <<>> /\ DOMAIN p = {1}
    BY <1>1, <1>4
  <2>2. Accounts(p) = a
    BY <1>4, <2>1 DEF Accounts
  <2>3. rows \in Seq(ReadRow)
    BY <1>2, <2>1
  <2>4. a \in Seq(Account) /\ Len(a) = Len(rows) /\ \A n \in 1 .. Len(rows) : IsOfRow(a[n], rows[n])
    BY <2>3, AccountsOfAre DEF IsOfRow
  <2>5. DOMAIN rows = 1 .. Len(rows) /\ DOMAIN a = 1 .. Len(rows)
    BY <2>3, <2>4, LenProperties
  <2> HIDE DEF a
  <2>6. DistinctCids(p) =>
           \A m, n \in 1 .. Len(rows) : rows[m].cid = rows[n].cid => m = n
    BY <2>1, <2>5 DEF DistinctCids
  <2> HIDE DEF rows
  <2>7. DistinctCids(p) => \A m, n \in DOMAIN a : a[m].cid = a[n].cid => m = n
    BY <2>4, <2>5, <2>6 DEF IsOfRow
  <2>8. \A n \in DOMAIN a : \E m \in DOMAIN p : \E i \in DOMAIN p[m].rows :
           IsOfRow(a[n], p[m].rows[i])
    BY <2>1, <2>4, <2>5 DEF rows
  <2>9. \A m \in DOMAIN p : \A i \in DOMAIN p[m].rows : \E n \in DOMAIN a :
           IsOfRow(a[n], p[m].rows[i])
    BY <2>1, <2>4, <2>5 DEF rows
  <2> QED  BY <2>2, <2>4, <2>7, <2>8, <2>9 DEF Match
<1>5. CASE Len(p) = 2
  <2> DEFINE r1 == p[1].rows  r2 == p[2].rows
             a1 == AccountsOf(p[1])  a2 == AccountsOf(p[2])
             K == Len(r1)  L == Len(r2)
             a == a1 \o a2
  <2>1. p # <<>> /\ DOMAIN p = {1, 2}
    BY <1>1, <1>5
  <2>2. Accounts(p) = a
    BY <1>5, <2>1 DEF Accounts
  <2>3. r1 \in Seq(ReadRow) /\ r2 \in Seq(ReadRow)
    BY <1>2, <2>1
  <2>4. a1 \in Seq(Account) /\ Len(a1) = K /\ \A n \in 1 .. K : IsOfRow(a1[n], r1[n])
    BY <2>3, AccountsOfAre DEF IsOfRow
  <2>5. a2 \in Seq(Account) /\ Len(a2) = L /\ \A n \in 1 .. L : IsOfRow(a2[n], r2[n])
    BY <2>3, AccountsOfAre DEF IsOfRow
  <2>6. DOMAIN r1 = 1 .. K /\ DOMAIN r2 = 1 .. L
    BY <2>3, LenProperties
  <2>6a. K \in Nat /\ L \in Nat
    BY <2>3, LenProperties
  <2> HIDE DEF a1, a2, K, L, r1, r2
  <2>7. /\ a \in Seq(Account) /\ Len(a) = K + L
        /\ \A n \in 1 .. K + L : a[n] = IF n <= K THEN a1[n] ELSE a2[n - K]
    BY <2>4, <2>5, ConcatProperties
  <2>8. DOMAIN a = 1 .. K + L
    BY <2>7, LenProperties
  <2> HIDE DEF a
  <2>9. ASSUME NEW n \in 1 .. K + L
        PROVE  \/ n \in 1 .. K /\ IsOfRow(a[n], r1[n])
               \/ n > K /\ n - K \in 1 .. L /\ IsOfRow(a[n], r2[n - K])
    <3>1. CASE n <= K
      <4>1. n \in 1 .. K /\ a[n] = a1[n]
        BY <2>6a, <2>7, <3>1
      <4> QED  BY <2>4, <4>1
    <3>2. CASE n > K
      <4>1. n - K \in 1 .. L /\ a[n] = a2[n - K]
        BY <2>6a, <2>7, <3>2
      <4> QED  BY <2>5, <3>2, <4>1
    <3> QED  BY <2>6a, <3>1, <3>2
  <2>10. ASSUME NEW i \in 1 .. K PROVE i \in 1 .. K + L /\ IsOfRow(a[i], r1[i])
    <3>1. i \in 1 .. K + L /\ i <= K
      BY <2>6a
    <3>2. a[i] = a1[i]
      BY <2>7, <3>1
    <3> QED  BY <2>4, <3>1, <3>2
  <2>11. ASSUME NEW i \in 1 .. L PROVE K + i \in 1 .. K + L /\ IsOfRow(a[K + i], r2[i])
    <3>1. K + i \in 1 .. K + L /\ ~(K + i <= K) /\ (K + i) - K = i
      BY <2>6a
    <3>2. a[K + i] = a2[i]
      BY <2>7, <3>1
    <3> QED  BY <2>5, <3>1, <3>2
  <2>12. DistinctCids(p) =>
           /\ \A i, j \in 1 .. K : r1[i].cid = r1[j].cid => i = j
           /\ \A i, j \in 1 .. L : r2[i].cid = r2[j].cid => i = j
           /\ \A i \in 1 .. K, j \in 1 .. L : r1[i].cid # r2[j].cid
    <3>1. \A m, n \in {1, 2} : DistinctCids(p) => \A i \in DOMAIN p[m].rows, j \in DOMAIN p[n].rows :
             p[m].rows[i].cid = p[n].rows[j].cid => m = n /\ i = j
      BY <2>1 DEF DistinctCids
    <3>2. DistinctCids(p) => \A i, j \in DOMAIN r1 : r1[i].cid = r1[j].cid => i = j
      BY <3>1 DEF r1
    <3>3. DistinctCids(p) => \A i, j \in DOMAIN r2 : r2[i].cid = r2[j].cid => i = j
      BY <3>1 DEF r2
    <3>4. DistinctCids(p) => \A i \in DOMAIN r1, j \in DOMAIN r2 : r1[i].cid = r2[j].cid => 1 = 2
      BY <3>1 DEF r1, r2
    <3> QED  BY <2>6, <3>2, <3>3, <3>4
  <2>13. ASSUME DistinctCids(p), NEW m \in DOMAIN a, NEW n \in DOMAIN a, a[m].cid = a[n].cid
         PROVE  m = n
    <3>0. m \in 1 .. K + L /\ n \in 1 .. K + L
      BY <2>8
    <3>1. \/ m \in 1 .. K /\ a[m].cid = r1[m].cid
          \/ m > K /\ m - K \in 1 .. L /\ a[m].cid = r2[m - K].cid
      BY <2>9, <3>0 DEF IsOfRow
    <3>2. \/ n \in 1 .. K /\ a[n].cid = r1[n].cid
          \/ n > K /\ n - K \in 1 .. L /\ a[n].cid = r2[n - K].cid
      BY <2>9, <3>0 DEF IsOfRow
    <3>3. m = n \/ m - K = n - K
      BY <2>12, <2>13, <3>1, <3>2
    <3> QED  BY <2>6a, <3>0, <3>3
  <2>14. \A n \in DOMAIN a : \E m \in DOMAIN p : \E i \in DOMAIN p[m].rows :
           IsOfRow(a[n], p[m].rows[i])
    <3> SUFFICES ASSUME NEW n \in DOMAIN a
                 PROVE  \E m \in {1, 2} : \E i \in DOMAIN p[m].rows : IsOfRow(a[n], p[m].rows[i])
      BY <2>1
    <3>1. \/ n \in DOMAIN r1 /\ IsOfRow(a[n], r1[n])
          \/ n - K \in DOMAIN r2 /\ IsOfRow(a[n], r2[n - K])
      BY <2>6, <2>8, <2>9
    <3> QED  BY <3>1 DEF r1, r2
  <2>15. \A m \in DOMAIN p : \A i \in DOMAIN p[m].rows : \E n \in DOMAIN a :
           IsOfRow(a[n], p[m].rows[i])
    <3>1. \A i \in DOMAIN r1 : \E n \in DOMAIN a : IsOfRow(a[n], r1[i])
      BY <2>6, <2>8, <2>10
    <3>2. \A i \in DOMAIN r2 : \E n \in DOMAIN a : IsOfRow(a[n], r2[i])
      BY <2>6, <2>8, <2>11
    <3> QED  BY <2>1, <3>1, <3>2 DEF r1, r2
  <2> QED  BY <2>2, <2>7, <2>13, <2>14, <2>15 DEF Match
<1>6. Len(p) = 0 \/ Len(p) = 1 \/ Len(p) = 2
  BY <1>1
<1> QED  BY <1>3, <1>4, <1>5, <1>6

-----------------------------------------------------------------------------
(* What is planned for a drama                                              *)

LEMMA LinksAre ==
    ASSUME NEW d \in Drama
    PROVE  /\ Links[d] \subseteq {"IAA", "9.9", "2.9"}
           /\ PaidTypes(d) = Links[d] \cap {"9.9", "2.9"}
           /\ Needs(d, "IAA") <=> "IAA" \in Links[d]
           /\ Needs(d, "IAP") <=> PaidTypes(d) # {}
<1>1. Links[d] \subseteq {"IAA", "9.9", "2.9"}
  BY AccountAssumption DEF LinkTypes
<1> QED  BY <1>1 DEF PaidTypes, Needs

LEMMA KindsPlanned ==
    ASSUME NEW a, KindsOK(a), a.pc = "planned", a.planned \in Seq(Block)
    PROVE  /\ Len(a.planned) <= 2
           /\ \A m \in DOMAIN a.planned : Needs(a.drama, a.planned[m].kind)
           /\ \A kind \in Kinds : Needs(a.drama, kind) =>
                 \E m \in DOMAIN a.planned : a.planned[m].kind = kind
<1> DEFINE p == a.planned
           iaa == Needs(a.drama, "IAA")
           iap == Needs(a.drama, "IAP")
<1>1. Len(p) \in Nat /\ DOMAIN p = 1 .. Len(p)
  BY LenProperties
<1>2. /\ Len(p) = (IF iaa THEN 1 ELSE 0) + (IF iap THEN 1 ELSE 0)
      /\ iap => p[Len(p)].kind = "IAP"
      /\ iaa => p[1].kind = "IAA"
  BY DEF KindsOK
<1> HIDE DEF p, iaa, iap
<1>3. /\ Len(p) <= 2
      /\ \A m \in 1 .. Len(p) : \/ iaa /\ p[m].kind = "IAA"
                                \/ iap /\ p[m].kind = "IAP"
      /\ iaa => 1 \in 1 .. Len(p) /\ p[1].kind = "IAA"
      /\ iap => Len(p) \in 1 .. Len(p) /\ p[Len(p)].kind = "IAP"
  <2>1. CASE iaa /\ iap
    <3>1. Len(p) = 2 /\ 1 .. 2 = {1, 2}
      BY <1>2, <2>1
    <3> QED  BY <1>2, <2>1, <3>1
  <2>2. CASE iaa /\ ~iap
    <3>1. Len(p) = 1 /\ 1 .. 1 = {1}
      BY <1>2, <2>2
    <3> QED  BY <1>2, <2>2, <3>1
  <2>3. CASE ~iaa /\ iap
    <3>1. Len(p) = 1 /\ 1 .. 1 = {1}
      BY <1>2, <2>3
    <3> QED  BY <1>2, <2>3, <3>1
  <2>4. CASE ~iaa /\ ~iap
    <3>1. Len(p) = 0 /\ 1 .. 0 = {}
      BY <1>2, <2>4
    <3> QED  BY <2>4, <3>1
  <2> QED  BY <2>1, <2>2, <2>3, <2>4
<1>4. \A m \in DOMAIN p : Needs(a.drama, p[m].kind)
  BY <1>1, <1>3 DEF iaa, iap
<1>5. \A kind \in Kinds : Needs(a.drama, kind) => \E m \in DOMAIN p : p[m].kind = kind
  BY <1>1, <1>3 DEF iaa, iap, Kinds
<1> QED  BY <1>3, <1>4, <1>5 DEF p

\* Which links a group of a pattern serves, and which groups a link is served by.
LEMMA GroupsServe ==
    ASSUME NEW d \in Drama, NEW kind \in Kinds, Needs(d, kind)
    PROVE  LET pattern == RequiredPattern(kind, PaidTypes(d)) IN
           /\ \A i \in DOMAIN pattern : LinkOfType(DeliveryType(pattern[i])) \in Links[d]
           /\ \A l \in Links[d] : (l = "IAA" <=> kind = "IAA") =>
                 \E i \in DOMAIN pattern : pattern[i] \in RolesOf(l)
<1> DEFINE pattern == RequiredPattern(kind, PaidTypes(d))
<1>1. Links[d] \subseteq {"IAA", "9.9", "2.9"} /\ PaidTypes(d) = Links[d] \cap {"9.9", "2.9"}
  BY LinksAre
<1>2. ToSet(IaaGroups) = {"B1", "B4", "B7", "BX"}
  BY GroupsAre
<1>3. CASE kind = "IAA"
  <2>1. Ordered(pattern, {"B1", "B4", "B7", "BX"})
    BY <1>3, BlocksOrdered
  <2>2. "IAA" \in Links[d]
    BY <1>3, LinksAre
  <2> HIDE DEF pattern
  <2>3. \A i \in DOMAIN pattern : pattern[i] \in {"B1", "B4", "B7", "BX"}
    BY <2>1 DEF Ordered
  <2>4. \E i \in DOMAIN pattern : pattern[i] = "B1"
    BY <2>1 DEF Ordered
  <2>5. \A g \in {"B1", "B4", "B7", "BX"} : LinkOfType(DeliveryType(g)) = "IAA"
    BY <1>2 DEF LinkOfType, DeliveryType
  <2>6. "B1" \in RolesOf("IAA")
    BY <1>2 DEF RolesOf
  <2> QED  BY <1>3, <2>2, <2>3, <2>4, <2>5, <2>6 DEF pattern
<1>4. CASE kind = "IAP"
  <2>1. Ordered(pattern, PaidGroups(PaidTypes(d)))
    BY <1>4, BlocksOrdered
  <2> HIDE DEF pattern
  <2>2. \A i \in DOMAIN pattern : pattern[i] \in PaidGroups(PaidTypes(d))
    BY <2>1 DEF Ordered
  <2>3. \A g \in PaidGroups(PaidTypes(d)) : \E i \in DOMAIN pattern : pattern[i] = g
    BY <2>1 DEF Ordered
  <2>4. \A g \in PaidGroups(PaidTypes(d)) : LinkOfType(DeliveryType(g)) \in Links[d]
    <3>1. \A g \in PaidGroups(PaidTypes(d)) :
             \/ g = "B1-9.9" /\ "9.9" \in PaidTypes(d)
             \/ g = "B2-2.9" /\ "2.9" \in PaidTypes(d)
      BY DEF PaidGroups
    <3>2. DeliveryType("B1-9.9") = "B1-9.9" /\ DeliveryType("B2-2.9") = "B2-2.9"
      BY <1>2 DEF DeliveryType
    <3>3. LinkOfType("B1-9.9") = "9.9" /\ LinkOfType("B2-2.9") = "2.9"
      BY DEF LinkOfType
    <3> QED  BY <1>1, <3>1, <3>2, <3>3
  <2>5. \A l \in Links[d] : l # "IAA" => \E g \in PaidGroups(PaidTypes(d)) : g \in RolesOf(l)
    <3>1. "9.9" \in PaidTypes(d) => "B1-9.9" \in PaidGroups(PaidTypes(d))
      BY DEF PaidGroups
    <3>2. "2.9" \in PaidTypes(d) => "B2-2.9" \in PaidGroups(PaidTypes(d))
      BY DEF PaidGroups
    <3>3. "B1-9.9" \in RolesOf("9.9") /\ "B2-2.9" \in RolesOf("2.9")
      BY DEF RolesOf
    <3> QED  BY <1>1, <3>1, <3>2, <3>3
  <2> QED  BY <1>4, <2>2, <2>3, <2>4, <2>5 DEF pattern
<1> QED  BY <1>3, <1>4 DEF Kinds

\* The accounts of all that is planned serve the links of the drama.
LEMMA PlannedAccounts ==
    ASSUME NEW a, a.planned \in Seq(Block), a.pc = "planned", KindsOK(a),
           NEW usedToday, BlocksOK(a, usedToday)
    PROVE  /\ Accounts(a.planned) \in Seq(Account)
           /\ AccountsOK(Accounts(a.planned), a.drama)
           /\ CidsOf(Accounts(a.planned)) \cap usedToday = {}
<1> DEFINE p == a.planned
           d == a.drama
           accounts == Accounts(p)
           pattern(m) == RequiredPattern(p[m].kind, PaidTypes(d))
<1>1. d \in Drama
  BY DEF KindsOK
<1>2. /\ Len(p) <= 2
      /\ \A m \in DOMAIN p : Needs(d, p[m].kind)
      /\ \A kind \in Kinds : Needs(d, kind) => \E m \in DOMAIN p : p[m].kind = kind
  BY KindsPlanned
<1>3. accounts \in Seq(Account) /\ Match(accounts, p)
  BY <1>2, AccountsAre
<1>4. /\ \A m \in DOMAIN p : HasPattern(p[m].rows, pattern(m))
      /\ DistinctCids(p)
      /\ \A m \in DOMAIN p : CidsOf(p[m].rows) \cap usedToday = {}
  BY DEF BlocksOK
<1>5. \A m \in DOMAIN p : p[m].kind \in Kinds /\ p[m].rows \in Seq(ReadRow)
  <2>1. \A b \in Block : b.kind \in Kinds /\ b.rows \in Seq(ReadRow)
    BY DEF Block
  <2>2. \A m \in DOMAIN p : p[m] \in Block
    BY LenProperties
  <2> QED  BY <2>1, <2>2
<1>6. ASSUME NEW m, m \in DOMAIN p
      PROVE  /\ DOMAIN p[m].rows = DOMAIN pattern(m)
             /\ \A i \in DOMAIN p[m].rows : p[m].rows[i].group = pattern(m)[i]
  <2>1. p[m].rows \in Seq(ReadRow)
    BY <1>5, <1>6
  <2>2. \E G : Ordered(pattern(m), G)
    BY <1>5, <1>6, PatternsOrdered
  <2>3. pattern(m) \in Seq(Groups)
    BY <2>2 DEF Ordered
  <2>4. HasPattern(p[m].rows, pattern(m))
    BY <1>4, <1>6
  <2> HIDE DEF p, pattern
  <2>5. DOMAIN p[m].rows = 1 .. Len(p[m].rows) /\ DOMAIN pattern(m) = 1 .. Len(pattern(m))
    BY <2>1, <2>3, LenProperties
  <2> QED  BY <2>4, <2>5 DEF HasPattern
<1> HIDE DEF accounts
<1>7. ASSUME NEW n, n \in DOMAIN accounts
      PROVE  LinkOfType(DeliveryType(accounts[n].role)) \in Links[d]
  <2>1. PICK m \in DOMAIN p : \E i \in DOMAIN p[m].rows : IsOfRow(accounts[n], p[m].rows[i])
    BY <1>3, <1>7 DEF Match
  <2>2. PICK i \in DOMAIN p[m].rows : IsOfRow(accounts[n], p[m].rows[i])
    BY <2>1
  <2>3. p[m].kind \in Kinds /\ Needs(d, p[m].kind)
    BY <1>2, <1>5
  <2>4. \A x \in DOMAIN pattern(m) : LinkOfType(DeliveryType(pattern(m)[x])) \in Links[d]
    BY <1>1, <2>3, GroupsServe
  <2>5. accounts[n].role = pattern(m)[i] /\ i \in DOMAIN pattern(m)
    BY <1>6, <2>2 DEF IsOfRow
  <2> HIDE DEF pattern
  <2> QED  BY <2>4, <2>5
<1>8. ASSUME NEW l, l \in Links[d]
      PROVE  \E n \in DOMAIN accounts : accounts[n].role \in RolesOf(l)
  <2> DEFINE kind == IF l = "IAA" THEN "IAA" ELSE "IAP"
  <2>1. kind \in Kinds /\ (l = "IAA" <=> kind = "IAA")
    BY DEF Kinds
  <2>2. Needs(d, kind)
    BY <1>1, <1>8, LinksAre
  <2> HIDE DEF kind
  <2>3. PICK m \in DOMAIN p : p[m].kind = kind
    BY <1>2, <2>1, <2>2
  <2>4. \E i \in DOMAIN pattern(m) : pattern(m)[i] \in RolesOf(l)
    BY <1>1, <1>8, <2>1, <2>2, <2>3, GroupsServe
  <2> HIDE DEF pattern
  <2>5. PICK i \in DOMAIN p[m].rows : p[m].rows[i].group \in RolesOf(l)
    BY <1>6, <2>4
  <2>6. PICK n \in DOMAIN accounts : IsOfRow(accounts[n], p[m].rows[i])
    BY <1>3 DEF Match
  <2> QED  BY <2>5, <2>6 DEF IsOfRow
<1>9. \A m, n \in DOMAIN accounts : accounts[m].cid = accounts[n].cid => m = n
  BY <1>3, <1>4 DEF Match
<1>10. ASSUME NEW n, n \in DOMAIN accounts PROVE accounts[n].cid \notin usedToday
  <2>1. PICK m \in DOMAIN p : \E i \in DOMAIN p[m].rows : IsOfRow(accounts[n], p[m].rows[i])
    BY <1>3, <1>10 DEF Match
  <2>2. accounts[n].cid \in CidsOf(p[m].rows)
    BY <2>1 DEF IsOfRow, CidsOf
  <2>3. CidsOf(p[m].rows) \cap usedToday = {}
    BY <1>4
  <2> QED  BY <2>2, <2>3
<1>11. AccountsOK(accounts, d)
  BY <1>7, <1>8, <1>9 DEF AccountsOK
<1>12. CidsOf(accounts) \cap usedToday = {}
  BY <1>10 DEF CidsOf
<1> QED  BY <1>3, <1>11, <1>12 DEF accounts

-----------------------------------------------------------------------------
(* The assignment's record                                                  *)

LEMMA NoAssignIs == NoAssign \in Assignment
<1>1. <<>> \in Seq(Block) /\ <<>> \in Seq(Account) /\ <<>> \in Seq(ReadRow)
  OBVIOUS
<1>2. "idle" \in AssignPcs /\ "" \in Statuses
  BY DEF AssignPcs, Statuses
<1> QED  BY <1>1, <1>2 DEF NoAssign, Assignment, Block

LEMMA EndedIs ==
    ASSUME assign \in Assignment, NEW status \in Statuses
    PROVE  /\ Ended(status) \in Assignment
           /\ Ended(status).pc = "done" /\ Ended(status).status = status
           /\ Ended(status).real = assign.real
           /\ Ended(status).accounts = IF status = "CONFIRMED" THEN assign.accounts ELSE <<>>
<1>1. <<>> \in Seq(Block) /\ <<>> \in Seq(Account) /\ <<>> \in Seq(ReadRow)
  OBVIOUS
<1>2. "done" \in AssignPcs /\ assign.real \in BOOLEAN /\ assign.accounts \in Seq(Account)
  BY DEF AssignPcs, Assignment
<1> DEFINE accounts == IF status = "CONFIRMED" THEN assign.accounts ELSE <<>>
<1>3. accounts \in Seq(Account)
  BY <1>1, <1>2
<1>4. Ended(status)
        = [pc |-> "done", drama |-> Nobody, real |-> assign.real, used |-> {}, reserved |-> {},
           planned |-> <<>>, accounts |-> accounts, template |-> <<>>, last |-> 0, k |-> 0,
           todo |-> {}, written |-> FALSE, status |-> status]
  <2>1. Ended(status) = [NoAssign EXCEPT !.pc = "done", !.status = status, !.real = assign.real,
                                         !.accounts = accounts]
    BY DEF Ended
  <2> HIDE DEF accounts
  <2> QED  BY <2>1 DEF NoAssign
<1> HIDE DEF accounts
<1>5. Ended(status) \in Assignment
  BY <1>1, <1>2, <1>3, <1>4 DEF Assignment, Block
<1>6. /\ Ended(status).pc = "done" /\ Ended(status).status = status
      /\ Ended(status).real = assign.real /\ Ended(status).accounts = accounts
  BY <1>4
<1> QED  BY <1>5, <1>6 DEF accounts

\* What follows the planning of a kind.
Follows(kind, d) == IF kind = "IAA" THEN AfterIaa(d) ELSE "planned"

LEMMA PlannedIs ==
    ASSUME NEW a \in Assignment, NEW kind \in Kinds, NEW rows \in Seq(ReadRow)
    PROVE  LET b == Planned(kind, rows, a)  next == Follows(kind, a.drama) IN
           /\ b \in Assignment
           /\ b.pc = next /\ b.drama = a.drama
           /\ b.planned = Append(a.planned, [kind |-> kind, rows |-> rows])
           /\ next # "planned" => /\ b.used = a.used \cup CidsOf(rows)
                                  /\ b.reserved = a.reserved \cup CidsOf(rows)
<1> DEFINE next == Follows(kind, a.drama)
           more(S) == IF next = "planned" THEN {} ELSE S \cup CidsOf(rows)
           planned == Append(a.planned, [kind |-> kind, rows |-> rows])
           used == more(a.used)
           reserved == more(a.reserved)
           b == [a EXCEPT !.pc = next, !.planned = planned, !.used = used, !.reserved = reserved,
                          !.template = <<>>, !.last = 0]
<1>1. Planned(kind, rows, a) = b
  BY DEF Planned, Follows
<1>2. next \in AssignPcs
  BY DEF Follows, AfterIaa, AssignPcs
<1>3. a.planned \in Seq(Block) /\ a.used \in SUBSET Cid /\ a.reserved \in SUBSET Cid
  BY DEF Assignment, Block
<1>4. planned \in Seq(Block)
  <2>1. [kind |-> kind, rows |-> rows] \in Block
    BY DEF Block
  <2> QED  BY <1>3, <2>1, AppendProperties
<1>5. CidsOf(rows) \in SUBSET Cid
  <2>0. \A r \in ReadRow : r.cid \in Cid
    BY DEF ReadRow
  <2>1. \A n \in DOMAIN rows : rows[n].cid \in Cid
    BY <2>0, LenProperties
  <2> QED  BY <2>1 DEF CidsOf
<1>6. used \in SUBSET Cid /\ reserved \in SUBSET Cid
  BY <1>3, <1>5
<1>7. next # "planned" => used = a.used \cup CidsOf(rows) /\ reserved = a.reserved \cup CidsOf(rows)
  OBVIOUS
<1> HIDE DEF next, planned, used, reserved
<1>8. <<>> \in Seq(ReadRow)
  OBVIOUS
<1>9. b \in Assignment
  BY <1>2, <1>4, <1>6, <1>8 DEF Assignment, Block
<1>10. /\ b.pc = next /\ b.drama = a.drama /\ b.planned = planned
       /\ b.used = used /\ b.reserved = reserved
  BY DEF Assignment
<1> QED  BY <1>1, <1>7, <1>9, <1>10 DEF next, planned

\* A block with the pattern of its kind, with CIDs that neither the day nor another block
\* has used, carries the planning on.
LEMMA PlanGoesOn ==
    ASSUME NEW a \in Assignment, a.pc \in Kinds \cup Appends, NEW usedToday,
           KindsOK(a), BlocksOK(a, usedToday),
           NEW rows \in Seq(ReadRow),
           HasPattern(rows, RequiredPattern(KindOf(a.pc), PaidTypes(a.drama))),
           \A i, j \in DOMAIN rows : rows[i].cid = rows[j].cid => i = j,
           \/ CidsOf(rows) \cap a.used = {}
           \/ CidsOf(rows) \cap a.reserved = {},
           NEW b, b = Planned(KindOf(a.pc), rows, a)
    PROVE  /\ b \in Assignment /\ b.pc \in {"IAP", "planned"} /\ b.drama = a.drama
           /\ KindsOK(b) /\ BlocksOK(b, usedToday)
<1> DEFINE kind == KindOf(a.pc)
           p == a.planned
           q == b.planned
           n == Len(p) + 1
           d == a.drama
<1>1. kind \in Kinds /\ d \in Drama /\ Needs(d, kind)
  BY DEF Kinds, KindOf, KindsOK, Appends
<1>2. /\ b \in Assignment /\ b.pc = Follows(kind, d) /\ b.drama = d
      /\ q = Append(p, [kind |-> kind, rows |-> rows])
      /\ b.pc # "planned" => /\ b.used = a.used \cup CidsOf(rows)
                             /\ b.reserved = a.reserved \cup CidsOf(rows)
  BY <1>1, PlannedIs
<1>3. p \in Seq(Block) /\ [kind |-> kind, rows |-> rows] \in Block
  BY <1>1 DEF Assignment, Block
<1> HIDE DEF kind, p, q, d
<1>4. Len(p) \in Nat /\ DOMAIN p = 1 .. Len(p)
  BY <1>3, LenProperties
<1>5. /\ q \in Seq(Block) /\ Len(q) = n
      /\ \A m \in 1 .. Len(p) : q[m] = p[m]
      /\ q[n] = [kind |-> kind, rows |-> rows]
  BY <1>2, <1>3, AppendProperties
<1>6. DOMAIN q = 1 .. n
  BY <1>5, LenProperties
<1>7. q[n].kind = kind /\ q[n].rows = rows
  BY <1>5
<1>8. \A m \in 1 .. n : m = n \/ m \in 1 .. Len(p)
  BY <1>4
<1>8a. n \in 1 .. n /\ \A m \in 1 .. Len(p) : m \in 1 .. n /\ m # n
  BY <1>4
<1>9. b.pc \in {"IAP", "planned"} /\ (b.pc = "IAP" => kind = "IAA" /\ Needs(d, "IAP"))
      /\ (kind = "IAA" /\ Needs(d, "IAP") => b.pc = "IAP")
  BY <1>2 DEF Follows, AfterIaa
<1>10. KindsOK(b)
  <2>1. kind = "IAA" => Len(p) = 0
    BY DEF KindsOK, KindOf, kind, p, Appends, Kinds
  <2>2. kind = "IAP" => /\ Len(p) = IF Needs(d, "IAA") THEN 1 ELSE 0
                        /\ Needs(d, "IAA") => p[1].kind = "IAA"
    BY DEF KindsOK, KindOf, kind, p, d, Appends, Kinds
  <2>3. CASE kind = "IAA"
    <3>1. n = 1 /\ Len(q) = 1 /\ q[1].kind = "IAA"
      BY <1>5, <1>7, <2>1, <2>3
    <3>2. Needs(d, "IAA")
      BY <1>1, <2>3
    <3>3. CASE Needs(d, "IAP")
      <4>1. b.pc = "IAP" /\ KindOf("IAP") = "IAP"
        BY <1>9, <2>3, <3>3 DEF KindOf
      <4> QED  BY <1>1, <1>2, <3>1, <3>2, <3>3, <4>1 DEF KindsOK, q
    <3>4. CASE ~Needs(d, "IAP")
      <4>1. b.pc = "planned"
        BY <1>9, <3>4
      <4> QED  BY <1>1, <1>2, <3>1, <3>2, <3>4, <4>1 DEF KindsOK, q
    <3> QED  BY <3>3, <3>4
  <2>4. CASE kind = "IAP"
    <3>1. b.pc = "planned" /\ Needs(d, "IAP")
      BY <1>1, <1>9, <2>4
    <3>2. q[Len(q)].kind = "IAP"
      BY <1>5, <1>7, <2>4
    <3>3. CASE Needs(d, "IAA")
      <4>0. Len(p) = 1 /\ p[1].kind = "IAA"
        BY <2>2, <2>4, <3>3
      <4>1. Len(p) = 1 /\ Len(q) = 2 /\ q[1] = p[1] /\ p[1].kind = "IAA"
        <5>1. n = 2 /\ 1 \in 1 .. Len(p)
          BY <4>0
        <5> QED  BY <1>5, <4>0, <5>1
      <4> QED  BY <1>1, <1>2, <3>1, <3>2, <3>3, <4>1 DEF KindsOK, q
    <3>4. CASE ~Needs(d, "IAA")
      <4>1. Len(q) = 1
        BY <1>5, <2>2, <2>4, <3>4
      <4> QED  BY <1>1, <1>2, <3>1, <3>2, <3>4, <4>1 DEF KindsOK, q
    <3> QED  BY <3>3, <3>4
  <2> QED  BY <1>1, <2>3, <2>4 DEF Kinds
<1>11. /\ \A m \in DOMAIN p : HasPattern(p[m].rows, RequiredPattern(p[m].kind, PaidTypes(d)))
       /\ DistinctCids(p)
       /\ \A m \in DOMAIN p : CidsOf(p[m].rows) \cap usedToday = {}
       /\ usedToday \subseteq a.used \cap a.reserved
       /\ \A m \in DOMAIN p : CidsOf(p[m].rows) \subseteq a.used \cap a.reserved
  <2>1. a.pc # "planned"
    BY DEF Kinds, Appends
  <2> QED  BY <2>1 DEF BlocksOK, p, d
<1>12. \A m \in DOMAIN q : HasPattern(q[m].rows, RequiredPattern(q[m].kind, PaidTypes(d)))
  <2>1. HasPattern(rows, RequiredPattern(kind, PaidTypes(d)))
    BY DEF kind, d
  <2> QED  BY <1>4, <1>5, <1>6, <1>7, <1>8, <1>11, <2>1
<1>13. CidsOf(rows) \cap usedToday = {} /\ \A m \in DOMAIN p : CidsOf(rows) \cap CidsOf(p[m].rows) = {}
  BY <1>11
<1>14. \A m \in DOMAIN q : CidsOf(q[m].rows) \cap usedToday = {}
  BY <1>4, <1>5, <1>6, <1>7, <1>8, <1>11, <1>13
<1>15. DistinctCids(q)
  <2> SUFFICES ASSUME NEW x \in DOMAIN q, NEW y \in DOMAIN q,
                      NEW i \in DOMAIN q[x].rows, NEW j \in DOMAIN q[y].rows,
                      q[x].rows[i].cid = q[y].rows[j].cid
               PROVE  x = y /\ i = j
    BY DEF DistinctCids
  <2>1. CASE x = n /\ y = n
    BY <1>7, <2>1
  <2>2. CASE x = n /\ y \in 1 .. Len(p)
    <3>1. rows[i].cid \in CidsOf(rows) /\ p[y].rows[j].cid \in CidsOf(p[y].rows)
      BY <1>5, <1>7, <2>2 DEF CidsOf
    <3> QED  BY <1>4, <1>5, <1>7, <1>13, <2>2, <3>1
  <2>3. CASE x \in 1 .. Len(p) /\ y = n
    <3>1. rows[j].cid \in CidsOf(rows) /\ p[x].rows[i].cid \in CidsOf(p[x].rows)
      BY <1>5, <1>7, <2>3 DEF CidsOf
    <3> QED  BY <1>4, <1>5, <1>7, <1>13, <2>3, <3>1
  <2>4. CASE x \in 1 .. Len(p) /\ y \in 1 .. Len(p)
    BY <1>4, <1>5, <1>11, <2>4 DEF DistinctCids
  <2> QED  BY <1>6, <1>8, <2>1, <2>2, <2>3, <2>4
<1>16. b.pc # "planned" =>
          /\ usedToday \subseteq b.used \cap b.reserved
          /\ \A m \in DOMAIN q : CidsOf(q[m].rows) \subseteq b.used \cap b.reserved
  BY <1>2, <1>4, <1>5, <1>6, <1>7, <1>8, <1>11
<1>17. BlocksOK(b, usedToday)
  BY <1>2, <1>12, <1>14, <1>15, <1>16 DEF BlocksOK, q
<1> QED  BY <1>2, <1>9, <1>10, <1>17 DEF d

-----------------------------------------------------------------------------
(* The steps of the planning                                                *)

\* What a block must be to be planned.
Fits(block, pattern, allocated) ==
    /\ block \in Seq(ReadRow) /\ HasPattern(block, pattern)
    /\ \A i, j \in DOMAIN block : block[i].cid = block[j].cid => i = j
    /\ CidsOf(block) \cap allocated = {}

LEMMA FoundFits ==
    ASSUME NEW s \in Seq(AccountRow), RepeatsApart(s), NEW rows, ReadUpTo(rows, s, Len(s)),
           NEW pattern, NEW G, Ordered(pattern, G), NEW allocated,
           FindBlock(rows, allocated, pattern) # <<>>
    PROVE  Fits(FindBlock(rows, allocated, pattern), pattern, allocated)
<1> DEFINE block == FindBlock(rows, allocated, pattern)
<1>1. rows \in Seq(ReadRow) /\ pattern \in Seq(Groups)
  BY DEF ReadUpTo, Ordered
<1>2. block \in Seq(ReadRow) /\ IsWindow(block, rows, pattern, Free(rows, allocated))
  BY <1>1, FoundBlock
<1> HIDE DEF block
<1>3. \A i, j \in DOMAIN block : block[i].cid = block[j].cid => i = j
  BY <1>2, DistinctWindow
<1>4. \A i \in DOMAIN block : block[i].cid \notin allocated
  BY <1>2 DEF IsWindow, Free
<1> QED  BY <1>2, <1>3, <1>4 DEF Fits, IsWindow, CidsOf, block

LEMMA AppendedIs ==
    ASSUME NEW last \in Nat, NEW t \in Seq(ReadRow)
    PROVE  /\ Appended(last, t) \in Seq(ReadRow) /\ DOMAIN Appended(last, t) = DOMAIN t
           /\ Len(Appended(last, t)) = Len(t)
           /\ \A i \in DOMAIN t : /\ Appended(last, t)[i].group = t[i].group
                                  /\ Appended(last, t)[i].cid = t[i].cid
<1> DEFINE L == Len(t)
           row(n) == [t[n] EXCEPT !.at = last + n, !.drama = Nobody, !.test = FALSE]
           a == Appended(last, t)
<1>1. L \in Nat /\ DOMAIN t = 1 .. L
  BY LenProperties
<1>2. \A n \in 1 .. L : t[n] \in ReadRow
  BY <1>1
<1>3. \A r \in ReadRow : \A n \in Nat \ {0} :
         [r EXCEPT !.at = n, !.drama = Nobody, !.test = FALSE] \in ReadRow
  BY DEF ReadRow
<1>4. \A n \in 1 .. L : last + n \in Nat \ {0}
  BY <1>1
<1>5. \A n \in 1 .. L : row(n) \in ReadRow
  BY <1>2, <1>3, <1>4
<1>6. \A r \in ReadRow : \A n :
         /\ [r EXCEPT !.at = n, !.drama = Nobody, !.test = FALSE].group = r.group
         /\ [r EXCEPT !.at = n, !.drama = Nobody, !.test = FALSE].cid = r.cid
  BY DEF ReadRow
<1>7. \A n \in 1 .. L : row(n).group = t[n].group /\ row(n).cid = t[n].cid
  BY <1>2, <1>6
<1>8. a = [n \in 1 .. L |-> row(n)]
  BY <1>1 DEF Appended
<1> HIDE DEF row, a, L
<1>9. a \in [1 .. L -> ReadRow]
  BY <1>5, <1>8
<1>10. a \in Seq(ReadRow) /\ Len(a) = L /\ DOMAIN a = 1 .. L
  BY <1>1, <1>9, LenProperties
<1> QED  BY <1>1, <1>7, <1>8, <1>10 DEF a, L

LEMMA CopyFits ==
    ASSUME NEW last \in Nat, NEW t \in Seq(ReadRow),
           \A i, j \in DOMAIN t : t[i].cid = t[j].cid => i = j,
           NEW pattern, NEW G, Ordered(pattern, G), NEW allocated,
           FindBlock(Appended(last, t), allocated, pattern) # <<>>
    PROVE  Fits(FindBlock(Appended(last, t), allocated, pattern), pattern, allocated)
<1> DEFINE rows == Appended(last, t)
           block == FindBlock(rows, allocated, pattern)
<1>1. /\ rows \in Seq(ReadRow) /\ DOMAIN rows = DOMAIN t
      /\ \A i \in DOMAIN t : rows[i].cid = t[i].cid
  BY AppendedIs
<1>2. pattern \in Seq(Groups)
  BY DEF Ordered
<1>3. block \in Seq(ReadRow) /\ IsWindow(block, rows, pattern, Free(rows, allocated))
  BY <1>1, <1>2, FoundBlock
<1> HIDE DEF rows, block
<1>4. PICK n \in Nat : \A i \in DOMAIN block : n + i \in DOMAIN rows \cap Free(rows, allocated)
                                               /\ block[i] = rows[n + i]
  BY <1>3 DEF IsWindow
<1>5. ASSUME NEW i \in DOMAIN block, NEW j \in DOMAIN block, block[i].cid = block[j].cid
      PROVE  i = j
  <2>1. n + i = n + j
    BY <1>1, <1>4, <1>5
  <2>2. i \in Nat /\ j \in Nat
    BY <1>3, LenProperties
  <2> QED  BY <2>1, <2>2
<1>6. \A i \in DOMAIN block : block[i].cid \notin allocated
  BY <1>4 DEF Free
<1> QED  BY <1>3, <1>5, <1>6 DEF Fits, IsWindow, CidsOf, block, rows

\* The last row that is read is the last filled one.
LEMMA LastRow ==
    ASSUME NEW s \in Seq(AccountRow), NEW rows, ReadUpTo(rows, s, Len(s)), rows # <<>>
    PROVE  /\ rows[Len(rows)].at \in Filled(s)
           /\ \A n \in Filled(s) : n <= rows[Len(rows)].at
<1>1. rows \in Seq(ReadRow)
  BY DEF ReadUpTo
<1>2. Len(rows) \in DOMAIN rows /\ Len(rows) \in Nat /\ DOMAIN rows = 1 .. Len(rows)
  BY <1>1, LenProperties
<1>3. rows[Len(rows)].at \in Filled(s)
  BY <1>2 DEF ReadUpTo
<1>4. \A n \in Filled(s) : n \in Nat /\ n <= Len(s)
  BY FilledIn, LenProperties
<1>5. ASSUME NEW n \in Filled(s) PROVE n <= rows[Len(rows)].at
  <2>1. PICK a \in DOMAIN rows : rows[a].at = n
    BY <1>4 DEF ReadUpTo
  <2>2. CASE a = Len(rows)
    BY <1>4, <2>1, <2>2
  <2>3. CASE a < Len(rows)
    <3>1. rows[a].at < rows[Len(rows)].at
      BY <1>2, <2>3 DEF ReadUpTo
    <3> QED  BY <1>3, <1>4, <2>1, <3>1
  <2> QED  BY <1>2, <2>2, <2>3
<1> QED  BY <1>3, <1>5

StepOK(b, d, sheets, usedToday) ==
    b \in Assignment /\ b.pc # "idle" /\ AssignmentOK(b, d, sheets, usedToday)

LEMMA PlannedStep ==
    \A b, d, sheets, usedToday :
        /\ b \in Assignment /\ b.pc \in {"IAP", "planned"} /\ b.drama = d
        /\ KindsOK(b) /\ BlocksOK(b, usedToday)
        => StepOK(b, d, sheets, usedToday)
BY DEF StepOK, AssignmentOK, Appends

LEMMA EndedStep ==
    \A d, sheets, usedToday, status :
        /\ assign \in Assignment /\ status \in Statuses \ {"CONFIRMED", "DRY_RUN"}
        => StepOK(Ended(status), d, sheets, usedToday)
<1> SUFFICES ASSUME NEW d, NEW sheets, NEW usedToday, NEW status, assign \in Assignment,
                    status \in Statuses \ {"CONFIRMED", "DRY_RUN"}
             PROVE  StepOK(Ended(status), d, sheets, usedToday)
  OBVIOUS
<1>1. /\ Ended(status) \in Assignment /\ Ended(status).pc = "done"
      /\ Ended(status).status \notin {"CONFIRMED", "DRY_RUN"}
  BY EndedIs
<1> QED  BY <1>1, Zenon DEF StepOK, AssignmentOK, Appends, Kinds

LEMMA ReservedGrows ==
    ASSUME NEW a \in Assignment, NEW usedToday, KindsOK(a), BlocksOK(a, usedToday),
           NEW R \in SUBSET Cid, a.reserved \subseteq R
    PROVE  LET b == [a EXCEPT !.reserved = R] IN
           /\ b \in Assignment /\ b.pc = a.pc /\ b.drama = a.drama /\ b.used = a.used
           /\ b.reserved = R /\ KindsOK(b) /\ BlocksOK(b, usedToday)
<1> DEFINE b == [a EXCEPT !.reserved = R]
<1>1. b \in Assignment
  BY DEF Assignment
<1>2. /\ b.pc = a.pc /\ b.drama = a.drama /\ b.used = a.used /\ b.planned = a.planned
      /\ b.reserved = R
  BY DEF Assignment
<1> HIDE DEF b
<1>3. KindsOK(b)
  BY <1>2 DEF KindsOK
<1>4. BlocksOK(b, usedToday)
  BY <1>2 DEF BlocksOK
<1> QED  BY <1>1, <1>2, <1>3, <1>4 DEF b

LEMMA NamedAre ==
    \A rows : rows \in Seq(ReadRow) => NamedCids(rows) \in SUBSET Cid
<1> SUFFICES ASSUME NEW rows, rows \in Seq(ReadRow) PROVE NamedCids(rows) \in SUBSET Cid
  OBVIOUS
<1>1. \A r \in ReadRow : r.cid \in Cid
  BY DEF ReadRow
<1>2. \A n \in DOMAIN rows : rows[n].cid \in Cid
  BY <1>1, LenProperties
<1> QED  BY <1>2 DEF NamedCids

\* What is known while a kind is planned.
LEMMA Planner ==
    ASSUME assign \in Assignment, sheet \in [Kinds -> Seq(AccountRow)], SheetsOK,
           NEW d, NEW usedToday, AssignmentOK(assign, d, sheet, usedToday), Planning
    PROVE  LET kind == assign.pc  rows == ReadAccountRows(kind)  s == sheet[kind] IN
           /\ kind \in Kinds /\ KindOf(kind) = kind /\ assign.drama = d
           /\ KindsOK(assign) /\ BlocksOK(assign, usedToday)
           /\ s \in Seq(AccountRow) /\ RepeatsApart(s)
           /\ ReadUpTo(rows, s, Len(s)) /\ rows \in Seq(ReadRow)
           /\ assign.reserved \cup NamedCids(rows) \in SUBSET Cid
           /\ \E G : Ordered(Pattern, G)
<1> DEFINE kind == assign.pc
           rows == ReadAccountRows(kind)
           s == sheet[kind]
<1>1. kind \in Kinds
  BY DEF Planning
<1>2. KindOf(kind) = kind
  BY <1>1 DEF Kinds, KindOf
<1>3. assign.drama = d /\ KindsOK(assign) /\ BlocksOK(assign, usedToday)
  BY <1>1 DEF AssignmentOK
<1>4. s \in Seq(AccountRow) /\ RepeatsApart(s)
  BY <1>1 DEF SheetsOK
<1>5. ReadUpTo(rows, s, Len(s))
  BY <1>1, ReadAll
<1>6. rows \in Seq(ReadRow)
  BY <1>5 DEF ReadUpTo
<1>7. assign.reserved \cup NamedCids(rows) \in SUBSET Cid
  <2>1. assign.reserved \in SUBSET Cid
    BY DEF Assignment
  <2> HIDE DEF rows
  <2> QED  BY <1>6, <2>1, NamedAre
<1>8. \E G : Ordered(Pattern, G)
  BY <1>1, PatternsOrdered DEF Pattern
<1> QED  BY <1>1, <1>2, <1>3, <1>4, <1>5, <1>6, <1>7, <1>8

LEMMA PlanBlockOK ==
    ASSUME assign \in Assignment, sheet \in [Kinds -> Seq(AccountRow)], SheetsOK,
           NEW d, NEW usedToday, AssignmentOK(assign, d, sheet, usedToday), PlanBlock
    PROVE  StepOK(assign', d, sheet, usedToday)
<1> DEFINE kind == assign.pc
           rows == ReadAccountRows(kind)
           s == sheet[kind]
           R == assign.reserved \cup NamedCids(rows)
           block == FindBlock(rows, R, Pattern)
           a == [assign EXCEPT !.reserved = R]
<1>1. Planning /\ block # <<>> /\ assign' = Planned(kind, block, a)
  BY DEF PlanBlock
<1>2. /\ kind \in Kinds /\ KindOf(kind) = kind /\ assign.drama = d
      /\ KindsOK(assign) /\ BlocksOK(assign, usedToday)
      /\ s \in Seq(AccountRow) /\ RepeatsApart(s)
      /\ ReadUpTo(rows, s, Len(s)) /\ rows \in Seq(ReadRow)
      /\ R \in SUBSET Cid /\ \E G : Ordered(Pattern, G)
  BY <1>1, Planner
<1> HIDE DEF rows, s
<1>3. Fits(block, Pattern, R)
  BY <1>1, <1>2, FoundFits
<1>4. assign.reserved \subseteq R
  OBVIOUS
<1> HIDE DEF R, block
<1>5. /\ a \in Assignment /\ a.pc = kind /\ a.drama = d /\ a.reserved = R
      /\ KindsOK(a) /\ BlocksOK(a, usedToday)
  BY <1>2, <1>4, ReservedGrows
<1> HIDE DEF a
<1>6. Pattern = RequiredPattern(KindOf(a.pc), PaidTypes(a.drama)) /\ a.pc \in Kinds \cup Appends
  BY <1>2, <1>5 DEF Pattern
<1>7. assign' = Planned(KindOf(a.pc), block, a)
  BY <1>1, <1>2, <1>5
<1>8. /\ assign' \in Assignment /\ assign'.pc \in {"IAP", "planned"} /\ assign'.drama = a.drama
      /\ KindsOK(assign') /\ BlocksOK(assign', usedToday)
  BY <1>3, <1>5, <1>6, <1>7, PlanGoesOn, ZenonT(60) DEF Fits
<1> QED  BY <1>5, <1>8, PlannedStep

\* The template of a copy, and the row it is copied under.
LEMMA TemplateFits ==
    ASSUME NEW s \in Seq(AccountRow), RepeatsApart(s), NEW rows, ReadUpTo(rows, s, Len(s)),
           NEW kind \in Kinds, NEW used, NEW t, t = LatestAppendTemplate(rows, kind, used), t # <<>>
    PROVE  /\ t \in Seq(ReadRow) /\ HasPattern(t, BlockDefinition(kind))
           /\ \A i \in DOMAIN t : /\ t[i].at \in Filled(s) /\ s[t[i].at].group = t[i].group
                                  /\ s[t[i].at].cid = t[i].cid
           /\ \A i, j \in DOMAIN t : i < j => t[i].at < t[j].at
           /\ \A i, j \in DOMAIN t : t[i].cid = t[j].cid => i = j
           /\ rows # <<>>
<1>1. rows \in Seq(ReadRow)
  BY DEF ReadUpTo
<1>2. t \in Seq(ReadRow) /\ IsWindow(t, rows, BlockDefinition(kind), DOMAIN rows)
  BY <1>1, FoundTemplate
<1>3. PICK G : Ordered(BlockDefinition(kind), G)
  BY PatternsOrdered
<1>4. /\ \A i \in DOMAIN t : t[i].at \in Filled(s) /\ t[i] = CellsOf(s, t[i].at)
      /\ \A i, j \in DOMAIN t : i < j => t[i].at < t[j].at
      /\ \A i, j \in DOMAIN t : t[i].cid = t[j].cid => i = j
  BY <1>2, <1>3, DistinctWindow
<1>5. \A i \in DOMAIN t : s[t[i].at].group = t[i].group /\ s[t[i].at].cid = t[i].cid
  BY <1>4 DEF CellsOf
<1>6. rows # <<>>
  <2>1. Len(t) \in Nat \ {0} /\ DOMAIN t = 1 .. Len(t)
    BY <1>2, LenProperties
  <2>2. 1 \in DOMAIN t
    BY <2>1
  <2>3. DOMAIN rows # {}
    BY <1>2, <2>2 DEF IsWindow
  <2> QED  BY <2>3
<1>7. HasPattern(t, BlockDefinition(kind))
  BY <1>2 DEF IsWindow
<1> QED  BY <1>2, <1>4, <1>5, <1>6, <1>7

LEMMA PlanAppendOK ==
    ASSUME assign \in Assignment, sheet \in [Kinds -> Seq(AccountRow)], SheetsOK,
           NEW d, NEW usedToday, AssignmentOK(assign, d, sheet, usedToday), PlanAppend
    PROVE  StepOK(assign', d, sheet, usedToday)
<1> DEFINE kind == assign.pc
           rows == ReadAccountRows(kind)
           s == sheet[kind]
           R == assign.reserved \cup NamedCids(rows)
           t == LatestAppendTemplate(rows, kind, assign.used)
           last == IF rows = <<>> THEN 1 ELSE rows[Len(rows)].at
           preview == FindBlock(Appended(last, t), assign.used, Pattern)
           a == [assign EXCEPT !.reserved = R]
           pc == IF kind = "IAA" THEN "appendIAA" ELSE "appendIAP"
           b == [assign EXCEPT !.pc = pc, !.reserved = R, !.template = t, !.last = last]
<1>1. /\ Planning
      /\ assign' = IF t = <<>> \/ preview = <<>> THEN Ended("UNAVAILABLE")
                   ELSE IF ~CandidatesValid(preview) THEN Ended("CONFLICT")
                   ELSE IF ~assign.real THEN Planned(kind, preview, a)
                   ELSE b
  BY DEF PlanAppend
<1>2. /\ kind \in Kinds /\ KindOf(kind) = kind /\ assign.drama = d
      /\ KindsOK(assign) /\ BlocksOK(assign, usedToday)
      /\ s \in Seq(AccountRow) /\ RepeatsApart(s)
      /\ ReadUpTo(rows, s, Len(s)) /\ rows \in Seq(ReadRow)
      /\ R \in SUBSET Cid /\ \E G : Ordered(Pattern, G)
  BY <1>1, Planner
<1>3. assign.reserved \subseteq R
  OBVIOUS
<1> HIDE DEF R
<1>4. /\ a \in Assignment /\ a.pc = kind /\ a.drama = d /\ a.used = assign.used
      /\ KindsOK(a) /\ BlocksOK(a, usedToday)
  BY <1>2, <1>3, ReservedGrows
<1> HIDE DEF a, b, rows, s, t, last, preview
<1>5. CASE t = <<>> \/ preview = <<>>
  <2>1. assign' = Ended("UNAVAILABLE")
    BY <1>1, <1>5
  <2>2. "UNAVAILABLE" \in Statuses \ {"CONFIRMED", "DRY_RUN"}
    BY DEF Statuses
  <2> QED  BY <2>1, <2>2, EndedStep
<1>6. CASE t # <<>> /\ preview # <<>>
  <2>1. /\ t \in Seq(ReadRow) /\ HasPattern(t, BlockDefinition(kind))
        /\ \A i \in DOMAIN t : /\ t[i].at \in Filled(s) /\ s[t[i].at].group = t[i].group
                               /\ s[t[i].at].cid = t[i].cid
        /\ \A i, j \in DOMAIN t : i < j => t[i].at < t[j].at
        /\ \A i, j \in DOMAIN t : t[i].cid = t[j].cid => i = j
        /\ rows # <<>>
    BY <1>2, <1>6, TemplateFits DEF t
  <2>2. last \in Filled(s) /\ \A n \in Filled(s) : n <= last
    BY <1>2, <2>1, LastRow DEF last
  <2>3. last \in Nat
    BY <1>2, <2>2, FilledIn, LenProperties
  <2>4. preview # <<>> /\ preview = FindBlock(Appended(last, t), assign.used, Pattern)
    BY <1>6 DEF preview
  <2>5. Fits(preview, Pattern, assign.used)
    BY <1>2, <2>1, <2>3, <2>4, CopyFits
  <2>6. CASE ~CandidatesValid(preview)
    <3>1. assign' = Ended("CONFLICT")
      BY <1>1, <1>6, <2>6
    <3>2. "CONFLICT" \in Statuses \ {"CONFIRMED", "DRY_RUN"}
      BY DEF Statuses
    <3> QED  BY <3>1, <3>2, EndedStep
  <2>7. CASE CandidatesValid(preview) /\ ~assign.real
    <3>1. assign' = Planned(KindOf(a.pc), preview, a)
      BY <1>1, <1>2, <1>4, <1>6, <2>7
    <3>2. Pattern = RequiredPattern(KindOf(a.pc), PaidTypes(a.drama)) /\ a.pc \in Kinds \cup Appends
      BY <1>2, <1>4 DEF Pattern
    <3>3. /\ assign' \in Assignment /\ assign'.pc \in {"IAP", "planned"} /\ assign'.drama = a.drama
          /\ KindsOK(assign') /\ BlocksOK(assign', usedToday)
      BY <1>4, <2>5, <3>1, <3>2, PlanGoesOn DEF Fits
    <3> QED  BY <1>4, <3>3, PlannedStep
  <2>8. CASE CandidatesValid(preview) /\ assign.real
    <3>1. assign' = b
      BY <1>1, <1>6, <2>8
    <3>2. pc \in AssignPcs /\ KindOf(pc) = kind /\ pc \in Appends
      BY <1>2 DEF AssignPcs, KindOf, Appends, Kinds
    <3> HIDE DEF pc
    <3>3. b \in Assignment
      BY <1>2, <2>1, <2>3, <3>2 DEF b, Assignment
    <3>4. /\ b.pc = pc /\ b.drama = d /\ b.planned = assign.planned /\ b.used = assign.used
          /\ b.reserved = R /\ b.template = t /\ b.last = last
      BY <1>2 DEF b, Assignment
    <3>5. pc \notin Kinds \cup {"planned", "idle", "check", "write", "flag", "readBack", "record", "done"}
      BY <3>2 DEF Appends, Kinds
    <3>6. KindsOK(b)
      <4>1. KindsOK(assign) /\ pc = (IF kind = "IAA" THEN "appendIAA" ELSE "appendIAP")
        BY <1>2 DEF pc
      <4> QED  BY <1>2, <3>2, <3>4, <4>1 DEF KindsOK, Kinds
    <3>7. BlocksOK(b, usedToday)
      <4>1. BlocksOK(assign, usedToday) /\ assign.pc # "planned" /\ assign.reserved \subseteq R
        BY <1>2, <1>3 DEF Kinds
      <4> QED  BY <1>2, <3>4, <3>5, <4>1 DEF BlocksOK
    <3>8. TemplateOK(b, sheet[KindOf(b.pc)])
      <4>1. sheet[KindOf(b.pc)] = s /\ KindOf(b.pc) = kind
        BY <3>2, <3>4 DEF s
      <4>2. FindBlock(Appended(last, t), assign.used, RequiredPattern(kind, PaidTypes(d))) # <<>>
        BY <1>2, <2>4 DEF Pattern
      <4> QED  BY <2>1, <2>2, <3>4, <4>1, <4>2 DEF TemplateOK
    <3>9. AssignmentOK(b, d, sheet, usedToday)
      BY <3>4, <3>5, <3>6, <3>7, <3>8 DEF AssignmentOK
    <3> QED  BY <3>1, <3>3, <3>4, <3>5, <3>9 DEF StepOK
  <2> QED  BY <2>6, <2>7, <2>8
<1> QED  BY <1>5, <1>6

LEMMA AppendBlockOK ==
    ASSUME assign \in Assignment, sheet \in [Kinds -> Seq(AccountRow)], SheetsOK,
           NEW d, NEW usedToday, AssignmentOK(assign, d, sheet, usedToday), AppendBlock
    PROVE  /\ StepOK(assign', d, sheet', usedToday)
           /\ sheet' \in [Kinds -> Seq(AccountRow)] /\ SheetsOK'
<1> DEFINE kind == AppendKind
           s == sheet[kind]
           t == assign.template
           last == assign.last
           rows == Appended(last, t)
           pattern == RequiredPattern(kind, PaidTypes(assign.drama))
           block == FindBlock(rows, assign.used, pattern)
<1>1. /\ Appending
      /\ sheet' = [sheet EXCEPT ![kind] = SubSeq(@, 1, last) \o Written(rows)
                                          \o SubSeq(@, last + Len(rows) + 1, Len(@))]
      /\ assign' = Planned(kind, block, assign)
  BY DEF AppendBlock
<1>2. /\ assign.pc \in Appends /\ KindOf(assign.pc) = kind /\ kind \in Kinds
      /\ assign.pc \in Kinds \cup Appends
  BY <1>1 DEF Appending, Appends, KindOf, AppendKind, Kinds
<1>3. /\ assign.drama = d /\ KindsOK(assign) /\ BlocksOK(assign, usedToday)
      /\ TemplateOK(assign, s)
  BY <1>2 DEF AssignmentOK
<1>4. s \in Seq(AccountRow) /\ RepeatsApart(s) /\ t \in Seq(ReadRow) /\ last \in Nat
  BY <1>2 DEF SheetsOK, Assignment
<1> HIDE DEF kind
<1>5. /\ HasPattern(t, BlockDefinition(kind))
      /\ \A i \in DOMAIN t : /\ t[i].at \in Filled(s) /\ s[t[i].at].group = t[i].group
                             /\ s[t[i].at].cid = t[i].cid
      /\ \A i, j \in DOMAIN t : i < j => t[i].at < t[j].at
      /\ \A i, j \in DOMAIN t : t[i].cid = t[j].cid => i = j
      /\ last \in Filled(s) /\ \A n \in Filled(s) : n <= last
      /\ block # <<>>
  BY <1>2, <1>3 DEF TemplateOK
<1>6. Fits(block, pattern, assign.used)
  <2>1. \E G : Ordered(pattern, G)
    BY <1>2, PatternsOrdered
  <2> HIDE DEF pattern, t, last
  <2>2. block = FindBlock(Appended(last, t), assign.used, pattern)
    OBVIOUS
  <2> HIDE DEF block, rows
  <2> QED  BY <1>4, <1>5, <2>1, <2>2, CopyFits
<1>7. StepOK(assign', d, sheet', usedToday)
  <2> HIDE DEF block
  <2>1. /\ assign' \in Assignment /\ assign'.pc \in {"IAP", "planned"} /\ assign'.drama = assign.drama
        /\ KindsOK(assign') /\ BlocksOK(assign', usedToday)
    BY <1>1, <1>2, <1>3, <1>6, PlanGoesOn DEF Fits
  <2> QED  BY <1>3, <2>1, PlannedStep
<1>8. sheet' = [sheet EXCEPT ![kind] = Extended(s, last, rows)]
  BY <1>1 DEF Extended
<1>9. Extended(s, last, rows) \in Seq(AccountRow) /\ RepeatsApart(Extended(s, last, rows))
  <2>1. /\ rows \in Seq(ReadRow) /\ DOMAIN rows = DOMAIN t /\ Len(rows) = Len(t)
        /\ \A i \in DOMAIN t : rows[i].group = t[i].group /\ rows[i].cid = t[i].cid
    BY <1>4, AppendedIs
  <2> HIDE DEF rows, s, t, last
  <2>2. Extended(s, last, rows) \in Seq(AccountRow)
    BY <1>4, <1>5, <2>1, ExtendedIs
  <2>3. RepeatsApart(Extended(s, last, rows))
    BY <1>2, <1>4, <1>5, <2>1, ExtendedApart
  <2> QED  BY <2>2, <2>3
<1> HIDE DEF s, rows, last, t, block, pattern
<1>10. sheet' \in [Kinds -> Seq(AccountRow)]
  BY <1>8, <1>9
<1>11. \A k \in Kinds : RepeatsApart(sheet'[k])
  <2>1. \A k \in Kinds : sheet'[k] = IF k = kind THEN Extended(s, last, rows) ELSE sheet[k]
    BY <1>8
  <2> QED  BY <1>9, <2>1 DEF SheetsOK
<1> QED  BY <1>7, <1>10, <1>11 DEF SheetsOK

-----------------------------------------------------------------------------
(* The other steps of the assignment                                        *)

SameBlocks(s, t) ==
    /\ DOMAIN t = DOMAIN s
    /\ \A i \in DOMAIN s : t[i].group = s[i].group /\ t[i].cid = s[i].cid

\* One sheet is written to, but no group and no CID.
LEMMA SheetWritten ==
    ASSUME sheet \in [Kinds -> Seq(AccountRow)], SheetsOK, NEW kind \in Kinds,
           NEW t, t \in [DOMAIN sheet[kind] -> AccountRow], SameBlocks(sheet[kind], t),
           sheet' = [sheet EXCEPT ![kind] = t]
    PROVE  /\ sheet' \in [Kinds -> Seq(AccountRow)] /\ SheetsOK'
           /\ \A k \in Kinds : SameBlocks(sheet[k], sheet'[k])
<1> DEFINE s == sheet[kind]
<1>1. s \in Seq(AccountRow)
  OBVIOUS
<1>2. Len(s) \in Nat /\ DOMAIN s = 1 .. Len(s)
  BY <1>1, LenProperties
<1>3. t \in [1 .. Len(s) -> AccountRow]
  BY <1>2
<1>4. t \in Seq(AccountRow)
  BY <1>2, <1>3
<1>5. RepeatsApart(s)
  BY DEF SheetsOK
<1>6. RepeatsApart(t)
  BY <1>5, RepeatsKept DEF SameBlocks
<1>7. sheet' \in [Kinds -> Seq(AccountRow)]
  BY <1>4
<1> HIDE DEF s
<1>8. \A k \in Kinds : sheet'[k] = IF k = kind THEN t ELSE sheet[k]
  OBVIOUS
<1>9. \A k \in Kinds : RepeatsApart(sheet'[k])
  BY <1>6, <1>8 DEF SheetsOK
<1>10. \A k \in Kinds : SameBlocks(sheet[k], sheet'[k])
  BY <1>8 DEF SameBlocks
<1> QED  BY <1>7, <1>9, <1>10 DEF SheetsOK

\* The assignment does not depend on more of the sheets than groups and CIDs.
LEMMA SheetsMatter ==
    \A a, d, sheets, changed, usedToday :
        /\ AssignmentOK(a, d, sheets, usedToday)
        /\ \A k \in Kinds : SameBlocks(sheets[k], changed[k])
        => AssignmentOK(a, d, changed, usedToday)
<1> SUFFICES ASSUME NEW a, NEW d, NEW sheets, NEW changed, NEW usedToday,
                    AssignmentOK(a, d, sheets, usedToday),
                    \A k \in Kinds : SameBlocks(sheets[k], changed[k])
             PROVE  AssignmentOK(a, d, changed, usedToday)
  OBVIOUS
<1>1. ASSUME a.pc \in Appends PROVE TemplateOK(a, changed[KindOf(a.pc)])
  <2> DEFINE s == sheets[KindOf(a.pc)]
             t == changed[KindOf(a.pc)]
  <2>1. TemplateOK(a, s) /\ SameBlocks(s, t)
    BY <1>1 DEF AssignmentOK, KindOf, Kinds
  <2> HIDE DEF s, t
  <2>2. Filled(t) = Filled(s)
    BY <2>1 DEF Filled, SameBlocks
  <2>3. \A i \in Filled(s) : t[i].group = s[i].group /\ t[i].cid = s[i].cid
    BY <2>1 DEF Filled, SameBlocks
  <2>4. TemplateOK(a, t)
    BY <2>1, <2>2, <2>3 DEF TemplateOK
  <2> QED  BY <2>4 DEF t
<1> QED  BY <1>1 DEF AssignmentOK

\* A step from writing to writing.
LEMMA WritingStep ==
    ASSUME NEW a \in Assignment, a.pc \in {"check", "write", "flag", "readBack"},
           NEW d, NEW sheets, NEW changed, NEW usedToday, AssignmentOK(a, d, sheets, usedToday),
           NEW b \in Assignment, b.drama = a.drama, b.accounts = a.accounts, b.planned = a.planned,
           b.pc \in {"check", "write", "flag", "readBack", "record"},
           b.pc # "record" => b.k \in DOMAIN b.planned
    PROVE  StepOK(b, d, changed, usedToday)
<1>1. /\ a.drama = d /\ AccountsOK(a.accounts, d) /\ CandidatesValid(a.accounts)
      /\ CidsOf(a.accounts) \cap usedToday = {}
  BY DEF AssignmentOK
<1>2. b.pc \notin Kinds \cup Appends \cup {"planned", "done", "idle"}
  BY DEF Kinds, Appends
<1> QED  BY <1>1, <1>2 DEF StepOK, AssignmentOK

LEMMA CheckCandidatesOK ==
    ASSUME assign \in Assignment, NEW d, NEW usedToday,
           AssignmentOK(assign, d, sheet, usedToday), CheckCandidates
    PROVE  StepOK(assign', d, sheet, usedToday)
<1> DEFINE accounts == Accounts(assign.planned)
           b == [Ended("DRY_RUN") EXCEPT !.accounts = accounts]
           c == [assign EXCEPT !.pc = "check", !.k = 1, !.accounts = accounts]
<1>1. /\ assign.pc = "planned"
      /\ assign' = IF accounts = <<>> THEN Ended("UNAVAILABLE")
                   ELSE IF ~assign.real THEN b
                   ELSE IF ~CandidatesValid(accounts) THEN Ended("CONFLICT")
                   ELSE c
  BY DEF CheckCandidates
<1>2. assign.drama = d /\ KindsOK(assign) /\ BlocksOK(assign, usedToday)
  BY <1>1 DEF AssignmentOK
<1>3. assign.planned \in Seq(Block) /\ assign.real \in BOOLEAN
  BY DEF Assignment, Block
<1>4. accounts \in Seq(Account) /\ AccountsOK(accounts, d) /\ CidsOf(accounts) \cap usedToday = {}
  BY <1>1, <1>2, <1>3, PlannedAccounts
<1>5. accounts # <<>> => 1 \in DOMAIN assign.planned
  <2>1. assign.planned = <<>> => accounts = <<>>
    BY DEF Accounts
  <2>2. assign.planned # <<>> => 1 \in DOMAIN assign.planned
    BY <1>3
  <2> QED  BY <2>1, <2>2
<1> HIDE DEF accounts, b, c
<1>6. {"UNAVAILABLE", "CONFLICT"} \subseteq Statuses \ {"CONFIRMED", "DRY_RUN"} /\ "DRY_RUN" \in Statuses
  BY DEF Statuses
<1>7. CASE accounts = <<>>
  <2>1. assign' = Ended("UNAVAILABLE")
    BY <1>1, <1>7
  <2> QED  BY <1>6, <2>1, EndedStep
<1>8. CASE accounts # <<>> /\ ~assign.real
  <2>1. assign' = b
    BY <1>1, <1>8
  <2>2. /\ Ended("DRY_RUN") \in Assignment /\ Ended("DRY_RUN").pc = "done"
        /\ Ended("DRY_RUN").real = assign.real
    BY <1>6, EndedIs
  <2>3. b \in Assignment
    BY <1>4, <2>2 DEF b, Assignment
  <2>4. b.pc = "done" /\ b.accounts = accounts /\ b.real = assign.real
    BY <2>2 DEF b, Assignment
  <2>5. AssignmentOK(b, d, sheet, usedToday)
    <3>1. b.pc \notin Kinds \cup Appends \cup {"planned", "check", "write", "flag", "readBack", "record"}
      BY <2>4 DEF Kinds, Appends
    <3>2. AccountsOK(b.accounts, d) /\ (b.real => CandidatesValid(b.accounts))
      BY <1>4, <1>8, <2>4
    <3> QED  BY <3>1, <3>2, Zenon DEF AssignmentOK
  <2> QED  BY <2>1, <2>3, <2>4, <2>5 DEF StepOK
<1>9. CASE accounts # <<>> /\ assign.real /\ ~CandidatesValid(accounts)
  <2>1. assign' = Ended("CONFLICT")
    BY <1>1, <1>9
  <2> QED  BY <1>6, <2>1, EndedStep
<1>10. CASE accounts # <<>> /\ assign.real /\ CandidatesValid(accounts)
  <2>1. assign' = c
    BY <1>1, <1>10
  <2>2. c \in Assignment
    BY <1>4 DEF c, Assignment, AssignPcs
  <2>3. c.pc = "check" /\ c.drama = d /\ c.accounts = accounts /\ c.planned = assign.planned /\ c.k = 1
    BY <1>2 DEF c, Assignment
  <2>4. c.pc \notin Kinds \cup Appends \cup {"planned", "done", "idle"}
    BY <2>3 DEF Kinds, Appends
  <2>5. CandidatesValid(c.accounts) /\ AccountsOK(c.accounts, d) /\ CidsOf(c.accounts) \cap usedToday = {}
    BY <1>4, <1>10, <2>3
  <2>6. c.k \in DOMAIN c.planned
    BY <1>5, <1>10, <2>3
  <2>7. AssignmentOK(c, d, sheet, usedToday)
    BY <2>3, <2>4, <2>5, <2>6 DEF AssignmentOK
  <2> QED  BY <2>1, <2>2, <2>4, <2>7 DEF StepOK
<1> QED  BY <1>3, <1>7, <1>8, <1>9, <1>10

LEMMA RowNumbersAre == \A rows : rows \in Seq(ReadRow) => RowNumbers(rows) \in SUBSET Nat
<1> SUFFICES ASSUME NEW rows, rows \in Seq(ReadRow) PROVE RowNumbers(rows) \in SUBSET Nat
  OBVIOUS
<1>1. \A r \in ReadRow : r.at \in Nat
  BY DEF ReadRow
<1>2. \A n \in DOMAIN rows : rows[n].at \in Nat
  BY <1>1, LenProperties
<1> QED  BY <1>2 DEF RowNumbers

LEMMA ToWriteIs ==
    ASSUME assign \in Assignment, NEW k \in DOMAIN assign.planned
    PROVE  /\ ToWrite(k) \in Assignment /\ ToWrite(k).pc = "write" /\ ToWrite(k).k = k
           /\ ToWrite(k).drama = assign.drama /\ ToWrite(k).accounts = assign.accounts
           /\ ToWrite(k).planned = assign.planned
<1> DEFINE todo == RowNumbers(assign.planned[k].rows)
<1>1. assign.planned \in Seq(Block)
  BY DEF Assignment, Block
<1>2. k \in Nat /\ assign.planned[k] \in Block
  BY <1>1, LenProperties
<1>3. assign.planned[k].rows \in Seq(ReadRow)
  BY <1>2 DEF Block
<1>4. todo \in SUBSET Nat
  BY <1>3, RowNumbersAre
<1>5. ToWrite(k) = [assign EXCEPT !.pc = "write", !.k = k, !.todo = todo]
  BY DEF ToWrite
<1> HIDE DEF todo
<1>6. ToWrite(k) \in Assignment
  BY <1>2, <1>4, <1>5 DEF Assignment, AssignPcs
<1> QED  BY <1>5, <1>6 DEF Assignment

LEMMA CurrentIs ==
    ASSUME assign \in Assignment, NEW d, NEW usedToday, NEW sheets,
           AssignmentOK(assign, d, sheets, usedToday),
           assign.pc \in {"check", "write", "flag", "readBack"}
    PROVE  /\ assign.k \in DOMAIN assign.planned /\ assign.k \in Nat \ {0}
           /\ DOMAIN assign.planned = 1 .. Len(assign.planned) /\ Len(assign.planned) \in Nat
           /\ Current.kind \in Kinds
<1>1. assign.planned \in Seq(Block)
  BY DEF Assignment, Block
<1>2. assign.k \in DOMAIN assign.planned
  BY DEF AssignmentOK
<1>3. DOMAIN assign.planned = 1 .. Len(assign.planned) /\ Len(assign.planned) \in Nat
  BY <1>1, LenProperties
<1>4. Current \in Block
  BY <1>1, <1>2, <1>3 DEF Current
<1>5. Current.kind \in Kinds
  BY <1>4 DEF Block
<1> QED  BY <1>2, <1>3, <1>5

LEMMA ReadAgainOK ==
    ASSUME assign \in Assignment, NEW d, NEW usedToday,
           AssignmentOK(assign, d, sheet, usedToday), ReadAgain
    PROVE  StepOK(assign', d, sheet, usedToday)
<1> DEFINE ok == StillAvailable(Current.rows, ReadAccountRows(Current.kind))
           b == [assign EXCEPT !.k = @ + 1]
           n == Len(assign.planned)
<1>1. /\ assign.pc = "check"
      /\ assign' = IF ~ok THEN Ended("CONFLICT") ELSE IF assign.k < n THEN b ELSE ToWrite(1)
  BY DEF ReadAgain
<1>2. /\ assign.k \in DOMAIN assign.planned /\ assign.k \in Nat \ {0}
      /\ DOMAIN assign.planned = 1 .. n /\ n \in Nat
  BY <1>1, CurrentIs
<1> HIDE DEF ok, b, n
<1>3. CASE ~ok
  <2>1. assign' = Ended("CONFLICT") /\ "CONFLICT" \in Statuses \ {"CONFIRMED", "DRY_RUN"}
    BY <1>1, <1>3 DEF Statuses
  <2> QED  BY <2>1, EndedStep
<1>4. CASE ok /\ assign.k < n
  <2>1. assign' = b
    BY <1>1, <1>4
  <2>2. b \in Assignment
    <3>1. assign.k + 1 \in Nat
      BY <1>2
    <3>2. \A k \in Nat : [assign EXCEPT !.k = k] \in Assignment
      BY DEF Assignment
    <3> QED  BY <3>1, <3>2 DEF b
  <2>3. /\ b.pc = "check" /\ b.drama = assign.drama /\ b.accounts = assign.accounts
        /\ b.planned = assign.planned /\ b.k = assign.k + 1
    BY <1>1 DEF b, Assignment
  <2>4. b.k \in DOMAIN b.planned
    BY <1>2, <1>4, <2>3
  <2> QED  BY <1>1, <2>1, <2>2, <2>3, <2>4, WritingStep
<1>5. CASE ok /\ ~(assign.k < n)
  <2>1. assign' = ToWrite(1) /\ 1 \in DOMAIN assign.planned
    BY <1>1, <1>2, <1>5
  <2>2. /\ ToWrite(1) \in Assignment /\ ToWrite(1).pc = "write" /\ ToWrite(1).k = 1
        /\ ToWrite(1).drama = assign.drama /\ ToWrite(1).accounts = assign.accounts
        /\ ToWrite(1).planned = assign.planned
    BY <2>1, ToWriteIs
  <2> QED  BY <1>1, <2>1, <2>2, WritingStep
<1> QED  BY <1>3, <1>4, <1>5

LEMMA ReadBackOK ==
    ASSUME assign \in Assignment, NEW d, NEW usedToday,
           AssignmentOK(assign, d, sheet, usedToday), ReadBack
    PROVE  StepOK(assign', d, sheet, usedToday)
<1> DEFINE ok == WriteConfirmed(Current.rows, ReadAccountRows(Current.kind), assign.drama)
           k == assign.k + 1
           b == [assign EXCEPT !.pc = "record"]
           n == Len(assign.planned)
<1>1. /\ assign.pc = "readBack"
      /\ assign' = IF ~ok THEN Ended("PARTIAL_WRITE") ELSE IF assign.k < n THEN ToWrite(k) ELSE b
  BY DEF ReadBack
<1>2. /\ assign.k \in DOMAIN assign.planned /\ assign.k \in Nat \ {0}
      /\ DOMAIN assign.planned = 1 .. n /\ n \in Nat
  BY <1>1, CurrentIs
<1> HIDE DEF ok, b, n
<1>3. CASE ~ok
  <2>1. assign' = Ended("PARTIAL_WRITE") /\ "PARTIAL_WRITE" \in Statuses \ {"CONFIRMED", "DRY_RUN"}
    BY <1>1, <1>3 DEF Statuses
  <2> QED  BY <2>1, EndedStep
<1>4. CASE ok /\ assign.k < n
  <2>1. assign' = ToWrite(k) /\ k \in DOMAIN assign.planned
    BY <1>1, <1>2, <1>4
  <2> HIDE DEF k
  <2>2. /\ ToWrite(k) \in Assignment /\ ToWrite(k).pc = "write" /\ ToWrite(k).k = k
        /\ ToWrite(k).drama = assign.drama /\ ToWrite(k).accounts = assign.accounts
        /\ ToWrite(k).planned = assign.planned
    BY <2>1, ToWriteIs
  <2> QED  BY <1>1, <2>1, <2>2, WritingStep
<1>5. CASE ok /\ ~(assign.k < n)
  <2>1. assign' = b
    BY <1>1, <1>5
  <2>2. b \in Assignment
    BY DEF b, Assignment, AssignPcs
  <2>3. /\ b.pc = "record" /\ b.drama = assign.drama /\ b.accounts = assign.accounts
        /\ b.planned = assign.planned
    BY DEF b, Assignment
  <2> QED  BY <1>1, <2>1, <2>2, <2>3, WritingStep
<1> QED  BY <1>3, <1>4, <1>5

LEMMA WriteAccountNamesOK ==
    ASSUME assign \in Assignment, sheet \in [Kinds -> Seq(AccountRow)], SheetsOK,
           NEW d \in Drama, NEW usedToday, AssignmentOK(assign, d, sheet, usedToday),
           WriteAccountNames
    PROVE  /\ StepOK(assign', d, sheet', usedToday)
           /\ sheet' \in [Kinds -> Seq(AccountRow)] /\ SheetsOK'
<1> DEFINE kind == Current.kind
           s == sheet[kind]
           group == FirstGroup(assign.todo)
           t == [i \in DOMAIN s |-> IF i \in group THEN [s[i] EXCEPT !.drama = assign.drama]
                                    ELSE s[i]]
           pc == IF assign.todo # group THEN "write"
                 ELSE IF IncludeTest /\ TestRow(Current.rows) # 0 THEN "flag" ELSE "readBack"
           todo == assign.todo \ group
           written == assign.written \/ assign.todo = group
           b == [assign EXCEPT !.todo = todo, !.written = written, !.pc = pc]
<1>1. /\ assign.pc = "write" /\ sheet' = [sheet EXCEPT ![kind] = t] /\ assign' = b
  BY DEF WriteAccountNames
<1>2. kind \in Kinds /\ assign.k \in DOMAIN assign.planned
  BY <1>1, CurrentIs
<1>3. assign.drama \in Drama
  BY <1>1 DEF AssignmentOK
<1>4. s \in Seq(AccountRow)
  BY <1>2
<1> HIDE DEF kind, group
<1>5. t \in [DOMAIN s -> AccountRow] /\ SameBlocks(s, t)
  <2>1. \A r \in AccountRow : /\ [r EXCEPT !.drama = assign.drama] \in AccountRow
                              /\ [r EXCEPT !.drama = assign.drama].group = r.group
                              /\ [r EXCEPT !.drama = assign.drama].cid = r.cid
    BY <1>3 DEF AccountRow
  <2>2. \A i \in DOMAIN s : s[i] \in AccountRow
    BY <1>4, LenProperties
  <2> HIDE DEF s
  <2> QED  BY <2>1, <2>2 DEF SameBlocks
<1> HIDE DEF t
<1>6. sheet' \in [Kinds -> Seq(AccountRow)] /\ SheetsOK'
  BY <1>1, <1>2, <1>5, SheetWritten
<1> HIDE DEF s
<1>7. StepOK(assign', d, sheet', usedToday)
  <2>1. pc \in {"write", "flag", "readBack"} /\ pc \in AssignPcs
    BY DEF AssignPcs
  <2>2. todo \in SUBSET Nat
    BY DEF Assignment
  <2>3. written \in BOOLEAN
    <3>1. assign.written \in BOOLEAN
      BY DEF Assignment
    <3> QED  BY <3>1
  <2> HIDE DEF pc, todo, written
  <2>4. b \in Assignment
    BY <2>1, <2>2, <2>3 DEF Assignment
  <2>5. /\ b.pc = pc /\ b.drama = assign.drama /\ b.accounts = assign.accounts
        /\ b.planned = assign.planned /\ b.k = assign.k
    BY DEF Assignment
  <2> HIDE DEF b
  <2> QED  BY <1>1, <1>2, <2>1, <2>4, <2>5, WritingStep
<1> QED  BY <1>6, <1>7

LEMMA WriteTestFlagOK ==
    ASSUME assign \in Assignment, sheet \in [Kinds -> Seq(AccountRow)], SheetsOK,
           NEW d \in Drama, NEW usedToday, AssignmentOK(assign, d, sheet, usedToday),
           WriteTestFlag
    PROVE  /\ StepOK(assign', d, sheet', usedToday)
           /\ sheet' \in [Kinds -> Seq(AccountRow)] /\ SheetsOK'
<1> DEFINE kind == Current.kind
           s == sheet[kind]
           n == TestRow(Current.rows)
           t == [s EXCEPT ![n].test = TRUE]
           b == [assign EXCEPT !.pc = "readBack"]
<1>1. /\ assign.pc = "flag" /\ sheet' = [sheet EXCEPT ![kind] = t] /\ assign' = b
  BY DEF WriteTestFlag
<1>2. kind \in Kinds /\ assign.k \in DOMAIN assign.planned
  BY <1>1, CurrentIs
<1>3. s \in Seq(AccountRow)
  BY <1>2
<1> HIDE DEF kind, n
<1>4. t \in [DOMAIN s -> AccountRow] /\ SameBlocks(s, t)
  <2>1. \A r \in AccountRow : /\ [r EXCEPT !.test = TRUE] \in AccountRow
                              /\ [r EXCEPT !.test = TRUE].group = r.group
                              /\ [r EXCEPT !.test = TRUE].cid = r.cid
    BY DEF AccountRow
  <2>2. s \in [DOMAIN s -> AccountRow]
    BY <1>3, LenProperties
  <2> HIDE DEF s
  <2>3. /\ DOMAIN t = DOMAIN s
        /\ \A i \in DOMAIN s : t[i] = IF i = n THEN [s[i] EXCEPT !.test = TRUE] ELSE s[i]
    OBVIOUS
  <2>4. t = [i \in DOMAIN s |-> t[i]]
    OBVIOUS
  <2>5. \A i \in DOMAIN s : s[i] \in AccountRow
    BY <2>2
  <2> HIDE DEF t
  <2>6. \A i \in DOMAIN s : t[i] \in AccountRow /\ t[i].group = s[i].group /\ t[i].cid = s[i].cid
    BY <2>1, <2>3, <2>5
  <2> QED  BY <2>3, <2>4, <2>6 DEF SameBlocks
<1> HIDE DEF t
<1>5. sheet' \in [Kinds -> Seq(AccountRow)] /\ SheetsOK'
  BY <1>1, <1>2, <1>4, SheetWritten
<1> HIDE DEF s
<1>6. StepOK(assign', d, sheet', usedToday)
  <2>1. b \in Assignment
    BY DEF Assignment, AssignPcs
  <2>2. /\ b.pc = "readBack" /\ b.drama = assign.drama /\ b.accounts = assign.accounts
        /\ b.planned = assign.planned /\ b.k = assign.k
    BY DEF Assignment
  <2> HIDE DEF b
  <2> QED  BY <1>1, <1>2, <2>1, <2>2, WritingStep
<1> QED  BY <1>5, <1>6

LEMMA FailuresOK ==
    ASSUME assign \in Assignment, NEW d, NEW usedToday, AppendFails \/ WriteFails
    PROVE  StepOK(assign', d, sheet, usedToday)
<1> DEFINE status == IF assign.written THEN "PARTIAL_WRITE" ELSE "CONFLICT"
<1>1. {"CONFLICT", "PARTIAL_WRITE"} \subseteq Statuses \ {"CONFIRMED", "DRY_RUN"}
  BY DEF Statuses
<1>2. status \in {"CONFLICT", "PARTIAL_WRITE"}
  OBVIOUS
<1>3. assign' = Ended("CONFLICT") \/ assign' = Ended(status)
  BY DEF AppendFails, WriteFails
<1> HIDE DEF status
<1> QED  BY <1>1, <1>2, <1>3, EndedStep

LEMMA RecordConfirmedOK ==
    ASSUME assign \in Assignment, NEW d \in Drama, NEW usedToday,
           AssignmentOK(assign, d, sheet, usedToday), RecordConfirmed
    PROVE  /\ StepOK(assign', d, sheet, usedToday)
           /\ \/ pending' = pending
              \/ \A u \in pending' : u.drama \in Drama /\ u.cid \in Cid /\ u.day = DayOf[u.drama]
<1>1. assign.pc = "record"
  BY DEF RecordConfirmed
<1>2. /\ assign.drama = d /\ AccountsOK(assign.accounts, d) /\ CandidatesValid(assign.accounts)
  BY <1>1 DEF AssignmentOK
<1>3. CASE UsageConflict
  <2>1. assign' = Ended("PARTIAL_WRITE") /\ pending' = pending
    BY <1>3 DEF RecordConfirmed
  <2>2. "PARTIAL_WRITE" \in Statuses \ {"CONFIRMED", "DRY_RUN"}
    BY DEF Statuses
  <2> QED  BY <2>1, <2>2, EndedStep
<1>4. CASE ~UsageConflict
  <2>1. /\ assign' = Ended("CONFIRMED")
        /\ pending' = {[day |-> DayOf[assign.drama], drama |-> assign.drama, cid |-> c]
                          : c \in CidsOf(assign.accounts)}
    BY <1>4 DEF RecordConfirmed
  <2>2. CidsOf(assign.accounts) \in SUBSET Cid
    <3>1. \A a \in Account : a.cid \in Cid
      BY DEF Account
    <3>2. assign.accounts \in Seq(Account)
      BY DEF Assignment
    <3>3. \A n \in DOMAIN assign.accounts : assign.accounts[n].cid \in Cid
      BY <3>1, <3>2, LenProperties
    <3> QED  BY <3>3 DEF CidsOf
  <2>3. \A u \in pending' : u.drama \in Drama /\ u.cid \in Cid /\ u.day = DayOf[u.drama]
    BY <1>2, <2>1, <2>2
  <2>4. "CONFIRMED" \in Statuses
    BY DEF Statuses
  <2>5. /\ assign' \in Assignment /\ assign'.pc = "done" /\ assign'.accounts = assign.accounts
    BY <2>1, <2>4, EndedIs
  <2>6. assign'.pc \notin Kinds \cup Appends \cup {"planned", "check", "write", "flag", "readBack", "record"}
    BY <2>5 DEF Kinds, Appends
  <2>7. AssignmentOK(assign', d, sheet, usedToday)
    BY <1>2, <2>5, <2>6 DEF AssignmentOK
  <2> QED  BY <2>3, <2>5, <2>7 DEF StepOK
<1> QED  BY <1>3, <1>4

\* All of the assignment's steps.
LEMMA AssignNextOK ==
    ASSUME assign \in Assignment, sheet \in [Kinds -> Seq(AccountRow)], SheetsOK,
           NEW d \in Drama, NEW usedToday, AssignmentOK(assign, d, sheet, usedToday),
           AssignNext
    PROVE  /\ StepOK(assign', d, sheet', usedToday)
           /\ sheet' \in [Kinds -> Seq(AccountRow)] /\ SheetsOK'
           /\ usage' = usage /\ edits' = edits
           /\ \/ pending' = pending
              \/ \A u \in pending' : u.drama \in Drama /\ u.cid \in Cid /\ u.day = DayOf[u.drama]
<1>0. ASSUME sheet' = sheet PROVE sheet' \in [Kinds -> Seq(AccountRow)] /\ SheetsOK'
  BY <1>0 DEF SheetsOK
<1>1. CASE AppendFails \/ WriteFails
  <2>1. sheet' = sheet /\ usage' = usage /\ edits' = edits /\ pending' = pending
    BY <1>1 DEF AppendFails, WriteFails
  <2> QED  BY <1>0, <1>1, <2>1, FailuresOK
<1>2. CASE PlanBlock
  <2>1. sheet' = sheet /\ usage' = usage /\ edits' = edits /\ pending' = pending
    BY <1>2 DEF PlanBlock
  <2> QED  BY <1>0, <1>2, <2>1, PlanBlockOK
<1>3. CASE PlanAppend
  <2>1. sheet' = sheet /\ usage' = usage /\ edits' = edits /\ pending' = pending
    BY <1>3 DEF PlanAppend
  <2> QED  BY <1>0, <1>3, <2>1, PlanAppendOK
<1>4. CASE AppendBlock
  <2>1. usage' = usage /\ edits' = edits /\ pending' = pending
    BY <1>4 DEF AppendBlock
  <2> QED  BY <1>4, <2>1, AppendBlockOK
<1>5. CASE CheckCandidates
  <2>1. sheet' = sheet /\ usage' = usage /\ edits' = edits /\ pending' = pending
    BY <1>5 DEF CheckCandidates
  <2> QED  BY <1>0, <1>5, <2>1, CheckCandidatesOK
<1>6. CASE ReadAgain
  <2>1. sheet' = sheet /\ usage' = usage /\ edits' = edits /\ pending' = pending
    BY <1>6 DEF ReadAgain
  <2> QED  BY <1>0, <1>6, <2>1, ReadAgainOK
<1>7. CASE WriteAccountNames
  <2>1. usage' = usage /\ edits' = edits /\ pending' = pending
    BY <1>7 DEF WriteAccountNames
  <2> QED  BY <1>7, <2>1, WriteAccountNamesOK
<1>8. CASE WriteTestFlag
  <2>1. usage' = usage /\ edits' = edits /\ pending' = pending
    BY <1>8 DEF WriteTestFlag
  <2> QED  BY <1>8, <2>1, WriteTestFlagOK
<1>9. CASE ReadBack
  <2>1. sheet' = sheet /\ usage' = usage /\ edits' = edits /\ pending' = pending
    BY <1>9 DEF ReadBack
  <2> QED  BY <1>0, <1>9, <2>1, ReadBackOK
<1>10. CASE RecordConfirmed
  <2>1. sheet' = sheet /\ usage' = usage /\ edits' = edits
    BY <1>10 DEF RecordConfirmed
  <2> QED  BY <1>0, <1>10, <2>1, RecordConfirmedOK
<1> QED  BY <1>1, <1>2, <1>3, <1>4, <1>5, <1>6, <1>7, <1>8, <1>9, <1>10 DEF AssignNext

-----------------------------------------------------------------------------
(* The steps of the execution                                               *)

LEMMA InitOK == Init => IInv
<1> SUFFICES ASSUME Init PROVE IInv
  OBVIOUS
<1>1. /\ sheet \in InitialSheets /\ usage = {} /\ pending = {} /\ assign = NoAssign /\ edits = 0
      /\ platform = <<>> /\ marks = [d \in Drama |-> 0] /\ ledger = [d \in Drama |-> 0]
      /\ result = [d \in Drama |-> "none"] /\ run = NoRun /\ runs = 0
  BY DEF Init, AccountInit
<1>2. assign \in Assignment /\ assign.pc = "idle"
  BY <1>1, NoAssignIs DEF NoAssign
<1>3. sheet \in [Kinds -> Seq(AccountRow)] /\ \A k \in Kinds : RepeatsApart(sheet[k])
  BY <1>1, AccountAssumption
<1>4. MaxEdits \in Nat /\ MaxRuns \in Nat /\ MaxPolls \in Nat
  BY AccountAssumption, DeliveryAssumption
<1>5. assign.pc \notin Kinds \cup Appends
         \cup {"planned", "check", "write", "flag", "readBack", "record", "done"}
  BY <1>2 DEF Kinds, Appends
<1>6. AssignOK
  BY <1>5 DEF AssignOK, AssignmentOK
<1>7. AccountTypeOK
  BY <1>1, <1>2, <1>3, <1>4 DEF AccountTypeOK, AssignPcs
<1>8. AccountsKept
  BY <1>2, <1>3, <1>6, <1>7 DEF AccountsKept, SheetsOK
<1>9. RunOK
  <2>1. run.pc = "idle" /\ run \in Run
    BY <1>1, <1>4 DEF NoRun, Run, RunPcs
  <2> QED  BY <1>1, <1>2, <1>4, <2>1 DEF RunOK, PhasesOK
<1>10. PlatformOK
  <2>1. run.pc = "idle"
    BY <1>1 DEF NoRun
  <2>2. /\ platform \in Seq(PlatformTask) /\ marks \in [Drama -> Nat] /\ ledger \in [Drama -> Nat]
        /\ result \in [Drama -> Reports]
    BY <1>1 DEF Reports
  <2>3. FinishOK
    BY <1>1, <2>1 DEF FinishOK
  <2>4. CompletionIsBacked
    BY <1>1 DEF CompletionIsBacked
  <2> QED  BY <2>2, <2>3, <2>4 DEF PlatformOK
<1> QED  BY <1>8, <1>9, <1>10 DEF IInv

\* The sheets and the assignment stay as they are.
LEMMA AccountsStay ==
    ASSUME AccountsKept, UNCHANGED accountVars, run'.drama = run.drama \/ assign.pc = "idle"
    PROVE  AccountsKept'
<1>1. sheet' = sheet /\ usage' = usage /\ pending' = pending /\ assign' = assign /\ edits' = edits
  BY DEF accountVars
<1>2. AccountTypeOK' /\ (assign \in Assignment)' /\ SheetsOK'
  BY <1>1 DEF AccountsKept, AccountTypeOK, SheetsOK
<1>3. CASE run'.drama = run.drama
  <2>1. UsedToday(run.drama)' = UsedToday(run.drama)
    BY <1>1, <1>3 DEF UsedToday
  <2>2. AssignOK'
    BY <1>1, <1>3, <2>1 DEF AccountsKept, AssignOK
  <2> QED  BY <1>2, <2>2 DEF AccountsKept
<1>4. CASE assign.pc = "idle"
  <2>1. assign'.pc \notin Kinds \cup Appends
          \cup {"planned", "check", "write", "flag", "readBack", "record", "done"}
    BY <1>1, <1>4 DEF Kinds, Appends
  <2>2. AssignOK'
    BY <2>1 DEF AssignOK, AssignmentOK
  <2> QED  BY <1>2, <2>2 DEF AccountsKept
<1> QED  BY <1>3, <1>4

\* The assignment is over.
LEMMA AccountsEnd ==
    ASSUME AccountsKept, sheet' = sheet, edits' = edits, assign' = NoAssign,
           \/ usage' = usage /\ pending' = {}
           \/ usage' = usage \cup pending /\ pending' = {}
    PROVE  AccountsKept'
<1>1. assign' \in Assignment /\ assign'.pc = "idle"
  BY NoAssignIs DEF NoAssign
<1>2. \A u \in usage' \cup pending' : u.drama \in Drama /\ u.cid \in Cid /\ u.day = DayOf[u.drama]
  BY DEF AccountsKept, AccountTypeOK
<1>3. AccountTypeOK'
  BY <1>1, <1>2 DEF AccountsKept, AccountTypeOK, AssignPcs
<1>4. SheetsOK'
  BY DEF AccountsKept, SheetsOK
<1>5. assign'.pc \notin Kinds \cup Appends
        \cup {"planned", "check", "write", "flag", "readBack", "record", "done"}
  BY <1>1 DEF Kinds, Appends
<1>6. AssignOK'
  BY <1>5 DEF AssignOK, AssignmentOK
<1> QED  BY <1>1, <1>3, <1>4, <1>6 DEF AccountsKept

\* The execution moves on after the assignment, and nothing else does.
LEMMA RunGoesOn ==
    ASSUME IInv, UNCHANGED <<accountVars, platform, marks, ledger, result, runs>>,
           run.pc # "idle", assign.pc = "done", assign.status \in {"CONFIRMED", "DRY_RUN"},
           run' \in Run, run'.drama = run.drama,
           run'.pc \notin {"idle", "prepare", "assign", "report"},
           run'.pc \in {"poll", "finish"} => run'.task \in Shown,
           run'.pc = "finish" => platform[run'.task].status = "COMPLETED"
    PROVE  IInv'
<1>1. AccountsKept' /\ assign' = assign
  BY AccountsStay DEF IInv, accountVars
<1>2. platform' = platform /\ marks' = marks /\ ledger' = ledger /\ result' = result /\ runs' = runs
  OBVIOUS
<1>3. Shown' = Shown
  BY <1>2 DEF Shown
<1>4. RunOK'
  <2>1. run.drama \in Drama /\ runs \in 0 .. MaxRuns
    BY DEF IInv, RunOK, PhasesOK
  <2>2. PhasesOK'
    BY <1>1, <1>2, <2>1 DEF PhasesOK
  <2> QED  BY <1>2, <1>3, <2>1, <2>2 DEF RunOK
<1>5. PlatformOK'
  <2>1. FinishOK'
    BY <1>2 DEF IInv, PlatformOK, FinishOK
  <2>2. CompletionIsBacked'
    BY <1>2 DEF IInv, PlatformOK, CompletionIsBacked
  <2> QED  BY <1>2, <2>1, <2>2 DEF IInv, PlatformOK
<1> QED  BY <1>1, <1>4, <1>5 DEF IInv

LEMMA NoRunIs == NoRun \in Run /\ NoRun.pc = "idle"
BY DeliveryAssumption DEF NoRun, Run, RunPcs

LEMMA TasksAre ==
    ASSUME platform \in Seq(PlatformTask)
    PROVE  /\ DOMAIN platform = 1 .. Len(platform) /\ Len(platform) \in Nat
           /\ \A t \in DOMAIN platform : t \in Nat \ {0} /\ platform[t] \in PlatformTask
           /\ Shown \subseteq DOMAIN platform
<1>1. DOMAIN platform = 1 .. Len(platform) /\ Len(platform) \in Nat
  BY LenProperties
<1> QED  BY <1>1 DEF Shown

\* A report leaves the marks alone; only one that follows M=1 says that the drama completed.
LEMMA ReportOK ==
    ASSUME IInv, NEW report, NEW task, Report(report, task), UNCHANGED marks, run.pc # "idle",
           report \in {"DRY_RUN", "MANUAL_REVIEW", "UNCERTAIN", "COMPLETED"},
           report = "COMPLETED" => run.pc = "report" /\ task = run.task
    PROVE  IInv'
<1> DEFINE r == run.drama
<1>1. /\ result' = [result EXCEPT ![r] = report]
      /\ ledger' = [ledger EXCEPT ![r] = IF report = "COMPLETED" THEN task ELSE @]
      /\ usage' = usage \cup pending /\ pending' = {} /\ run' = NoRun /\ assign' = NoAssign
      /\ sheet' = sheet /\ edits' = edits /\ platform' = platform /\ runs' = runs
  BY DEF Report
<1>2. AccountsKept'
  BY <1>1, AccountsEnd DEF IInv
<1>3. run' \in Run /\ run'.pc = "idle" /\ assign'.pc = "idle"
  BY <1>1, NoRunIs DEF NoAssign
<1>4. RunOK'
  BY <1>1, <1>3 DEF IInv, RunOK, PhasesOK
<1>5. r \in Drama
  BY DEF IInv, RunOK, PhasesOK
<1>6. /\ platform \in Seq(PlatformTask) /\ marks \in [Drama -> Nat] /\ ledger \in [Drama -> Nat]
      /\ result \in [Drama -> Reports]
      /\ FinishOK /\ CompletionIsBacked
  BY DEF IInv, PlatformOK
<1>7. CASE report = "COMPLETED"
  <2>1. /\ task = run.task /\ task \in DOMAIN platform /\ task \in Nat \ {0}
        /\ platform[task].status = "COMPLETED" /\ marks[r] = task
    <3>1. run.pc = "report" /\ run.task \in Shown
      BY <1>7 DEF IInv, RunOK
    <3> QED  BY <1>6, <1>7, <3>1, TasksAre DEF FinishOK
  <2>2. ledger' = [ledger EXCEPT ![r] = task] /\ result' = [result EXCEPT ![r] = "COMPLETED"]
    BY <1>1, <1>7
  <2>3. ledger' \in [Drama -> Nat] /\ result' \in [Drama -> Reports]
    BY <1>6, <2>1, <2>2 DEF Reports
  <2>4. \A d \in Drama : /\ ledger'[d] = (IF d = r THEN task ELSE ledger[d])
                         /\ result'[d] = (IF d = r THEN "COMPLETED" ELSE result[d])
    BY <1>6, <2>2
  <2>5. FinishOK'
    BY <1>1, <1>3, <1>6, <2>1, <2>4 DEF FinishOK
  <2>6. CompletionIsBacked'
    <3> SUFFICES ASSUME NEW d \in Drama
                 PROVE  /\ marks[d] # 0 => platform[marks[d]].status = "COMPLETED"
                        /\ ledger'[d] # 0 => marks[d] # 0 /\ platform[ledger'[d]].status = "COMPLETED"
                        /\ result'[d] = "COMPLETED" => ledger'[d] # 0
      BY <1>1 DEF CompletionIsBacked
    <3>1. CASE d = r
      BY <2>1, <2>4, <3>1
    <3>2. CASE d # r
      BY <1>6, <2>4, <3>2 DEF CompletionIsBacked
    <3> QED  BY <3>1, <3>2
  <2> QED  BY <1>1, <1>2, <1>4, <1>6, <2>3, <2>5, <2>6 DEF IInv, PlatformOK
<1>8. CASE report # "COMPLETED"
  <2>1. ledger' = ledger
    BY <1>1, <1>6, <1>8
  <2>2. result' \in [Drama -> Reports]
    BY <1>1, <1>6 DEF Reports
  <2>3. \A d \in Drama : result'[d] = IF d = r THEN report ELSE result[d]
    BY <1>1, <1>6
  <2>4. FinishOK'
    BY <1>1, <1>3, <1>6, <2>1 DEF FinishOK
  <2>5. CompletionIsBacked'
    <3> SUFFICES ASSUME NEW d \in Drama
                 PROVE  /\ marks[d] # 0 => platform[marks[d]].status = "COMPLETED"
                        /\ ledger[d] # 0 => marks[d] # 0 /\ platform[ledger[d]].status = "COMPLETED"
                        /\ result'[d] = "COMPLETED" => ledger[d] # 0
      BY <1>1, <2>1 DEF CompletionIsBacked
    <3>1. result'[d] = "COMPLETED" => result[d] = "COMPLETED"
      BY <1>8, <2>3
    <3> QED  BY <1>6, <3>1 DEF CompletionIsBacked
  <2> QED  BY <1>1, <1>2, <1>4, <1>6, <2>1, <2>2, <2>4, <2>5 DEF IInv, PlatformOK
<1> QED  BY <1>7, <1>8

LEMMA StartOK == ASSUME IInv, NEW d \in Drama, Start(d) PROVE IInv'
<1>1. /\ run.pc = "idle" /\ runs < MaxRuns /\ runs' = runs + 1
      /\ run' = [NoRun EXCEPT !.pc = "prepare", !.drama = d]
      /\ UNCHANGED accountVars
      /\ platform' = platform /\ marks' = marks /\ ledger' = ledger /\ result' = result
  BY DEF Start
<1>2. assign.pc = "idle" /\ assign' = assign
  BY <1>1 DEF IInv, RunOK, PhasesOK, accountVars
<1>3. AccountsKept'
  BY <1>1, <1>2, AccountsStay DEF IInv
<1>4. run'.pc = "prepare" /\ run'.drama = d /\ run' \in Run
  <2>1. NoRun \in Run /\ "prepare" \in RunPcs
    BY NoRunIs DEF RunPcs
  <2> QED  BY <1>1, <2>1 DEF Run
<1>5. RunOK'
  <2>1. runs' \in 0 .. MaxRuns
    BY <1>1, DeliveryAssumption DEF IInv, RunOK
  <2> QED  BY <1>1, <1>2, <1>4, <2>1 DEF RunOK, PhasesOK
<1>6. FinishOK' /\ CompletionIsBacked'
  BY <1>1, <1>4 DEF IInv, PlatformOK, FinishOK, CompletionIsBacked
<1> QED  BY <1>1, <1>3, <1>5, <1>6 DEF IInv, PlatformOK

LEMMA PrepareOK == ASSUME IInv, NEW real \in BOOLEAN, Prepare(real) PROVE IInv'
<1> DEFINE d == run.drama
           used == UsedToday(d)
           pc == IF Needs(d, "IAA") THEN "IAA" ELSE AfterIaa(d)
<1>1. /\ run.pc = "prepare" /\ run' = [run EXCEPT !.pc = "assign"]
      /\ assign' = [NoAssign EXCEPT !.pc = pc, !.drama = d, !.real = real, !.used = used,
                                    !.reserved = used]
      /\ sheet' = sheet /\ usage' = usage /\ pending' = pending /\ edits' = edits
      /\ platform' = platform /\ marks' = marks /\ ledger' = ledger /\ result' = result
      /\ runs' = runs
  BY DEF Prepare, BeginAssign, UsedToday
<1>2. d \in Drama /\ run \in Run
  BY <1>1 DEF IInv, RunOK, PhasesOK
<1>3. used \in SUBSET Cid
  BY DEF UsedToday, IInv, AccountsKept, AccountTypeOK
<1>4. run' \in Run /\ run'.pc = "assign" /\ run'.drama = d
  BY <1>1, <1>2 DEF Run, RunPcs
<1>5. pc \in {"IAA", "IAP", "planned"} /\ (pc # "planned" => Needs(d, pc))
      /\ (pc \in {"IAP", "planned"} => ~Needs(d, "IAA")) /\ (pc = "planned" => ~Needs(d, "IAP"))
  BY DEF AfterIaa
<1> HIDE DEF pc, used, d
<1>6. /\ assign'.pc = pc /\ assign'.drama = d /\ assign'.used = used /\ assign'.reserved = used
      /\ assign'.planned = <<>>
  BY <1>1 DEF NoAssign
<1>7. assign' \in Assignment
  <2>1. NoAssign \in Assignment
    BY NoAssignIs
  <2>2. pc \in AssignPcs
    BY <1>5 DEF AssignPcs
  <2> QED  BY <1>1, <1>2, <1>3, <2>1, <2>2 DEF Assignment
<1>8. AssignOK'
  <2>1. KindsOK(assign')
    <3>1. Len(assign'.planned) = 0 /\ KindOf("IAA") = "IAA" /\ KindOf("IAP") = "IAP"
      BY <1>6 DEF KindOf
    <3> QED  BY <1>2, <1>5, <1>6, <3>1 DEF KindsOK
  <2>2. BlocksOK(assign', used)
    BY <1>6 DEF BlocksOK, DistinctCids
  <2>3. UsedToday(run.drama)' = used
    BY <1>1, <1>4 DEF UsedToday, used, d
  <2>4. assign'.pc \notin Appends \cup {"check", "write", "flag", "readBack", "record", "done"}
    BY <1>5, <1>6 DEF Appends
  <2>5. AssignmentOK(assign', d, sheet', used)
    BY <1>6, <2>1, <2>2, <2>4 DEF AssignmentOK
  <2> QED  BY <1>4, <2>3, <2>5 DEF AssignOK
<1>9. AccountTypeOK'
  BY <1>1, <1>5, <1>6 DEF IInv, AccountsKept, AccountTypeOK, AssignPcs
<1>10. SheetsOK'
  BY <1>1 DEF IInv, AccountsKept, SheetsOK
<1>11. RunOK'
  BY <1>1, <1>2, <1>4, <1>5, <1>6 DEF IInv, RunOK, PhasesOK
<1>12. FinishOK' /\ CompletionIsBacked'
  BY <1>1, <1>4 DEF IInv, PlatformOK, FinishOK, CompletionIsBacked
<1> QED  BY <1>1, <1>7, <1>8, <1>9, <1>10, <1>11, <1>12 DEF IInv, AccountsKept, PlatformOK

\* The execution stays where it is.
LEMMA RunStays ==
    ASSUME RunOK, PlatformOK, UNCHANGED deliveryVars,
           run.pc \in {"idle", "prepare"} => assign'.pc = "idle",
           run.pc = "assign" => assign'.pc # "idle",
           run.pc \notin {"idle", "prepare", "assign"} => assign' = assign
    PROVE  RunOK' /\ PlatformOK'
<1>1. /\ platform' = platform /\ marks' = marks /\ ledger' = ledger /\ result' = result
      /\ run' = run /\ runs' = runs
  BY DEF deliveryVars
<1>2. RunOK'
  BY <1>1 DEF RunOK, PhasesOK, Shown
<1>3. PlatformOK'
  BY <1>1 DEF PlatformOK, FinishOK, CompletionIsBacked
<1> QED  BY <1>2, <1>3

LEMMA AssignStepOK == ASSUME IInv, AssignStep PROVE IInv'
<1> DEFINE d == run.drama
           used == UsedToday(d)
<1>1. run.pc = "assign" /\ AssignNext /\ UNCHANGED deliveryVars
  BY DEF AssignStep
<1>2. d \in Drama
  BY <1>1 DEF IInv, RunOK, PhasesOK
<1>3. /\ assign \in Assignment /\ sheet \in [Kinds -> Seq(AccountRow)] /\ SheetsOK
      /\ AssignmentOK(assign, d, sheet, used)
  BY DEF IInv, AccountsKept, AccountTypeOK, AssignOK
<1> HIDE DEF d, used
<1>4. /\ StepOK(assign', d, sheet', used)
      /\ sheet' \in [Kinds -> Seq(AccountRow)] /\ SheetsOK'
      /\ usage' = usage /\ edits' = edits
      /\ \/ pending' = pending
         \/ \A u \in pending' : u.drama \in Drama /\ u.cid \in Cid /\ u.day = DayOf[u.drama]
  BY <1>1, <1>2, <1>3, AssignNextOK
<1>5. assign' \in Assignment /\ assign'.pc # "idle" /\ AssignmentOK(assign', d, sheet', used)
  BY <1>4 DEF StepOK
<1>6. AssignOK'
  <2>1. run' = run
    BY <1>1 DEF deliveryVars
  <2>2. UsedToday(run.drama)' = used
    BY <1>4, <2>1 DEF UsedToday, used, d
  <2> QED  BY <1>5, <2>1, <2>2 DEF AssignOK, d
<1>7. AccountTypeOK'
  <2>1. \A u \in usage' \cup pending' : u.drama \in Drama /\ u.cid \in Cid /\ u.day = DayOf[u.drama]
    BY <1>4 DEF IInv, AccountsKept, AccountTypeOK
  <2>2. assign'.pc \in AssignPcs
    BY <1>5 DEF Assignment
  <2>3. assign'.pc \in {"write", "flag", "readBack"} => assign'.k \in DOMAIN assign'.planned
    BY <1>5 DEF AssignmentOK
  <2>4. edits' \in 0 .. MaxEdits
    BY <1>4 DEF IInv, AccountsKept, AccountTypeOK
  <2> QED  BY <1>4, <2>1, <2>2, <2>3, <2>4 DEF AccountTypeOK
<1>8. RunOK' /\ PlatformOK'
  BY <1>1, <1>5, RunStays DEF IInv
<1> QED  BY <1>4, <1>5, <1>6, <1>7, <1>8 DEF IInv, AccountsKept

LEMMA EditSheetOK == ASSUME IInv, EditSheet, UNCHANGED deliveryVars PROVE IInv'
<1>1. /\ edits < MaxEdits /\ edits' = edits + 1
      /\ usage' = usage /\ pending' = pending /\ assign' = assign
  BY DEF EditSheet
<1>2. PICK kind \in Kinds : \E i \in DOMAIN sheet[kind] :
          \E drama \in {Nobody, Other, sheet[kind][i].drama}, enabled \in BOOLEAN :
             sheet' = [sheet EXCEPT ![kind][i].drama = drama, ![kind][i].enabled = enabled]
  BY DEF EditSheet
<1> DEFINE s == sheet[kind]
<1>3. PICK i \in DOMAIN s : \E drama \in {Nobody, Other, s[i].drama}, enabled \in BOOLEAN :
             sheet' = [sheet EXCEPT ![kind][i].drama = drama, ![kind][i].enabled = enabled]
  BY <1>2
<1>4. PICK drama \in {Nobody, Other, s[i].drama}, enabled \in BOOLEAN :
             sheet' = [sheet EXCEPT ![kind][i].drama = drama, ![kind][i].enabled = enabled]
  BY <1>3
<1>5. sheet \in [Kinds -> Seq(AccountRow)] /\ SheetsOK
  BY DEF IInv, AccountsKept, AccountTypeOK
<1> DEFINE t == [s EXCEPT ![i] = [s[i] EXCEPT !.drama = drama, !.enabled = enabled]]
<1>6. sheet' = [sheet EXCEPT ![kind] = t]
  BY <1>4, <1>5
<1>7. s \in Seq(AccountRow)
  BY <1>5
<1>8. s[i] \in AccountRow /\ s \in [DOMAIN s -> AccountRow]
  BY <1>7, LenProperties
<1> HIDE DEF s
<1>9. t \in [DOMAIN s -> AccountRow] /\ SameBlocks(s, t)
  <2> DEFINE r == [s[i] EXCEPT !.drama = drama, !.enabled = enabled]
  <2>1. r \in AccountRow /\ r.group = s[i].group /\ r.cid = s[i].cid
    BY <1>8 DEF AccountRow
  <2>2. DOMAIN t = DOMAIN s /\ \A x \in DOMAIN s : t[x] = IF x = i THEN r ELSE s[x]
    BY <1>8
  <2>3. t = [x \in DOMAIN s |-> t[x]]
    BY <2>2
  <2> HIDE DEF r, t
  <2>4. \A x \in DOMAIN s : s[x] \in AccountRow
    BY <1>8
  <2>5. \A x \in DOMAIN s : t[x] \in AccountRow
    BY <2>1, <2>2, <2>4
  <2>6. \A x \in DOMAIN s : t[x].group = s[x].group /\ t[x].cid = s[x].cid
    BY <2>1, <2>2
  <2> QED  BY <2>2, <2>3, <2>5, <2>6 DEF SameBlocks
<1> HIDE DEF t
<1>10. /\ sheet' \in [Kinds -> Seq(AccountRow)] /\ SheetsOK'
       /\ \A k \in Kinds : SameBlocks(sheet[k], sheet'[k])
  BY <1>5, <1>6, <1>9, SheetWritten DEF s
<1>11. AssignOK'
  <2>1. run' = run
    BY DEF deliveryVars
  <2>2. UsedToday(run.drama)' = UsedToday(run.drama)
    BY <1>1, <2>1 DEF UsedToday
  <2>3. AssignmentOK(assign, run.drama, sheet, UsedToday(run.drama))
    BY DEF IInv, AccountsKept, AssignOK
  <2>4. AssignmentOK(assign, run.drama, sheet', UsedToday(run.drama))
    BY <1>10, <2>3, SheetsMatter
  <2> QED  BY <1>1, <2>1, <2>2, <2>4 DEF AssignOK
<1>12. AccountTypeOK' /\ assign' \in Assignment
  <2>1. edits' \in 0 .. MaxEdits
    BY <1>1, AccountAssumption DEF IInv, AccountsKept, AccountTypeOK
  <2> QED  BY <1>1, <1>10, <2>1 DEF IInv, AccountsKept, AccountTypeOK
<1>13. RunOK' /\ PlatformOK'
  BY <1>1, RunStays DEF IInv, RunOK, PhasesOK
<1> QED  BY <1>10, <1>11, <1>12, <1>13 DEF IInv, AccountsKept

LEMMA CrashOK == ASSUME IInv, Crash PROVE IInv'
<1>1. /\ run' = NoRun /\ assign' = NoAssign /\ pending' = {} /\ sheet' = sheet /\ usage' = usage
      /\ edits' = edits /\ platform' = platform /\ marks' = marks /\ ledger' = ledger
      /\ result' = result /\ runs' = runs
  BY DEF Crash
<1>2. AccountsKept'
  BY <1>1, AccountsEnd DEF IInv
<1>3. run' \in Run /\ run'.pc = "idle" /\ assign'.pc = "idle"
  BY <1>1, NoRunIs DEF NoAssign
<1>4. RunOK'
  BY <1>1, <1>3 DEF IInv, RunOK, PhasesOK
<1>5. FinishOK' /\ CompletionIsBacked'
  BY <1>1, <1>3 DEF IInv, PlatformOK, FinishOK, CompletionIsBacked
<1> QED  BY <1>1, <1>2, <1>4, <1>5 DEF IInv, PlatformOK

\* Submitting after the assignment, the CIDs are those of its accounts.
LEMMA CidsAre ==
    ASSUME assign \in Assignment, run.drama \in Drama PROVE AccountCids \in SUBSET Cid
<1>1. \A a \in Account : a.cid \in Cid
  BY DEF Account
<1>2. Given \in Seq(Account)
  BY DEF Given, Assignment
<1>3. \A n \in DOMAIN Given : Given[n].cid \in Cid
  BY <1>1, <1>2, LenProperties
<1>4. \A l : Routing(l) \subseteq Cid
  BY <1>3 DEF Routing
<1> QED  BY <1>4 DEF AccountCids

LEMMA SubmitPlanOK ==
    ASSUME IInv, NEW status \in {"HIDDEN", "PENDING"}, SubmitPlan(status) PROVE IInv'
<1> DEFINE task == [drama |-> run.drama, run |-> runs, cids |-> AccountCids, status |-> status]
           n == Len(platform)
<1>1. /\ run.pc = "submit" /\ platform' = Append(platform, task)
      /\ run' = [run EXCEPT !.pc = "submitted"] /\ UNCHANGED accountVars
      /\ marks' = marks /\ ledger' = ledger /\ result' = result /\ runs' = runs
  BY DEF SubmitPlan
<1>2. /\ run \in Run /\ run.drama \in Drama /\ runs \in 0 .. MaxRuns
      /\ assign.pc = "done" /\ assign.status \in {"CONFIRMED", "DRY_RUN"}
  BY <1>1 DEF IInv, RunOK, PhasesOK
<1>3. run' \in Run /\ run'.pc = "submitted" /\ run'.drama = run.drama
  BY <1>1, <1>2 DEF Run, RunPcs
<1>4. AccountsKept' /\ assign' = assign
  BY <1>1, <1>3, AccountsStay DEF IInv, accountVars
<1>5. RunOK'
  BY <1>1, <1>2, <1>3, <1>4 DEF RunOK, PhasesOK
<1>6. platform \in Seq(PlatformTask)
  BY DEF IInv, PlatformOK
<1>7. task \in PlatformTask
  <2>1. AccountCids \in SUBSET Cid
    BY <1>2, CidsAre DEF IInv, AccountsKept
  <2>2. runs \in Nat
    BY <1>2, DeliveryAssumption
  <2> QED  BY <1>2, <2>1, <2>2 DEF PlatformTask
<1> HIDE DEF task
<1>8. /\ platform' \in Seq(PlatformTask) /\ Len(platform') = n + 1
      /\ \A t \in 1 .. n : platform'[t] = platform[t]
  BY <1>1, <1>6, <1>7, AppendProperties
<1>9. /\ DOMAIN platform = 1 .. n /\ n \in Nat /\ DOMAIN platform' = 1 .. n + 1
  BY <1>6, <1>8, LenProperties
<1>10. /\ DOMAIN platform \subseteq DOMAIN platform'
       /\ \A t \in DOMAIN platform : platform'[t] = platform[t]
  BY <1>8, <1>9
<1>11. FinishOK /\ CompletionIsBacked
  BY DEF IInv, PlatformOK
<1>12. \A d \in Drama : {marks[d], ledger[d]} \subseteq {0} \cup DOMAIN platform
  BY <1>11 DEF FinishOK
<1>13. FinishOK'
  BY <1>1, <1>3, <1>10, <1>12 DEF FinishOK
<1>14. CompletionIsBacked'
  BY <1>1, <1>10, <1>11, <1>12 DEF CompletionIsBacked
<1> QED  BY <1>1, <1>4, <1>5, <1>8, <1>13, <1>14 DEF IInv, PlatformOK

LEMMA FinalizeOK == ASSUME IInv, FinalizeCompleted PROVE IInv'
<1> DEFINE r == run.drama
           task == run.task
<1>1. /\ run.pc = "finish" /\ marks' = [marks EXCEPT ![r] = task]
      /\ run' = [run EXCEPT !.pc = "report"] /\ UNCHANGED accountVars
      /\ platform' = platform /\ ledger' = ledger /\ result' = result /\ runs' = runs
  BY DEF FinalizeCompleted
<1>2. /\ run \in Run /\ r \in Drama /\ runs \in 0 .. MaxRuns
      /\ assign.pc = "done" /\ assign.status \in {"CONFIRMED", "DRY_RUN"} /\ task \in Shown
  BY <1>1 DEF IInv, RunOK, PhasesOK
<1>3. run' \in Run /\ run'.pc = "report" /\ run'.drama = r /\ run'.task = task
  BY <1>1, <1>2 DEF Run, RunPcs
<1>4. AccountsKept' /\ assign' = assign
  BY <1>1, <1>3, AccountsStay DEF IInv, accountVars
<1>5. RunOK'
  BY <1>1, <1>2, <1>3, <1>4 DEF RunOK, PhasesOK, Shown
<1>6. /\ platform \in Seq(PlatformTask) /\ marks \in [Drama -> Nat] /\ FinishOK /\ CompletionIsBacked
  BY DEF IInv, PlatformOK
<1>7. task \in DOMAIN platform /\ task \in Nat \ {0} /\ platform[task].status = "COMPLETED"
  BY <1>1, <1>2, <1>6, TasksAre DEF FinishOK
<1>8. marks' \in [Drama -> Nat] /\ \A d \in Drama : marks'[d] = IF d = r THEN task ELSE marks[d]
  BY <1>1, <1>6, <1>7
<1>9. FinishOK'
  BY <1>1, <1>2, <1>3, <1>6, <1>7, <1>8 DEF FinishOK
<1>10. CompletionIsBacked'
  <2> SUFFICES ASSUME NEW d \in Drama
               PROVE  /\ marks'[d] # 0 => platform[marks'[d]].status = "COMPLETED"
                      /\ ledger[d] # 0 => marks'[d] # 0 /\ platform[ledger[d]].status = "COMPLETED"
                      /\ result[d] = "COMPLETED" => ledger[d] # 0
    BY <1>1 DEF CompletionIsBacked
  <2>1. /\ marks[d] # 0 => platform[marks[d]].status = "COMPLETED"
        /\ ledger[d] # 0 => marks[d] # 0 /\ platform[ledger[d]].status = "COMPLETED"
        /\ result[d] = "COMPLETED" => ledger[d] # 0
    BY <1>6 DEF CompletionIsBacked
  <2>2. marks'[d] = IF d = r THEN task ELSE marks[d]
    BY <1>8
  <2> QED  BY <1>7, <2>1, <2>2
<1> QED  BY <1>1, <1>4, <1>5, <1>6, <1>8, <1>9, <1>10 DEF IInv, PlatformOK

LEMMA PlatformStepOK == ASSUME IInv, PlatformStep PROVE IInv'
<1>1. /\ UNCHANGED accountVars /\ marks' = marks /\ ledger' = ledger /\ result' = result
      /\ run' = run /\ runs' = runs
  BY DEF PlatformStep
<1>2. PICK t \in DOMAIN platform, status \in {"PENDING", "COMPLETED", "FAILED"} :
          /\ platform[t].status = IF status = "PENDING" THEN "HIDDEN" ELSE "PENDING"
          /\ platform' = [platform EXCEPT ![t].status = status]
  BY DEF PlatformStep
<1>3. AccountsKept' /\ assign' = assign
  BY <1>1, AccountsStay DEF IInv, accountVars
<1>4. platform \in Seq(PlatformTask) /\ FinishOK /\ CompletionIsBacked
  BY DEF IInv, PlatformOK
<1>5. /\ DOMAIN platform = 1 .. Len(platform) /\ Len(platform) \in Nat
      /\ platform \in [DOMAIN platform -> PlatformTask]
  BY <1>4, LenProperties
<1>6. /\ DOMAIN platform' = DOMAIN platform
      /\ \A x \in DOMAIN platform : platform'[x].status = IF x = t THEN status ELSE platform[x].status
      /\ platform' \in [DOMAIN platform -> PlatformTask]
  <2>1. \A x \in DOMAIN platform : platform[x] \in PlatformTask
    BY <1>5
  <2>2. \A x \in PlatformTask : /\ [x EXCEPT !.status = status] \in PlatformTask
                                /\ [x EXCEPT !.status = status].status = status
    BY DEF PlatformTask
  <2> QED  BY <1>2, <1>5, <2>1, <2>2
<1>7. platform' \in Seq(PlatformTask)
  BY <1>5, <1>6
<1>8. /\ \A x \in DOMAIN platform : platform[x].status = "COMPLETED" => platform'[x].status = "COMPLETED"
      /\ \A x \in DOMAIN platform : platform[x].status # "HIDDEN" => platform'[x].status # "HIDDEN"
  BY <1>2, <1>6
<1>9. Shown \subseteq Shown' /\ Shown \subseteq DOMAIN platform
  BY <1>6, <1>8 DEF Shown
<1>10. RunOK'
  BY <1>1, <1>3, <1>9 DEF IInv, RunOK, PhasesOK
<1>11. \A d \in Drama : {marks[d], ledger[d]} \subseteq {0} \cup DOMAIN platform
  BY <1>4 DEF FinishOK
<1>12. FinishOK'
  <2>1. run.pc \in {"finish", "report"} => run.task \in DOMAIN platform
    BY <1>9 DEF IInv, RunOK
  <2> QED  BY <1>1, <1>4, <1>6, <1>8, <2>1 DEF FinishOK
<1>13. CompletionIsBacked'
  BY <1>1, <1>4, <1>8, <1>11 DEF CompletionIsBacked
<1> QED  BY <1>1, <1>3, <1>7, <1>10, <1>12, <1>13 DEF IInv, PlatformOK

\* The reports that are not of a success.
LEMMA ReportsOK ==
    ASSUME IInv,
           \/ PrepareFails \/ AssignRaises \/ AccountAssignmentFailure \/ PageFails
           \/ SubmitRaises \/ ValidationFails \/ NotFound \/ PollTimesOut \/ WriteCompletionFails
           \/ GuardBlocks \/ PollUncertain
    PROVE  IInv'
<1>1. run.pc # "idle" /\ UNCHANGED marks
  BY DEF PrepareFails, AssignRaises, AccountAssignmentFailure, PageFails, SubmitRaises,
         ValidationFails, NotFound, PollTimesOut, WriteCompletionFails, GuardBlocks,
         PollUncertain, ManualReview
<1>2. Report("MANUAL_REVIEW", 0) \/ Report("DRY_RUN", 0) \/ Report("UNCERTAIN", 0)
  BY DEF PrepareFails, AssignRaises, AccountAssignmentFailure, PageFails, SubmitRaises,
         ValidationFails, NotFound, PollTimesOut, WriteCompletionFails, GuardBlocks,
         PollUncertain, ManualReview
<1> QED  BY <1>1, <1>2, ReportOK

LEMMA ReportCompletedOK == ASSUME IInv, ReportCompleted PROVE IInv'
<1>1. run.pc = "report" /\ Report("COMPLETED", run.task) /\ UNCHANGED marks
  BY DEF ReportCompleted
<1> QED  BY <1>1, ReportOK

\* The steps that only move the execution on.
LEMMA MoveOK ==
    ASSUME IInv,
           \/ BuildPlan \/ Validate \/ EnsureDramaAsset \/ EnsurePromotionConfigs \/ SubmitIgnored
           \/ ReadTaskRow \/ ResultUncertain \/ FindByTaskName \/ PollAgain \/ PollCompleted
    PROVE  IInv'
<1>1. UNCHANGED <<accountVars, platform, marks, ledger, result, runs>>
  BY DEF BuildPlan, Validate, EnsureDramaAsset, EnsurePromotionConfigs, SubmitIgnored,
         ReadTaskRow, ResultUncertain, FindByTaskName, PollAgain, PollCompleted
<1>2. run \in Run /\ PhasesOK /\ (run.pc = "poll" => run.task \in Shown)
  BY DEF IInv, RunOK
<1>3. run.pc # "idle" /\ assign.pc = "done" /\ assign.status \in {"CONFIRMED", "DRY_RUN"}
  BY <1>2 DEF PhasesOK, BuildPlan, Validate, EnsureDramaAsset, EnsurePromotionConfigs,
              SubmitIgnored, ReadTaskRow, ResultUncertain, FindByTaskName, PollAgain, PollCompleted
<1>4. Shown \subseteq Nat
  BY TasksAre DEF IInv, PlatformOK
<1>5. CASE \/ BuildPlan \/ Validate \/ EnsureDramaAsset \/ EnsurePromotionConfigs
           \/ SubmitIgnored \/ ResultUncertain
  <2>1. \E pc \in {"validate", "asset", "configs", "submit", "submitted", "find"} :
           run' = [run EXCEPT !.pc = pc]
    BY <1>5 DEF BuildPlan, Validate, EnsureDramaAsset, EnsurePromotionConfigs, SubmitIgnored,
                ResultUncertain
  <2>2. /\ run' \in Run /\ run'.drama = run.drama
        /\ run'.pc \in {"validate", "asset", "configs", "submit", "submitted", "find"}
    BY <1>2, <2>1 DEF Run, RunPcs
  <2> QED  BY <1>1, <1>3, <2>2, RunGoesOn
<1>6. CASE ReadTaskRow \/ FindByTaskName
  <2>1. PICK t \in Shown : run' = [run EXCEPT !.pc = "poll", !.task = t]
    BY <1>6 DEF ReadTaskRow, FindByTaskName, Own
  <2>2. t \in Nat
    BY <1>4
  <2>3. run' \in Run /\ run'.drama = run.drama /\ run'.pc = "poll" /\ run'.task = t
    BY <1>2, <2>1, <2>2 DEF Run, RunPcs
  <2> QED  BY <1>1, <1>3, <2>3, RunGoesOn
<1>7. CASE PollAgain
  <2>1. run.pc = "poll" /\ run.polls < MaxPolls /\ run' = [run EXCEPT !.polls = @ + 1]
    BY <1>7 DEF PollAgain
  <2>2. run.polls \in 0 .. MaxPolls /\ MaxPolls \in Nat
    BY <1>2, DeliveryAssumption DEF Run
  <2>3. run.polls + 1 \in 0 .. MaxPolls
    BY <2>1, <2>2
  <2>4. run' \in Run /\ run'.drama = run.drama /\ run'.pc = "poll" /\ run'.task = run.task
    BY <1>2, <2>1, <2>3 DEF Run
  <2> QED  BY <1>1, <1>2, <1>3, <2>1, <2>4, RunGoesOn
<1>8. CASE PollCompleted
  <2>1. /\ run.pc = "poll" /\ platform[run.task].status = "COMPLETED"
        /\ run' = [run EXCEPT !.pc = "finish"]
    BY <1>8 DEF PollCompleted
  <2>2. run' \in Run /\ run'.drama = run.drama /\ run'.pc = "finish" /\ run'.task = run.task
    BY <1>2, <2>1 DEF Run, RunPcs
  <2> QED  BY <1>1, <1>2, <1>3, <2>1, <2>2, RunGoesOn
<1> QED  BY <1>5, <1>6, <1>7, <1>8

LEMMA StutterOK == ASSUME IInv, UNCHANGED vars PROVE IInv'
<1>1. /\ UNCHANGED accountVars /\ run' = run /\ platform' = platform /\ marks' = marks
      /\ ledger' = ledger /\ result' = result /\ runs' = runs
  BY DEF vars, deliveryVars
<1>2. AccountsKept' /\ assign' = assign
  BY <1>1, AccountsStay DEF IInv, accountVars
<1>3. Shown' = Shown
  BY <1>1 DEF Shown
<1>4. RunOK'
  BY <1>1, <1>2, <1>3 DEF IInv, RunOK, PhasesOK
<1>5. FinishOK' /\ CompletionIsBacked'
  BY <1>1 DEF IInv, PlatformOK, FinishOK, CompletionIsBacked
<1> QED  BY <1>1, <1>2, <1>4, <1>5 DEF IInv, PlatformOK

LEMMA NextOK == IInv /\ [Next]_vars => IInv'
<1> SUFFICES ASSUME IInv, [Next]_vars PROVE IInv'
  OBVIOUS
<1>1. CASE \E d \in Drama : Start(d)
  BY <1>1, StartOK
<1>2. CASE ExecuteNext
  <2>1. CASE \/ PrepareFails \/ AssignRaises \/ AccountAssignmentFailure \/ PageFails
             \/ SubmitRaises \/ ValidationFails \/ NotFound \/ PollTimesOut \/ WriteCompletionFails
             \/ GuardBlocks \/ PollUncertain
    BY <2>1, ReportsOK
  <2>2. CASE ReportCompleted
    BY <2>2, ReportCompletedOK
  <2>3. CASE \E real \in BOOLEAN : Prepare(real)
    BY <2>3, PrepareOK
  <2>4. CASE AssignStep
    BY <2>4, AssignStepOK
  <2>5. CASE \/ BuildPlan \/ Validate \/ EnsureDramaAsset \/ EnsurePromotionConfigs
             \/ SubmitIgnored \/ ReadTaskRow \/ ResultUncertain \/ FindByTaskName \/ PollAgain
             \/ PollCompleted
    BY <2>5, MoveOK
  <2>6. CASE \E status \in {"HIDDEN", "PENDING"} : SubmitPlan(status)
    BY <2>6, SubmitPlanOK
  <2>7. CASE FinalizeCompleted
    BY <2>7, FinalizeOK
  <2> QED  BY <1>2, <2>1, <2>2, <2>3, <2>4, <2>5, <2>6, <2>7 DEF ExecuteNext
<1>3. CASE EditSheet /\ UNCHANGED deliveryVars
  BY <1>3, EditSheetOK
<1>4. CASE PlatformStep
  BY <1>4, PlatformStepOK
<1>5. CASE Crash
  BY <1>5, CrashOK
<1>6. CASE UNCHANGED vars
  BY <1>6, StutterOK
<1> QED  BY <1>1, <1>2, <1>3, <1>4, <1>5, <1>6 DEF Next

-----------------------------------------------------------------------------
(* What the invariant implies                                               *)

\* Accounts with different CIDs have as many CIDs as there are accounts.
LEMMA CidsCounted ==
    ASSUME NEW accounts \in Seq(Account)
    PROVE  /\ IsFiniteSet(CidsOf(accounts))
           /\ (\A m, n \in DOMAIN accounts : accounts[m].cid = accounts[n].cid => m = n)
                 => Cardinality(CidsOf(accounts)) = Len(accounts)
<1> DEFINE N == Len(accounts)
           f == [n \in 1 .. N |-> accounts[n].cid]
<1>1. DOMAIN accounts = 1 .. N /\ N \in Nat
  BY LenProperties
<1>2. f \in Surjection(1 .. N, CidsOf(accounts))
  BY <1>1 DEF Surjection, CidsOf
<1>3. IsFiniteSet(1 .. N) /\ Cardinality(1 .. N) = N
  <2>1. 1 \in Int /\ N \in Int /\ (1 > N => N = 0)
    BY <1>1
  <2> HIDE DEF N
  <2> QED  BY <2>1, FS_Interval
<1>4. ASSUME \A m, n \in DOMAIN accounts : accounts[m].cid = accounts[n].cid => m = n
      PROVE  f \in Injection(1 .. N, CidsOf(accounts))
  BY <1>1, <1>2, <1>4 DEF Injection, Surjection, IsInjective
<1> HIDE DEF f
<1> QED  BY <1>2, <1>3, <1>4, FS_Surjection

LEMMA TypesHold == IInv => TypeOK
<1> SUFFICES ASSUME IInv PROVE TypeOK
  OBVIOUS
<1>1. run \in Run /\ runs \in 0 .. MaxRuns
  BY DEF IInv, RunOK
<1>2. run.pc \in {"poll", "finish", "report"} => run.task \in Shown
  BY DEF IInv, RunOK
<1>3. run.pc \in RunPcs /\ run.polls \in 0 .. MaxPolls
  BY <1>1 DEF Run
<1> QED  BY <1>1, <1>2, <1>3 DEF IInv, AccountsKept, TypeOK

LEMMA WrittenHolds == IInv => WrittenIsRecordable
<1> SUFFICES ASSUME IInv, assign.pc \in {"write", "flag", "readBack", "record"}
             PROVE  ~UsageConflict
  BY DEF WrittenIsRecordable
<1>1. /\ assign.drama = run.drama /\ AccountsOK(assign.accounts, run.drama)
      /\ CidsOf(assign.accounts) \cap UsedToday(run.drama) = {}
  BY DEF IInv, AccountsKept, AssignOK, AssignmentOK
<1>2. assign.accounts \in Seq(Account)
  BY DEF IInv, AccountsKept, Assignment
<1>3. Cardinality(CidsOf(assign.accounts)) = Len(assign.accounts)
  BY <1>1, <1>2, CidsCounted DEF AccountsOK
<1>4. ASSUME NEW u \in usage, u.day = DayOf[assign.drama]
      PROVE  u.cid \notin CidsOf(assign.accounts)
  <2>1. u.cid \in UsedToday(run.drama)
    BY <1>1, <1>4 DEF UsedToday
  <2> QED  BY <1>1, <2>1
<1> QED  BY <1>3, <1>4 DEF UsageConflict

\* The roles of a link are those whose configurations are of the link.
LEMMA RolesAre ==
    ASSUME NEW l \in LinkTypes, NEW role \in RolesOf(l)
    PROVE  LinkOfType(DeliveryType(role)) = l
<1>1. ToSet(IaaGroups) = {"B1", "B4", "B7", "BX"}
  BY GroupsAre
<1>2. CASE l = "IAA"
  BY <1>1, <1>2 DEF RolesOf, LinkOfType, DeliveryType
<1>3. CASE l = "9.9"
  BY <1>1, <1>3 DEF RolesOf, LinkOfType, DeliveryType
<1>4. CASE l = "2.9"
  BY <1>1, <1>4 DEF RolesOf, LinkOfType, DeliveryType
<1> QED  BY <1>2, <1>3, <1>4 DEF LinkTypes

LEMMA PlanHolds == IInv => ConfirmedPlanIsValid
<1> SUFFICES ASSUME IInv, run.pc = "validate"
             PROVE  /\ assign.real => ReportPasses
                    /\ \A l \in Links[run.drama] :
                          Cardinality(Routing(l)) >= 1 /\ l \in CoveredLinks
                    /\ CoveredLinks \subseteq Links[run.drama]
  BY DEF ConfirmedPlanIsValid
<1> DEFINE d == run.drama
<1>1. /\ d \in Drama /\ assign.pc = "done" /\ assign.status \in {"CONFIRMED", "DRY_RUN"}
  BY DEF IInv, RunOK, PhasesOK
<1>2. AccountsOK(Given, d) /\ (assign.real => CandidatesValid(Given))
  BY <1>1 DEF IInv, AccountsKept, AssignOK, AssignmentOK, Given
<1>3. Given \in Seq(Account)
  BY DEF IInv, AccountsKept, Assignment, Given
<1>4. DOMAIN Given = 1 .. Len(Given) /\ Len(Given) \in Nat
  BY <1>3, LenProperties
<1>5. Links[d] \subseteq LinkTypes
  BY <1>1, AccountAssumption
<1>6. /\ \A m, n \in DOMAIN Given : Given[m].cid = Given[n].cid => m = n
      /\ \A n \in DOMAIN Given : LinkOfType(DeliveryType(Given[n].role)) \in Links[d]
      /\ \A l \in Links[d] : \E n \in DOMAIN Given : Given[n].role \in RolesOf(l)
  BY <1>2 DEF AccountsOK
<1>7. ASSUME NEW n \in DOMAIN Given
      PROVE  ConfigType(Given[n].cid) = DeliveryType(Given[n].role)
  <2>1. {m \in DOMAIN Given : Given[m].cid = Given[n].cid} = {n}
    BY <1>6
  <2>2. Min({n}) = n
    <3>1. n \in Nat
      BY <1>4
    <3> QED  BY <3>1, MinIs
  <2> QED  BY <2>1, <2>2 DEF ConfigType
<1>8. ASSUME NEW c \in AccountCids PROVE \E n \in DOMAIN Given : c = Given[n].cid
  BY DEF AccountCids, Routing
<1>9. AccountCids \subseteq CidsOf(Given)
  BY <1>8 DEF CidsOf
<1>10. CoveredLinks \subseteq Links[d]
  BY <1>6, <1>7, <1>8 DEF CoveredLinks
<1>11. ASSUME NEW l \in Links[d] PROVE Cardinality(Routing(l)) >= 1 /\ l \in CoveredLinks
  <2>1. PICK n \in DOMAIN Given : Given[n].role \in RolesOf(l)
    BY <1>6
  <2>2. Given[n].cid \in Routing(l) /\ Given[n].cid \in AccountCids
    BY <2>1 DEF Routing, AccountCids
  <2>3. LinkOfType(ConfigType(Given[n].cid)) = l
    BY <1>5, <1>7, <2>1, RolesAre
  <2>4. l \in CoveredLinks
    BY <2>2, <2>3 DEF CoveredLinks
  <2>5. IsFiniteSet(Routing(l))
    <3>1. Routing(l) \in SUBSET CidsOf(Given)
      BY DEF Routing, CidsOf
    <3>2. IsFiniteSet(CidsOf(Given))
      BY <1>3, CidsCounted
    <3> QED  BY <3>1, <3>2, FS_Subset
  <2>6. Cardinality(Routing(l)) \in Nat /\ Cardinality(Routing(l)) # 0
    BY <2>2, <2>5, FS_CardinalityType, FS_EmptySet
  <2> QED  BY <2>4, <2>6
<1>12. ASSUME assign.real PROVE ReportPasses
  <2>1. AccountCids \subseteq Configured
    BY <1>2, <1>9, <1>12 DEF CandidatesValid
  <2> QED  BY <1>11, <2>1 DEF ReportPasses
<1> QED  BY <1>10, <1>11, <1>12

-----------------------------------------------------------------------------
(* The theorems                                                             *)

LEMMA Invariance == Spec => []IInv
<1>1. Init => IInv
  BY InitOK
<1>2. IInv /\ [Next]_vars => IInv'
  BY NextOK
<1> QED  BY <1>1, <1>2, PTL DEF Spec

\* Every variable holds a value of its kind: the sheets stay sheets whatever is copied and
\* written into them, and a polled task exists.
THEOREM TypeCorrect == Spec => []TypeOK
<1>1. IInv => TypeOK
  BY TypesHold
<1> QED  BY <1>1, Invariance, PTL

\* Whatever people edit, and whatever fails, names are written only for CIDs that can be
\* recorded afterwards: different ones, and none that was used on that day.
THEOREM WritesRecordable == Spec => []WrittenIsRecordable
<1>1. IInv => WrittenIsRecordable
  BY WrittenHolds
<1> QED  BY <1>1, Invariance, PTL

\* The accounts that were confirmed give every link its accounts, and the plan that is built
\* from them passes the validation.
THEOREM PlanValid == Spec => []ConfirmedPlanIsValid
<1>1. IInv => ConfirmedPlanIsValid
  BY PlanHolds
<1> QED  BY <1>1, Invariance, PTL

\* M=1 is written only for a task the platform has completed, and the ledger only after M=1,
\* across failures and crashes.
THEOREM CompletionBacked == Spec => []CompletionIsBacked
<1>1. IInv => CompletionIsBacked
  BY DEF IInv, PlatformOK
<1> QED  BY <1>1, Invariance, PTL

-----------------------------------------------------------------------------
(* The refinement of DeliveryStages                                         *)

\* Steps that leave the platform, the marks and the ledger alone.
Untouched == UNCHANGED <<platform, marks, ledger>>

LEMMA SameTasks ==
    ASSUME platform' = platform PROVE Submitted' = Submitted /\ Completed' = Completed
BY DEF Submitted, Completed

\* The execution goes on within a phase, or something happens beside it.
LEMMA StageStays ==
    ASSUME Untouched, run'.drama = run.drama, Phase' = Phase PROVE UNCHANGED Stages!stages
BY SameTasks DEF Untouched, Stages!stages

\* The execution ends without a completion.
LEMMA StageGivenUp ==
    ASSUME Untouched, run.pc # "idle", run' = NoRun PROVE Stages!GiveUp
<1>1. Phase # "idle" /\ Phase' = "idle" /\ run'.drama = Nobody
  BY DEF Phase, NoRun
<1> QED  BY <1>1, SameTasks DEF Untouched, Stages!GiveUp, Stages!End

LEMMA StageReported ==
    ASSUME IInv, NEW report, NEW task, Report(report, task), UNCHANGED marks, run.pc # "idle",
           report # "COMPLETED"
    PROVE  Stages!GiveUp
<1>1. /\ ledger' = [ledger EXCEPT ![run.drama] = IF report = "COMPLETED" THEN task ELSE @]
      /\ run' = NoRun /\ platform' = platform
  BY DEF Report
<1>2. ledger' = ledger
  BY <1>1 DEF IInv, PlatformOK
<1> QED  BY <1>1, <1>2, StageGivenUp DEF Untouched

LEMMA StageRecorded == ASSUME IInv, ReportCompleted PROVE Stages!Record
<1>1. /\ run.pc = "report" /\ ledger' = [ledger EXCEPT ![run.drama] = run.task]
      /\ run' = NoRun /\ platform' = platform /\ marks' = marks
  BY DEF ReportCompleted, Report
<1>2. run.task = marks[run.drama]
  BY <1>1 DEF IInv, PlatformOK, FinishOK
<1>3. Phase = "marked" /\ Phase' = "idle" /\ run'.drama = Nobody
  BY <1>1 DEF Phase, NoRun
<1> QED  BY <1>1, <1>2, <1>3, SameTasks DEF Stages!Record, Stages!End

LEMMA StageBegun == ASSUME NEW d \in Drama, Start(d) PROVE Stages!Begin(d)
<1>1. /\ run.pc = "idle" /\ run'.pc = "prepare" /\ run'.drama = d
      /\ platform' = platform /\ marks' = marks /\ ledger' = ledger
  BY DEF Start, NoRun
<1>2. Phase = "idle" /\ Phase' = "begun"
  BY <1>1 DEF Phase
<1> QED  BY <1>1, <1>2, SameTasks DEF Stages!Begin

\* The platform gets the task, of which nothing is completed yet, or it does not.
LEMMA StageSubmitted ==
    ASSUME IInv, (\E status \in {"HIDDEN", "PENDING"} : SubmitPlan(status)) \/ SubmitIgnored
    PROVE  Stages!Submit
<1>1. /\ run.pc = "submit" /\ run' = [run EXCEPT !.pc = "submitted"]
      /\ marks' = marks /\ ledger' = ledger
  BY DEF SubmitPlan, SubmitIgnored
<1>2. run'.pc = "submitted" /\ run'.drama = run.drama
  BY <1>1 DEF IInv, RunOK, Run
<1>3. Phase = "begun" /\ Phase' = "submitted"
  BY <1>1, <1>2 DEF Phase
<1>4. CASE SubmitIgnored
  <2>1. platform' = platform
    BY <1>4 DEF SubmitIgnored
  <2> QED  BY <1>1, <1>2, <1>3, <2>1, SameTasks DEF Stages!Submit
<1>5. CASE \E status \in {"HIDDEN", "PENDING"} : SubmitPlan(status)
  <2>1. PICK status \in {"HIDDEN", "PENDING"} : SubmitPlan(status)
    BY <1>5
  <2> DEFINE task == [drama |-> run.drama, run |-> runs, cids |-> AccountCids, status |-> status]
             n == Len(platform)
  <2>2. platform' = Append(platform, task)
    BY <2>1 DEF SubmitPlan
  <2>3. platform \in Seq(PlatformTask)
    BY DEF IInv, PlatformOK
  <2>4. /\ DOMAIN platform = 1 .. n /\ n \in Nat /\ DOMAIN platform' = 1 .. n + 1
        /\ \A t \in 1 .. n : platform'[t] = platform[t]
        /\ platform'[n + 1] = task
    BY <2>2, <2>3
  <2>5. task.drama = run.drama /\ task.status # "COMPLETED"
    OBVIOUS
  <2> HIDE DEF task, n
  <2>6. Completed' = Completed
    BY <2>4, <2>5 DEF Completed
  <2>7. Submitted' = Append(Submitted, run.drama)
    <3>1. Submitted = [t \in 1 .. n |-> platform[t].drama] /\ Submitted \in Seq({platform[t].drama : t \in 1 .. n})
      BY <2>4 DEF Submitted
    <3>2. Len(Submitted) = n
      BY <2>4, <3>1
    <3>3. Append(Submitted, run.drama)
            = [t \in 1 .. n + 1 |-> IF t = n + 1 THEN run.drama ELSE Submitted[t]]
      BY <2>4, <3>1, <3>2
    <3>4. Submitted' = [t \in 1 .. n + 1 |-> IF t = n + 1 THEN run.drama ELSE Submitted[t]]
      BY <2>4, <2>5, <3>1 DEF Submitted
    <3> QED  BY <3>3, <3>4
  <2> QED  BY <1>1, <1>2, <1>3, <2>6, <2>7 DEF Stages!Submit
<1> QED  BY <1>4, <1>5

LEMMA StageMarked == ASSUME IInv, FinalizeCompleted PROVE \E t \in Completed : Stages!Mark(t)
<1>1. /\ run.pc = "finish" /\ run' = [run EXCEPT !.pc = "report"]
      /\ marks' = [marks EXCEPT ![run.drama] = run.task]
      /\ platform' = platform /\ ledger' = ledger
  BY DEF FinalizeCompleted
<1>2. run'.pc = "report" /\ run'.drama = run.drama
  BY <1>1 DEF IInv, RunOK, Run
<1>3. Phase = "submitted" /\ Phase' = "marked"
  BY <1>1, <1>2 DEF Phase
<1>4. run.task \in Completed
  BY <1>1 DEF IInv, RunOK, PlatformOK, FinishOK, Shown, Completed
<1>5. Stages!Mark(run.task)
  BY <1>1, <1>2, <1>3, SameTasks DEF Stages!Mark
<1> QED  BY <1>4, <1>5

\* The platform completes a task, or only shows or fails it.
LEMMA StagePlatform ==
    ASSUME IInv, PlatformStep
    PROVE  (\E t \in DOMAIN Submitted \ Completed : Stages!Complete(t)) \/ UNCHANGED Stages!stages
<1>1. PICK t \in DOMAIN platform, status \in {"PENDING", "COMPLETED", "FAILED"} :
          /\ platform[t].status = IF status = "PENDING" THEN "HIDDEN" ELSE "PENDING"
          /\ platform' = [platform EXCEPT ![t].status = status]
  BY DEF PlatformStep
<1>2. run' = run /\ marks' = marks /\ ledger' = ledger /\ Phase' = Phase
  BY DEF PlatformStep, Phase
<1>3. platform \in Seq(PlatformTask)
  BY DEF IInv, PlatformOK
<1>4. platform \in [DOMAIN platform -> PlatformTask]
  BY <1>3, LenProperties
<1>5. /\ DOMAIN platform' = DOMAIN platform
      /\ \A x \in DOMAIN platform : platform'[x].drama = platform[x].drama
      /\ \A x \in DOMAIN platform : platform'[x].status = IF x = t THEN status ELSE platform[x].status
  <2>1. \A x \in PlatformTask : /\ [x EXCEPT !.status = status].status = status
                                /\ [x EXCEPT !.status = status].drama = x.drama
    BY DEF PlatformTask
  <2> QED  BY <1>1, <1>4, <2>1
<1>6. Submitted' = Submitted
  BY <1>5 DEF Submitted
<1>7. t \notin Completed /\ DOMAIN Submitted = DOMAIN platform
  BY <1>1 DEF Completed, Submitted
<1>8. CASE status = "COMPLETED"
  <2>1. Completed' = Completed \cup {t}
    BY <1>5, <1>8 DEF Completed
  <2>2. Stages!Complete(t)
    BY <1>2, <1>6, <2>1 DEF Stages!Complete
  <2> QED  BY <1>1, <1>7, <2>2
<1>9. CASE status # "COMPLETED"
  <2>1. Completed' = Completed
    BY <1>1, <1>5, <1>9 DEF Completed
  <2> QED  BY <1>2, <1>6, <2>1 DEF Stages!stages
<1> QED  BY <1>8, <1>9

\* The steps within a phase.
LEMMA StageMoves ==
    ASSUME IInv,
           \/ BuildPlan \/ Validate \/ EnsureDramaAsset \/ EnsurePromotionConfigs
           \/ ReadTaskRow \/ ResultUncertain \/ FindByTaskName \/ PollAgain \/ PollCompleted
           \/ \E real \in BOOLEAN : Prepare(real)
    PROVE  UNCHANGED Stages!stages
<1>1. Untouched
  BY DEF BuildPlan, Validate, EnsureDramaAsset, EnsurePromotionConfigs, ReadTaskRow,
         ResultUncertain, FindByTaskName, PollAgain, PollCompleted, Prepare, Untouched
<1>2. run \in Run
  BY DEF IInv, RunOK
<1>3. CASE \/ BuildPlan \/ Validate \/ EnsureDramaAsset \/ EnsurePromotionConfigs
           \/ \E real \in BOOLEAN : Prepare(real)
  <2>1. /\ run.pc \in {"prepare", "assign", "validate", "asset", "configs"}
        /\ \E pc \in {"assign", "validate", "asset", "configs", "submit"} :
               run' = [run EXCEPT !.pc = pc]
    BY <1>3 DEF BuildPlan, Validate, EnsureDramaAsset, EnsurePromotionConfigs, Prepare
  <2>2. /\ run'.drama = run.drama
        /\ run'.pc \in {"assign", "validate", "asset", "configs", "submit"}
    BY <1>2, <2>1 DEF Run
  <2>3. Phase = "begun" /\ Phase' = "begun"
    BY <2>1, <2>2 DEF Phase
  <2> QED  BY <1>1, <2>2, <2>3, StageStays
<1>4. CASE ReadTaskRow \/ ResultUncertain \/ FindByTaskName \/ PollAgain \/ PollCompleted
  <2>1. /\ run.pc \in {"submitted", "find", "poll"}
        /\ run'.drama = run.drama /\ run'.pc \in {"find", "poll", "finish"}
    BY <1>2, <1>4 DEF ReadTaskRow, ResultUncertain, FindByTaskName, PollAgain, PollCompleted, Run
  <2>2. Phase = "submitted" /\ Phase' = "submitted"
    BY <2>1 DEF Phase
  <2> QED  BY <1>1, <2>1, <2>2, StageStays
<1> QED  BY <1>3, <1>4

LEMMA StageStep == ASSUME IInv, [Next]_vars PROVE [Stages!Next]_(Stages!stages)
<1>1. ASSUME NEW d \in Drama, Start(d) PROVE Stages!Next
  BY <1>1, StageBegun DEF Stages!Next
<1>2. CASE ExecuteNext
  <2>1. CASE \/ PrepareFails \/ AssignRaises \/ AccountAssignmentFailure \/ PageFails
             \/ SubmitRaises \/ ValidationFails \/ NotFound \/ PollTimesOut \/ WriteCompletionFails
             \/ GuardBlocks \/ PollUncertain
    <3>1. run.pc # "idle" /\ UNCHANGED marks
      BY <2>1 DEF PrepareFails, AssignRaises, AccountAssignmentFailure, PageFails, SubmitRaises,
             ValidationFails, NotFound, PollTimesOut, WriteCompletionFails, GuardBlocks,
             PollUncertain, ManualReview
    <3>2. Report("MANUAL_REVIEW", 0) \/ Report("DRY_RUN", 0) \/ Report("UNCERTAIN", 0)
      BY <2>1 DEF PrepareFails, AssignRaises, AccountAssignmentFailure, PageFails, SubmitRaises,
             ValidationFails, NotFound, PollTimesOut, WriteCompletionFails, GuardBlocks,
             PollUncertain, ManualReview
    <3> QED  BY <3>1, <3>2, StageReported DEF Stages!Next
  <2>2. CASE ReportCompleted
    BY <2>2, StageRecorded DEF Stages!Next
  <2>3. CASE AssignStep
    <3>1. Untouched /\ run' = run
      BY <2>3 DEF AssignStep, deliveryVars, Untouched
    <3>2. Phase' = Phase
      BY <3>1 DEF Phase
    <3> QED  BY <3>1, <3>2, StageStays
  <2>4. CASE \/ BuildPlan \/ Validate \/ EnsureDramaAsset \/ EnsurePromotionConfigs
             \/ ReadTaskRow \/ ResultUncertain \/ FindByTaskName \/ PollAgain \/ PollCompleted
             \/ \E real \in BOOLEAN : Prepare(real)
    BY <2>4, StageMoves
  <2>5. CASE (\E status \in {"HIDDEN", "PENDING"} : SubmitPlan(status)) \/ SubmitIgnored
    BY <2>5, StageSubmitted DEF Stages!Next
  <2>6. CASE FinalizeCompleted
    BY <2>6, StageMarked DEF Stages!Next
  <2> QED  BY <1>2, <2>1, <2>2, <2>3, <2>4, <2>5, <2>6 DEF ExecuteNext
<1>3. CASE (EditSheet /\ UNCHANGED deliveryVars) \/ UNCHANGED vars
  <2>1. Untouched /\ run' = run
    BY <1>3 DEF vars, deliveryVars, Untouched
  <2>2. Phase' = Phase
    BY <2>1 DEF Phase
  <2> QED  BY <2>1, <2>2, StageStays
<1>4. CASE PlatformStep
  BY <1>4, StagePlatform DEF Stages!Next
<1>5. CASE Crash
  <2>1. Untouched /\ run.pc # "idle" /\ run' = NoRun
    BY <1>5 DEF Crash, Untouched
  <2> QED  BY <2>1, StageGivenUp DEF Stages!Next
<1> QED  BY <1>1, <1>2, <1>3, <1>4, <1>5 DEF Next

\* Every execution is a delivery as DeliveryStages describes it: submitted at most once, M=1 for
\* a completed task after that, and in the ledger the task of this delivery's M=1; whatever fails
\* or dies in between, and however often a drama is delivered again.
THEOREM Refinement == Spec => KeepsDelivery
<1>1. Init => Stages!Init
  <2> SUFFICES ASSUME Init PROVE Stages!Init
    OBVIOUS
  <2>1. /\ platform = <<>> /\ run = NoRun
        /\ marks = [d \in Drama |-> 0] /\ ledger = [d \in Drama |-> 0]
    BY DEF Init
  <2>2. Phase = "idle" /\ run.drama = Nobody
    BY <2>1 DEF Phase, NoRun
  <2>3. Submitted = <<>> /\ Completed = {}
    BY <2>1 DEF Submitted, Completed
  <2> QED  BY <2>1, <2>2, <2>3 DEF Stages!Init
<1>2. IInv /\ [Next]_vars => [Stages!Next]_(Stages!stages)
  BY StageStep
<1> QED  BY <1>1, <1>2, Invariance, PTL DEF Spec, KeepsDelivery, Stages!Spec

=============================================================================
