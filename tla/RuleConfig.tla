----------------------------- MODULE RuleConfig -----------------------------
(***************************************************************************)
(* The rule configuration: versions of a rule set are saved as drafts,     *)
(* validated, published and deleted by requests of the dashboard, which    *)
(* may overlap; publishing replaces the rows of the tables the worker      *)
(* reads, and every start of a process seeds the defaults it misses there. *)
(*                                                                         *)
(* A payload is what the dashboard sends or the defaults hold: a list of   *)
(* price rules, one price rule by itself, or a list of material ranges.    *)
(* A request reads, then writes and commits; writes are serial (SQLite).   *)
(***************************************************************************)
EXTENDS MaterialGroups

CONSTANTS
    RuleSets,
    Requests,
    Payloads,                      \* what people save
    DefaultPayload,                \* of each rule set, from configs/defaults/rules.json
    DefaultPrices, DefaultRanges,  \* ... and its rule tables
    Counts,                        \* numbers of materials
    MaxOps, MaxTime                \* bounds on requests and starts, and on the seconds that pass

NoKey == ""

Payload == Payloads \cup {DefaultPayload[s] : s \in RuleSets}

\* A price rule has a key, whether its prices pass the validation, and its values.
ASSUME RuleConfigAssumption ==
    /\ \A p \in Payload :
          /\ DOMAIN p = {"single", "prices", "ranges"} /\ IsFiniteSet(p.prices \cup p.single)
          /\ IsRangeTable(p.ranges)
    /\ IsRangeTable(DefaultRanges)
    /\ IsFiniteSet(RuleSets) /\ Counts \subseteq Nat
    /\ MaxOps \in Nat /\ MaxTime \in Nat

VARIABLES
    versions,       \* rule_version
    prices, ranges, \* template_price_rule and material_rule_range: what the worker reads
    now,            \* the clock, in the seconds of CURRENT_TIMESTAMP
    made,           \* how many versions have been created; a version's id
    request,
    applied,        \* history: the version whose price rules were applied last, and these
    resaved,        \* history: versions a request saved as a draft after their publication
    ops

vars == <<versions, prices, ranges, now, made, request, applied, resaved, ops>>

Status == {"DRAFT", "VALIDATING", "PUBLISHED"}
NoVersion == 0

Idle == [op |-> "idle"]

\* The first start has seeded the defaults, one rule set after the other.
SeedId == CHOOSE id \in [RuleSets -> 1 .. Cardinality(RuleSets)] :
              \A s, t \in RuleSets : id[s] = id[t] => s = t

Init ==
    /\ versions = {[set |-> s, id |-> SeedId[s], number |-> 1, second |-> 0, status |-> "DRAFT",
                    payload |-> DefaultPayload[s]] : s \in RuleSets}
    /\ prices = DefaultPrices /\ ranges = DefaultRanges
    /\ now = 0 /\ made = Cardinality(RuleSets)
    /\ request = [r \in Requests |-> Idle]
    /\ applied = [by |-> NoVersion, rules |-> DefaultPrices]
    /\ resaved = {} /\ ops = 0

Operation == ops < MaxOps /\ ops' = ops + 1

OfSet(s)         == {v \in versions : v.set = s}
InStatus(vs, st) == {v \in vs : v.status \in st}

\* Mutant: the numbers are not compared.
LatestBySecond(vs) == {v \in vs : \A w \in vs : w.second <= v.second}

\* _version_sort_key: by the second of creation, then by number; the uuid decides the rest.
Latest(vs) ==
    {v \in vs : \A w \in vs :
        w.second < v.second \/ (w.second = v.second /\ w.number <= v.number)}

NextNumber(vs) == IF vs = {} THEN 1 ELSE Max({v.number : v \in vs}) + 1

NewVersion(s, number, status, payload) ==
    [set |-> s, id |-> made + 1, number |-> number, second |-> now,
     status |-> status, payload |-> payload]

-----------------------------------------------------------------------------
(* Validating and applying a payload. *)

RangesOverlap(a, b) == a.min <= b.min /\ (a.max = Open \/ b.min <= a.max)

ValidRanges(rs) ==
    /\ \A r \in rs : r.max = Open \/ r.min < r.max
    /\ \A a, b \in rs : a # b /\ a.strategy = b.strategy => ~RangesOverlap(a, b)

\* _validate_payload_draft looks at one part: the first there is.
Validates(p) ==
    IF p.single # {} THEN \A rule \in p.single : rule.valid
    ELSE IF p.prices # {} THEN \A rule \in p.prices : rule.valid
    ELSE ValidRanges(p.ranges)

\* _replace_price_items: rules without a key are dropped, all the others replaced.
Keyed(rules) == {rule \in rules : rule.key # NoKey}

HasPrices(p) == p.single \cup p.prices # {}
PricesOf(p)  == Keyed(IF p.prices # {} THEN p.prices ELSE p.single)

\* apply_published_payload
Apply(p) ==
    /\ prices' = IF HasPrices(p) THEN PricesOf(p) ELSE prices
    /\ ranges' = IF p.ranges # {} THEN p.ranges ELSE ranges

InEffect(id, p) ==
    IF HasPrices(p) THEN [by |-> id, rules |-> PricesOf(p)]
    ELSE IF id = applied.by THEN [applied EXCEPT !.by = NoVersion] ELSE applied

-----------------------------------------------------------------------------
(* Requests: what each reads ... *)

Begin(r, op, s, target, payload) ==
    /\ request[r].op = "idle" /\ Operation
    /\ request' = [request EXCEPT ![r] = [op |-> op, set |-> s, target |-> target,
                                           payload |-> payload, next |-> NextNumber(OfSet(s))]]
    /\ UNCHANGED <<versions, prices, ranges, now, made, applied, resaved>>

\* save_draft_payload: the latest draft, or a new one.
BeginSave(r, s) ==
    LET drafts == InStatus(OfSet(s), {"DRAFT"}) IN
    \E p \in Payloads :
        \/ drafts = {} /\ Begin(r, "save", s, NoVersion, p)
        \/ \E v \in Latest(drafts) : Begin(r, "save", s, v.id, p)

\* validate_rule: refused without a draft, or if the latest one is not valid.
BeginValidate(r, s) ==
    \E v \in Latest(InStatus(OfSet(s), {"DRAFT"})) :
        Validates(v.payload) /\ Begin(r, "validate", s, v.id, v.payload)

\* publish_version: the latest draft or validated version.
BeginPublish(r, s) ==
    \E v \in Latest(InStatus(OfSet(s), {"DRAFT", "VALIDATING"})) :
        Begin(r, "publish", s, v.id, v.payload)

\* delete_version: any version, whatever its status.
BeginDelete(r, s) == \E v \in OfSet(s) : Begin(r, "delete", s, v.id, v.payload)

(* ... and what it writes. *)

Exists(id) == \E v \in versions : v.id = id
Stored(id) == CHOOSE v \in versions : v.id = id
Replaced(id, v) == {w \in versions : w.id # id} \cup {v}

Done(r) == request' = [request EXCEPT ![r] = Idle]

Added(v) == versions' = versions \cup {v} /\ made' = made + 1

Save(r) ==
    LET q == request[r] IN
    /\ q.op = "save" /\ (q.target = NoVersion \/ Exists(q.target))
    /\ IF q.target = NoVersion
       THEN Added(NewVersion(q.set, q.next, "DRAFT", q.payload)) /\ resaved' = resaved
       ELSE /\ versions' = Replaced(q.target, [Stored(q.target) EXCEPT !.payload = q.payload,
                                                                       !.status = "DRAFT"])
            /\ resaved' = IF Stored(q.target).status = "PUBLISHED" THEN resaved \cup {q.target}
                          ELSE resaved
            /\ UNCHANGED made
    /\ Done(r) /\ UNCHANGED <<prices, ranges, now, applied, ops>>

\* Mutant: the payload is read again after the check.
CopyCurrentDraft(r) ==
    LET q == request[r] IN
    /\ q.op = "validate" /\ Exists(q.target)
    /\ Added(NewVersion(q.set, q.next, "VALIDATING", Stored(q.target).payload))
    /\ Done(r) /\ UNCHANGED <<prices, ranges, now, applied, resaved, ops>>

\* The payload that was checked becomes a version of its own.
Validate(r) ==
    LET q == request[r] IN
    /\ q.op = "validate"
    /\ Added(NewVersion(q.set, q.next, "VALIDATING", q.payload))
    /\ Done(r) /\ UNCHANGED <<prices, ranges, now, applied, resaved, ops>>

\* Mutant: the version keeps the payload a save has stored meanwhile.
PublishStatus(r) ==
    LET q == request[r] IN
    /\ q.op = "publish" /\ Exists(q.target)
    /\ versions' = Replaced(q.target, [Stored(q.target) EXCEPT !.status = "PUBLISHED"])
    /\ Apply(q.payload)
    /\ applied' = InEffect(q.target, q.payload)
    /\ resaved' = resaved \ {q.target}
    /\ Done(r) /\ UNCHANGED <<now, made, ops>>

\* The whole version is written back as it was read, and its rules replace the tables'.
Publish(r) ==
    LET q == request[r] IN
    /\ q.op = "publish" /\ Exists(q.target)
    /\ versions' = Replaced(q.target, [Stored(q.target) EXCEPT !.status = "PUBLISHED",
                                                               !.payload = q.payload])
    /\ Apply(q.payload)
    /\ applied' = InEffect(q.target, q.payload)
    /\ resaved' = resaved \ {q.target}
    /\ Done(r) /\ UNCHANGED <<now, made, ops>>

Delete(r) ==
    LET q == request[r] IN
    /\ q.op = "delete"
    /\ versions' = {v \in versions : v.id # q.target}
    /\ Done(r) /\ UNCHANGED <<prices, ranges, now, made, applied, resaved, ops>>

\* The version it means to write is gone, or the database stays locked: rolled back.
RequestFails(r) ==
    /\ request[r].op # "idle" /\ Done(r)
    /\ UNCHANGED <<versions, prices, ranges, now, made, applied, resaved, ops>>

-----------------------------------------------------------------------------
MissingIn(table, defaults) == {d \in defaults : \A row \in table : row.key # d.key}

\* seed_rules_from_defaults at the start of the control server or a worker: rows whose key
\* is not in the table are added. The rule sets are there since the first start.
Start ==
    /\ Operation
    /\ prices' = prices \cup MissingIn(prices, DefaultPrices)
    /\ ranges' = ranges \cup MissingIn(ranges, DefaultRanges)
    /\ UNCHANGED <<versions, now, made, request, applied, resaved>>

Tick == now < MaxTime /\ now' = now + 1
        /\ UNCHANGED <<versions, prices, ranges, made, request, applied, resaved, ops>>

Next ==
    \/ \E r \in Requests :
         \/ \E s \in RuleSets : BeginSave(r, s) \/ BeginValidate(r, s) \/ BeginPublish(r, s)
                                \/ BeginDelete(r, s)
         \/ Save(r) \/ Validate(r) \/ Publish(r) \/ Delete(r) \/ RequestFails(r)
    \/ Start \/ Tick

Spec == Init /\ [][Next]_vars

-----------------------------------------------------------------------------
(* Properties. *)

Version == [set : RuleSets, id : Nat \ {0}, number : Nat \ {0}, second : Nat, status : Status,
            payload : Payload]

Request == {Idle} \cup [op : {"save", "validate", "publish", "delete"}, set : RuleSets,
                        target : Nat, payload : Payload, next : Nat \ {0}]

\* The versions, requests and tables have their shape, whatever overlaps.
TypeOK ==
    /\ versions \in SUBSET Version /\ IsFiniteSet(versions)
    /\ now \in Nat /\ made \in Nat /\ ops \in Nat
    /\ request \in [Requests -> Request]
    /\ applied.by \in Nat
    /\ IsRangeTable(ranges)

\* The price rules the worker reads are those of the version published last: it is listed as
\* published with exactly these rules, unless it was deleted, an overlapping save turned it
\* back into a draft, or an overlapping publication wrote an older payload without prices over
\* it; rows beside them are defaults a start has added again.
PublishedIsInEffect ==
    /\ applied.rules \subseteq prices /\ prices \ applied.rules \subseteq DefaultPrices
    /\ \A v \in versions :
          v.id = applied.by /\ v.id \notin resaved
              => v.status = "PUBLISHED" /\ PricesOf(v.payload) = applied.rules

\* What carries the mark of a validated version has passed the validation: a save that
\* overlaps with it does not slip another payload in between.
ValidatedIsValid == \A v \in InStatus(versions, {"VALIDATING"}) : Validates(v.payload)

\* Publishing takes the version created last, of those that wait, though the clock of
\* created_at has seconds only and numbers are given again after a deletion; two versions
\* that overlapping requests gave the same second and number are not told apart.
PublishesNewest ==
    [][\A r \in Requests :
        request[r].op = "idle" /\ request'[r].op = "publish" =>
            LET waiting == InStatus(OfSet(request'[r].set), {"DRAFT", "VALIDATING"}) IN
            \A v, w \in waiting :
                v.id = request'[r].target =>
                    w.id <= v.id \/ (w.second = v.second /\ w.number <= v.number)]_vars

\* What the design says of the first start: from then on the database decides. (A start adds
\* the defaults that a publication has replaced.)
RestartKeepsRules == prices = applied.rules

\* With the ranges in effect, however many materials a drama has: the groups are many enough
\* that none exceeds the greatest cap, or the greatest size of a test group; and when the
\* groups come in threes for three projects, or for a test, the ad limits hold them all.
GroupsFit ==
    LET tests == {r \in ranges : r.test}
        size  == Max({DefaultGroupSizeCap} \cup
                     (IF tests = {} THEN {r.cap : r \in ranges} ELSE {r.base : r \in tests}))
    IN \A n \in Counts : \A plan \in Plans(n, ranges) :
          /\ plan.groups * size >= n
          /\ tests # {} \/ (plan.groups % 3 = 0 /\ plan.projects = 3)
                => plan.adLimit * plan.projects >= plan.groups

=============================================================================
