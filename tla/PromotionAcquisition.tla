------------------------ MODULE PromotionAcquisition ------------------------
(***************************************************************************)
(* The acquisition of one task's links by the provider chain: the API      *)
(* provider queries and creates under the safety guard, the network        *)
(* provider matches what the page's responses listed, the DOM provider     *)
(* walks the pages; the pipeline validates the candidates and freezes the  *)
(* links.  LEGACY runs the pages alone, SHADOW compares them with the      *)
(* network provider's result.  Runs of a task follow one another; people   *)
(* create promotions at any time.                                          *)
(*                                                                         *)
(* A promotion is what the platform shows of it: its name relative to the  *)
(* task's (the same, with other spaces, with a usual suffix, another, not  *)
(* shown), its ids, the fields its tier is read from, its URL.             *)
(***************************************************************************)
EXTENDS FiniteSetsExt, SequencesExt

CONSTANTS
    Promotions,              \* what people create; tier is the tier they created it for
    PriceRules,              \* template_price_rule
    MaxPromotions, MaxCaptures, MaxRuns

Tiers == <<"IAA", "2.9", "9.9">>
AllTypes == Range(Tiers)
NoId == "none"
TaskKey == "key"            \* the locator key of a confirmed match
NoPromotion == 0

\* What the platform shows of a promotion.
Promotion == [tier : AllTypes, name : {"same", "spaced", "suffixed", "other", "blank"},
              drama : {NoId, TaskKey, "another"}, id : {NoId, TaskKey, "id"},
              templateId : BOOLEAN, template : AllTypes \cup {NoId, TaskKey, "another"},
              type : {"free", "paid", "unstated"}, episodes : BOOLEAN, price : Nat,
              url : {NoId, "ok", "malformed"}, by : {"person", "program"}, seen : BOOLEAN]

ASSUME AcquisitionAssumption ==
    /\ Promotions \subseteq {p \in Promotion : p.by = "person"}
    /\ MaxPromotions \in Nat /\ MaxCaptures \in Nat /\ MaxRuns \in Nat

VARIABLES
    promotions,     \* the platform's, in the order of their creation
    confirmed,      \* whether the task has a confirmed match
    lists, details, \* the captured list responses, and the promotions with a captured detail
    stage, mode,
    index,          \* the tier the API provider is at
    candidates, selected, missing,      \* the chain's result so far
    shadow,         \* what the last shadow comparison found
    outcome,        \* of the last run
    doubts,         \* history: the tiers the run's providers had doubts about, and which
    runs            \* history

platform == <<promotions, confirmed, lists, details>>
result == <<candidates, selected, missing>>
vars == <<platform, stage, mode, index, result, shadow, outcome, doubts, runs>>

NoReason == ""
NothingMissing == [t \in AllTypes |-> NoReason]
NoLinks == [t \in AllTypes |-> NoPromotion]
NoOutcome == [status |-> "none", links |-> NoLinks]

Init ==
    /\ promotions = <<>> /\ confirmed \in BOOLEAN
    /\ lists = <<>> /\ details = {}
    /\ stage = "idle" /\ mode = "V2" /\ index = 1
    /\ candidates = {} /\ selected = {} /\ missing = NothingMissing
    /\ shadow = {} /\ outcome = NoOutcome /\ doubts = {} /\ runs = 0

-----------------------------------------------------------------------------
(* Names, tiers and URLs                                                   *)

NamesMatchExact(name) == name = "same"
NamesMatchFuzzy(name) == name \in {"same", "spaced", "suffixed"}
SameNormalized(name) == name \in {"same", "spaced"}

\* The parser's tier of an item: a free item with episodes, else by the price, else by the
\* template's name; an item without a type but with episodes is taken for a free one.
ClassifyLinkType(p) ==
    CASE p.type = "free" /\ p.episodes -> "IAA"
      [] p.price \in 20 .. 50 -> "2.9"
      [] p.price \in 70 .. 150 -> "9.9"
      [] p.price > 0 -> "PRICE"
      [] p.template # NoId -> p.template
      [] p.episodes /\ p.type # "paid" -> "IAA"
      [] OTHER -> "UNKNOWN"

NormalizeType(p) ==
    LET type == ClassifyLinkType(p)
        rules == {r \in PriceRules : p.price \in r.min .. r.max}
    IN  IF type = "IAA" \/ p.price = 0 \/ rules = {} THEN type
        ELSE (CHOOSE r \in rules : TRUE).tier

\* A promotion is taken for one of its tier, or of none of the tiers.
ShowsItsTier(p) == NormalizeType(p) \in AllTypes => NormalizeType(p) = p.tier

\* An asset of the task, as a provider hands it on.
Asset(provider, i, copy, tier, name) ==
    [provider |-> provider, id |-> i, copy |-> copy, tier |-> tier, name |-> name]

-----------------------------------------------------------------------------
(* The matcher: levels of decreasing confidence                            *)

Of(c) == promotions[c.id]

Several(S) == \E x, y \in S : x # y
Single(S) == \E x \in S : S = {x}

BestNameMatch(C) ==
    LET exact == {c \in C : NamesMatchExact(c.name)}
    IN  IF exact # {} THEN exact ELSE {c \in C : NamesMatchFuzzy(c.name)}

ByExternalId(C) ==
    LET identified == {c \in C : Of(c).drama # NoId}
    IN  IF confirmed THEN {c \in identified : Of(c).drama = TaskKey}
        ELSE BestNameMatch(identified)

ByConfirmed(C) == IF confirmed THEN {c \in C : TaskKey \in {Of(c).id, Of(c).template}} ELSE {}

Levels(C) ==
    <<ByExternalId(C),
      {c \in C : Of(c).id # NoId},
      {c \in C : Of(c).templateId},
      ByConfirmed(C),
      {c \in C : NamesMatchExact(c.name)},
      {c \in C : NamesMatchFuzzy(c.name)}>>

\* What the first level that matches anything matched, and whether that decides.
Match(C, tier) ==
    LET levels == Levels({c \in C : c.tier = tier})
        hits == {l \in DOMAIN levels : levels[l] # {}}
    IN  IF hits = {} THEN [found |-> {}, decided |-> FALSE]
        ELSE LET l == Min(hits)
             IN  [found |-> levels[l],
                  decided |-> Single(levels[l]) /\ l # Len(levels)]

-----------------------------------------------------------------------------
(* The network provider                                                    *)

\* Every item of every list response, and the details of promotions no list shows.  An item
\* without a name is given the task's.
Parsed ==
    LET Item(i, copy) == Asset("NETWORK", i, copy, NormalizeType(promotions[i]),
                               IF promotions[i].name = "blank" THEN "same" ELSE promotions[i].name)
        Usable(i) == promotions[i].id # NoId \/ promotions[i].url # NoId
        listed == UNION {{Item(i, n) : i \in {j \in lists[n] : Usable(j)}} : n \in DOMAIN lists}
        known == {c.id : c \in listed}
    IN  listed \cup {Item(i, 0) : i \in {j \in details \ known : promotions[j].id # NoId}}

NetworkResult ==
    LET parsed == Parsed
        match == [t \in AllTypes |-> Match(parsed, t)]
        matched == {t \in AllTypes : match[t].decided}
        ambiguous == {t \in AllTypes \ matched : match[t].found # {}}
    IN  [selected |-> matched,
         candidates |-> UNION {match[t].found : t \in AllTypes},
         missing |-> [t \in AllTypes |-> IF t \in ambiguous THEN "AMBIGUOUS" ELSE NoReason],
         complete |-> ambiguous = {} /\ matched # {}]

\* The doubts of a provider about the tiers no provider before has selected.
DoubtsOf(r) ==
    LET open == AllTypes \ selected
    IN  {<<t, r.missing[t]>> : t \in {u \in open : r.missing[u] # NoReason}}
            \cup {<<t, "SEVERAL">> : t \in
                     {u \in open : Several({c \in r.candidates : c.tier = u})}}

NotSelected(r) == {c \in r.candidates : c.tier \notin selected}

MissingWith(r) ==
    [t \in AllTypes |-> IF missing[t] = NoReason /\ t \notin selected \cup r.selected
                        THEN r.missing[t] ELSE missing[t]]

\* Mutant: only the candidates of the last provider are kept for a tier.
MergeLast(r) ==
    /\ candidates' = {c \in candidates : c.tier \in selected} \cup NotSelected(r)
    /\ selected' = selected \cup r.selected
    /\ missing' = MissingWith(r)
    /\ doubts' = doubts \cup DoubtsOf(r)

\* Mutant: the reasons of the last provider replace the others'.
MergeForgets(r) ==
    /\ candidates' = candidates \cup NotSelected(r)
    /\ selected' = selected \cup r.selected
    /\ missing' = r.missing
    /\ doubts' = doubts \cup DoubtsOf(r)

\* The chain takes over what the providers before have not selected.
Merge(r) ==
    /\ candidates' = candidates \cup NotSelected(r)
    /\ selected' = selected \cup r.selected
    /\ missing' = MissingWith(r)
    /\ doubts' = doubts \cup DoubtsOf(r)

-----------------------------------------------------------------------------
(* A run                                                                   *)

Start(m, withApi) ==
    /\ stage = "idle" /\ runs < MaxRuns
    /\ withApi => m = "V2"
    /\ mode' = m /\ runs' = runs + 1 /\ index' = 1
    /\ stage' = IF m # "V2" THEN "dom" ELSE IF withApi THEN "query" ELSE "network"
    /\ doubts' = {} /\ outcome' = NoOutcome /\ shadow' = {}
    /\ UNCHANGED <<platform, result>>

End(o) ==
    /\ stage' = "idle" /\ index' = 1
    /\ candidates' = {} /\ selected' = {} /\ missing' = NothingMissing
    /\ outcome' = o

\* A provider that raises ends the run; what it has created stays.
Raised == End([status |-> "RAISED", links |-> NoLinks])

Visible == {i \in DOMAIN promotions : promotions[i].seen}

\* External: the query searches a tier for the task's name.
QueryPromotions(tier) ==
    {i \in Visible : promotions[i].tier = tier /\ NamesMatchFuzzy(promotions[i].name)}

\* The next tier; after the last one the chain goes on unless nothing is missing.
NextTier ==
    IF index < Len(Tiers)
    THEN index' = index + 1 /\ stage' = "query"
    ELSE index' = index /\ stage' = IF missing' = NothingMissing THEN "freeze" ELSE "network"

Reuse(tier, i) ==
    /\ candidates' = candidates \cup {Asset("API", i, 0, tier, promotions[i].name)}
    /\ selected' = selected \cup {tier}
    /\ UNCHANGED <<missing, doubts>>
    /\ NextTier

Doubt(tier, why) ==
    /\ missing' = [missing EXCEPT ![tier] = why]
    /\ doubts' = doubts \cup {<<tier, why>>}
    /\ UNCHANGED <<candidates, selected>>
    /\ NextTier

\* What the guard makes of promotions found, if any were: no tier is created or selected that
\* the platform shows twice.
Judge(tier, found) ==
    LET i == CHOOSE j \in found : TRUE
    IN  IF Several(found) THEN Doubt(tier, "AMBIGUOUS")
        ELSE IF promotions[i].url = NoId THEN Doubt(tier, "UNCERTAIN")
        ELSE Reuse(tier, i)

\* Mutant: creates without looking first.
CreateFirst ==
    /\ stage = "query" /\ stage' = "create"
    /\ UNCHANGED <<platform, mode, index, result, shadow, outcome, doubts, runs>>

Query ==
    /\ stage = "query"
    /\ LET found == QueryPromotions(Tiers[index])
       IN  IF found = {} THEN stage' = "create" /\ UNCHANGED <<index, result, doubts>>
           ELSE Judge(Tiers[index], found)
    /\ UNCHANGED <<platform, mode, shadow, outcome, runs>>

\* A promotion the program creates; the next query may miss it.
Created(tier, by, seen) ==
    [tier |-> tier, name |-> "same", drama |-> TaskKey, id |-> "id", templateId |-> tier # "IAA",
     template |-> NoId, type |-> IF tier = "IAA" THEN "free" ELSE "paid", episodes |-> tier = "IAA",
     price |-> CASE tier = "2.9" -> 29 [] tier = "9.9" -> 99 [] OTHER -> 0,
     url |-> "ok", by |-> by, seen |-> seen]

\* People state what their promotions are; the price rules fit the prices the program uses.
ASSUME TiersAreShown ==
    /\ \A p \in Promotions : ShowsItsTier(p)
    /\ \A t \in AllTypes : ShowsItsTier(Created(t, "program", TRUE))

\* The platform creates it or not, and the answer arrives or not.
CreatePromotion ==
    /\ stage = "create"
    /\ \/ /\ Len(promotions) < MaxPromotions
          /\ \E seen \in BOOLEAN :
                promotions' = Append(promotions, Created(Tiers[index], "program", seen))
       \/ UNCHANGED promotions
    /\ stage' = "requery"
    /\ UNCHANGED <<confirmed, lists, details, mode, index, result, shadow, outcome, doubts, runs>>

\* External: a new promotion is missing from one query at most.
ListingCatchesUp ==
    promotions' = [i \in DOMAIN promotions |-> [promotions[i] EXCEPT !.seen = TRUE]]

Requery ==
    /\ stage = "requery"
    /\ ListingCatchesUp
    /\ LET found == QueryPromotions(Tiers[index])
       IN  IF found = {} THEN Doubt(Tiers[index], "UNCERTAIN") ELSE Judge(Tiers[index], found)
    /\ UNCHANGED <<confirmed, lists, details, mode, shadow, outcome, runs>>

ApiRaises ==
    /\ stage \in {"query", "create", "requery"}
    /\ Raised /\ ListingCatchesUp
    /\ UNCHANGED <<confirmed, lists, details, mode, shadow, doubts, runs>>

\* A shadow run only compares the result with that of the pages.
ReadNetwork ==
    /\ stage = "network"
    /\ LET r == NetworkResult
       IN  /\ Merge(r)
           /\ stage' = IF r.complete \/ selected' = AllTypes THEN "freeze" ELSE "dom"
    /\ UNCHANGED <<platform, mode, index, shadow, outcome, runs>>

-----------------------------------------------------------------------------
(* The pages (TomatoExtraction has their walk)                             *)

OnPage(tier) ==
    {i \in Visible : promotions[i].tier = tier /\ SameNormalized(promotions[i].name)}

\* The tiers of S, in their order.
InOrder(S) ==
    LET Only(n) == IF Tiers[n] \in S THEN <<Tiers[n]>> ELSE <<>> IN Only(1) \o Only(2) \o Only(3)

\* What the pages create: a promotion of each tier they ask for and do not show.
Asked(got) == InOrder({t \in AllTypes : got[t] = "have" /\ OnPage(t) = {}})

Creations(got) == [n \in DOMAIN Asked(got) |-> Created(Asked(got)[n], "program", TRUE)]

\* The promotion they find or create for a tier, and the tiers they hand on.
IdOf(got, t) ==
    IF OnPage(t) # {} THEN Min(OnPage(t))
    ELSE Len(promotions) + (CHOOSE n \in DOMAIN Asked(got) : Asked(got)[n] = t)

Handed(got) ==
    LET all == promotions \o Creations(got)
    IN  {t \in AllTypes : got[t] = "have" /\ (t = "IAA" \/ all[IdOf(got, t)].url # NoId)}

DomResult(got) ==
    [selected |-> {},
     candidates |-> {Asset("DOM", IdOf(got, t), 0, t, "same") : t \in Handed(got)},
     missing |-> [t \in AllTypes |-> IF got[t] = "fail" THEN "FAILED" ELSE NoReason]]

\* Each tier's promotion is found or created, or the tier fails, or has no template; a run
\* without the IAA link raises.  The DOM provider selects nothing.
ReadPages ==
    /\ stage = "dom"
    /\ \E got \in [AllTypes -> {"have", "fail", "absent"}] :
           /\ got["IAA"] = "have" /\ Len(promotions) + Len(Creations(got)) <= MaxPromotions
           /\ promotions' = promotions \o Creations(got)
           /\ Merge(DomResult(got))
    /\ stage' = IF mode = "SHADOW" THEN "compare" ELSE "freeze"
    /\ UNCHANGED <<confirmed, lists, details, mode, index, shadow, outcome, runs>>

PagesRaise ==
    /\ stage = "dom"
    /\ \/ UNCHANGED promotions
       \/ /\ OnPage("IAA") = {} /\ Len(promotions) < MaxPromotions
          /\ promotions' = Append(promotions, Created("IAA", "program", TRUE))
    /\ Raised
    /\ UNCHANGED <<confirmed, lists, details, mode, shadow, doubts, runs>>

\* The comparator: what the result of the pages selected against what the network's did.
Differences(legacy, v2) ==
    LET Link(r, t) == {c.id : c \in {d \in r.candidates : d.tier = t}}
        Kind(t) ==
            CASE v2.missing[t] = "AMBIGUOUS" -> "AMBIGUOUS"
              [] t \in legacy.selected \ v2.selected -> "LEGACY_FOUND_V2_MISSING"
              [] t \in v2.selected \ legacy.selected -> "LEGACY_MISSING_V2_FOUND"
              [] t \in v2.selected \cap legacy.selected /\ Link(legacy, t) # Link(v2, t) -> "URL_MISMATCH"
              [] OTHER -> "NONE"
    IN  {<<t, Kind(t)>> : t \in {u \in AllTypes : Kind(u) # "NONE"}}

Compare ==
    /\ stage = "compare"
    /\ shadow' = Differences([candidates |-> candidates, selected |-> selected], NetworkResult)
    /\ stage' = "freeze"
    /\ UNCHANGED <<platform, mode, index, result, outcome, doubts, runs>>

-----------------------------------------------------------------------------
(* Validation and freezing                                                 *)

Missing == {t \in AllTypes : missing[t] # NoReason}

\* The chain expects what a provider selected or missed, the pages also what they found.
ExpectedTypes ==
    Missing \cup IF mode = "V2" THEN selected ELSE {c.tier : c \in candidates}

Typed(t) == {c \in candidates : c.tier = t}

\* Mutant: trusts the providers' names.
InvalidUrl(c) == IF Of(c).url = "ok" THEN NoReason ELSE "INVALID_URL"

\* The validator's reason to refuse a candidate; its task and platform are the run's.
InvalidReason(c) ==
    CASE ~SameNormalized(c.name) -> "DRAMA_IDENTITY_MISMATCH"
      [] Of(c).url # "ok" -> "INVALID_URL"
      [] OTHER -> NoReason

Validated ==
    {t \in ExpectedTypes : Single(Typed(t)) /\ \A c \in Typed(t) : InvalidReason(c) = NoReason}

DetermineStatus(several, links) ==
    LET frozen == {t \in AllTypes : links[t] # NoPromotion}
        complete == frozen = ExpectedTypes
    IN  CASE several -> "MANUAL_REVIEW"
          [] frozen = {} /\ ~complete -> IF candidates # {} THEN "MANUAL_REVIEW" ELSE "FAILED"
          [] ExpectedTypes = {} -> "FAILED"
          [] complete -> "READY"
          [] OTHER -> "PARTIAL"

Freeze ==
    /\ stage = "freeze"
    /\ LET several == \E t \in ExpectedTypes : Several(Typed(t))
           links == [t \in AllTypes |-> IF t \in Validated THEN (CHOOSE c \in Typed(t) : TRUE).id
                                        ELSE NoPromotion]
       IN  End([status |-> DetermineStatus(several, links), links |-> links])
    /\ UNCHANGED <<platform, mode, shadow, doubts, runs>>

-----------------------------------------------------------------------------
(* The platform                                                            *)

\* Somebody creates a promotion, where it can make a difference to what is read next.
PersonCreates ==
    /\ stage \in {"requery", "dom"} \/ (stage = "idle" /\ runs < MaxRuns)
    /\ Len(promotions) < MaxPromotions
    /\ \E p \in Promotions : promotions' = Append(promotions, p)
    /\ UNCHANGED <<confirmed, lists, details, stage, mode, index, result, shadow, outcome, doubts, runs>>

\* The page the listener is attached to receives a list of promotions, or one's detail.
OnResponse ==
    /\ stage \in {"network", "compare"} \/ (stage = "idle" /\ runs < MaxRuns)
    /\ Visible # {} /\ Len(lists) + Cardinality(details) < MaxCaptures
    /\ \/ lists' = Append(lists, Visible) /\ UNCHANGED details
       \/ /\ \E i \in Visible \ details : details' = details \cup {i}
          /\ UNCHANGED lists
    /\ UNCHANGED <<promotions, confirmed, stage, mode, index, result, shadow, outcome, doubts, runs>>

Run ==
    \/ \E m \in {"LEGACY", "SHADOW", "V2"}, withApi \in BOOLEAN : Start(m, withApi)
    \/ Query \/ CreatePromotion \/ Requery \/ ApiRaises
    \/ ReadNetwork \/ ReadPages \/ PagesRaise \/ Compare \/ Freeze

Next == Run \/ PersonCreates \/ OnResponse

Spec == Init /\ [][Next]_vars
-----------------------------------------------------------------------------
(* Properties                                                              *)

Reasons == {NoReason, "AMBIGUOUS", "UNCERTAIN", "FAILED"}

Stages == {"idle", "query", "create", "requery", "network", "dom", "compare", "freeze"}

Assets == [provider : {"API", "NETWORK", "DOM"}, id : DOMAIN promotions, copy : Nat,
           tier : AllTypes, name : {"same", "spaced", "suffixed", "other"}]

PlatformTypes ==
    /\ promotions \in Seq(Promotion) /\ confirmed \in BOOLEAN
    /\ lists \in Seq(SUBSET DOMAIN promotions) /\ details \subseteq DOMAIN promotions

RunTypes ==
    /\ stage \in Stages /\ mode \in {"LEGACY", "SHADOW", "V2"} /\ index \in DOMAIN Tiers
    /\ runs \in 0 .. MaxRuns

ResultTypes ==
    /\ candidates \subseteq Assets /\ selected \subseteq AllTypes
    /\ missing \in [AllTypes -> Reasons]
    /\ doubts \subseteq AllTypes \X (Reasons \cup {"SEVERAL"})

\* Every variable holds a value of its kind.
TypeOK == PlatformTypes /\ RunTypes /\ ResultTypes /\ outcome.links \in [AllTypes -> Nat]

Frozen == {t \in AllTypes : outcome.links[t] # NoPromotion}

\* Whatever provider supplied it, a frozen link is of a promotion the platform has for that
\* tier, with a valid URL, and shown by the task's name or without one.
FrozenIsOurs ==
    \A t \in Frozen :
        /\ outcome.links[t] \in DOMAIN promotions
        /\ LET p == promotions[outcome.links[t]]
           IN  p.tier = t /\ p.url = "ok" /\ (SameNormalized(p.name) \/ p.name = "blank")

\* A tier the network provider saw several promotions for is not frozen by what a later provider
\* finds: it goes to a person.
SeveralNeverFrozen ==
    \A t \in Frozen : <<t, "SEVERAL">> \notin doubts

\* A run that ends READY has settled every doubt of its providers: the tier is frozen.
ReadySettlesDoubts ==
    outcome.status = "READY" => \A d \in doubts : d[1] \in Frozen

\* Through answers that get lost, exceptions, the next providers and later runs, the program
\* creates at most one promotion of a tier, if a new one is missing from one query at most.
CreatedOnce ==
    \A i, j \in DOMAIN promotions :
        /\ promotions[i].by = "program" /\ promotions[j].by = "program"
        /\ promotions[i].tier = promotions[j].tier
        => i = j

-----------------------------------------------------------------------------
(* What the documentation says and the code does not keep (see the README) *)

\* A candidate of the network provider whose name matches only loosely is not frozen
\* (network_provider.py:11).
FuzzyNeverFrozen ==
    [][stage = "freeze" =>
          \A c \in candidates : c.provider = "NETWORK" /\ ~NamesMatchExact(c.name)
                                  => outcome'.links[c.tier] # c.id]_vars

\* What the pages found is used when no provider before selected the tier
\* (fallback_chain.py:6-8).
FoundIsUsed ==
    [][stage = "freeze" =>
          \A c \in candidates : c.provider = "DOM" => c.tier \in ExpectedTypes]_vars

\* Different links of one tier make the comparison fail (shadow_comparator.py:6).
ShadowSeesMismatch ==
    [][stage = "compare" =>
          \A c \in candidates, d \in NetworkResult.candidates :
              c.tier = d.tier /\ c.tier \in NetworkResult.selected /\ c.id # d.id
              => <<c.tier, "URL_MISMATCH">> \in shadow']_vars

=============================================================================
