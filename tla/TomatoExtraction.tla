-------------------------- MODULE TomatoExtraction --------------------------
(***************************************************************************)
(* The extraction of one drama's promotion links from the Tomato site, as  *)
(* LegacyDomProvider.acquire and LinkAcquisitionService run it: count the   *)
(* episodes, get the free (IAA) link, scan the priced templates and get one *)
(* link per tier (IAP), reusing what the site's list of links already has.  *)
(*                                                                         *)
(* The site is external: a link is its row in that list.  Any step can fail *)
(* or be cut off; the links generated so far stay on the site.              *)
(***************************************************************************)
EXTENDS Integers, Sequences, FiniteSets

CONSTANTS
    Catalogue,      \* dramas of the site: [name, minute, shown]
    Due,            \* the task's time, in minutes
    OldRows,        \* rows that the list may hold from the start
    MaxOldRows,     \* bound on their number
    Template,       \* the titles of the priced templates
    PriceOf,        \* their prices, in tenths of a yuan
    Counts,         \* episode counts the page may show
    RuleRange,      \* the price rule of each tier: <<lowest, highest>>
    NoDrama,
    MaxRuns         \* bound on extractions

Tiers == {29, 99}
IAA == 1
Types == {IAA} \cup Tiers
NoUrl == 0
BadUrl == -1    \* something was read, but it is no aweme:// link
EpisodeThreshold == 50
ScanTries == 3
FallbackTries == 2

Names == {"same", "similar", "other"}
Drama == [name : Names, minute : Int, shown : BOOLEAN]

\* A row of the list: whose it is and what its text gives away.  marked is the
\* start episode it names, digits the episodes e for which "e集" occurs in it,
\* even inside a larger number; tier is the price class of its detail (0: none).
Row == [url : Nat, name : Names, entry : {"FREE", "PAID"}, marked : {0, 1, 2},
        digits : SUBSET {1, 2}, title : Template \cup {""}, tier : Tiers \cup {0},
        drama : Catalogue \cup {NoDrama}]

ASSUME TomatoAssumption ==
    /\ Catalogue \subseteq Drama /\ NoDrama \notin Catalogue /\ Due \in Int
    /\ OldRows \subseteq [name : Names, entry : {"FREE", "PAID"}, marked : {0, 1, 2},
                          digits : SUBSET {1, 2}, title : Template \cup {""},
                          tier : Tiers \cup {0}]
    /\ "" \notin Template /\ PriceOf \in [Template -> Nat] /\ Counts \subseteq Nat
    /\ RuleRange \in [Tiers -> Nat \X Nat]
    /\ MaxOldRows \in Nat /\ MaxRuns \in Nat

VARIABLES
    rows,       \* the site's list of links, in its order
    app,        \* the app that the account is switched to
    confirmed,  \* the candidate an operator has confirmed, if any
    tomato,     \* the adapter's caches
    run,        \* the extraction in progress
    frozen,     \* the links that the last extraction handed to the task
    runs

TEvars == <<rows, app, confirmed, tomato, run, frozen, runs>>

NewAdapter == [context |-> "", cache |-> <<>>, listed |-> <<>>, claimed |-> {}]
NoTemplate == [title |-> "", price |-> 0, order |-> 0]

NoRun == [pc |-> "idle", episode |-> 1, links |-> [y \in Types |-> NoUrl],
          failed |-> {}, existing |-> {}, best |-> [p \in Tiers |-> NoTemplate], tries |-> 0]

Numbered(s) == [i \in DOMAIN s |->
    [url |-> i, name |-> s[i].name, entry |-> s[i].entry, marked |-> s[i].marked,
     digits |-> s[i].digits, title |-> s[i].title, tier |-> s[i].tier, drama |-> NoDrama]]

TEInit ==
    /\ \E n \in 0 .. MaxOldRows : \E s \in [1 .. n -> OldRows] : rows = Numbered(s)
    /\ app = ""
    /\ confirmed \in {[drama |-> NoDrama, minute |-> 0]} \cup
           {[drama |-> d, minute |-> IF d.shown THEN d.minute ELSE Due] :
              d \in {c \in Catalogue : c.name = "same"}}
    /\ tomato = NewAdapter
    /\ run = NoRun
    /\ frozen = [y \in Types |-> NoUrl]
    /\ runs = 0

-----------------------------------------------------------------------------
(* Choosing the drama.                                                      *)

Near(m) == m - Due \in -5 .. 5

Distance(m) == IF m >= Due THEN m - Due ELSE Due - m

\* minute says what a candidate's time reads.  The set of possible choices: none
\* when the match is not unique.
MatchUniqueDrama(candidates, minute) ==
    LET same    == {c \in candidates : c.name = "same"}
        similar == {c \in candidates : c.name = "similar"}
        exact(S) == {c \in S : minute[c] = Due}
        near(S)  == {c \in S : Near(minute[c])}
        one(S)   == \E c \in S : S = {c}
    IN IF one(exact(same)) THEN exact(same)
       ELSE IF near(same) # {}
       THEN {c \in near(same) : near(same) = {c}}
       ELSE IF one(exact(similar)) THEN exact(similar)
       ELSE {c \in near(similar) :
               \A d \in near(similar) : Distance(minute[c]) <= Distance(minute[d])}

\* A time that reads "-" is taken for the one expected.
ListedMinute == [c \in Catalogue |-> IF c.shown THEN c.minute ELSE Due]

MatchConfirmed(candidates, minute) ==
    {c \in candidates : /\ c = confirmed.drama /\ c.name = "same"
                        /\ minute[c] = confirmed.minute}

Match(candidates, minute) ==
    IF confirmed.drama # NoDrama THEN MatchConfirmed(candidates, minute)
    ELSE MatchUniqueDrama(candidates, minute)

\* The search may leave dramas out.
Candidates == SUBSET {c \in Catalogue : c.name # "other"}

\* The detail page shows the expected name and the true time.
DetailMinute == [c \in Catalogue |-> c.minute]
DetailAgrees(c) == c.name = "same" /\ Match({c}, DetailMinute) # {}

\* Mutant: the detail page is not looked at again.
SelectWithoutDetail == UNION {Match(C, ListedMinute) : C \in Candidates}

SelectAndVerify == {c \in UNION {Match(C, ListedMinute) : C \in Candidates} : DetailAgrees(c)}

\* The adapter remembers the context it has switched to.
EnsureContext(entry) == IF tomato.context = entry THEN app ELSE entry

-----------------------------------------------------------------------------
(* The list of links.                                                       *)

\* Mutant: the rows of every drama count.
AnyNameMatches(r) == r.name \in Names

DramaNameMatches(r) == r.name # "other"

\* The elements of s at the given places, in their order.
Kept(s, places) ==
    LET F[i \in 0 .. Len(s)] ==
            IF i = 0 THEN <<>> ELSE IF i \in places THEN Append(F[i - 1], s[i]) ELSE F[i - 1]
    IN  F[Len(s)]

First(places) == CHOOSE i \in places : \A j \in places : i <= j

FirstUrl(s, places) == IF places = {} THEN NoUrl ELSE s[First(places)].url

\* A search shows the matching rows, or nothing when they do not load in time.
Searched == {Kept(rows, {i \in DOMAIN rows : DramaNameMatches(rows[i])}), <<>>}

FindIaa(s, episode) == FirstUrl(s, {i \in DOMAIN s : s[i].marked = episode})

FindIap(s, tier) == FirstUrl(s, {i \in DOMAIN s : s[i].tier = tier})

FindExistingEpisode(s, episode) == FirstUrl(s, {i \in DOMAIN s : episode \in s[i].digits})

FindExistingTemplate(s, title) == FirstUrl(s, {i \in DOMAIN s : s[i].title = title})

\* The price class of the amount that a detail names.
ClassifyPrice(p) == IF p - 29 \in -20 .. 20 THEN 29
                    ELSE IF p - 99 \in -20 .. 20 THEN 99 ELSE 0

\* The IAP links that were seen and viewed, as the adapter lists them.
ListIap ==
    {Kept(rows, seen) :
        seen \in SUBSET {i \in DOMAIN rows : DramaNameMatches(rows[i]) /\ rows[i].tier # 0}}

PriceInTargetRange(p, tier) == IF tier = 29 THEN p \in 20 .. 50 ELSE p \in 80 .. 150

\* A link is taken out of the cache by title and page order: a template that
\* was scanned can meet the entry of a listed one.
Cached(t) ==
    LET cache == tomato.cache
        hit == {i \in DOMAIN cache : cache[i].title = t.title /\ cache[i].order = t.order}
        free == {i \in DOMAIN cache : cache[i].url \notin tomato.claimed}
    IN IF hit = {} THEN NoUrl
       ELSE LET url == FirstUrl(cache, hit) IN
            IF url \notin tomato.claimed THEN url ELSE FirstUrl(cache, free)

Uncached(t, url) ==
    Kept(tomato.cache, {i \in DOMAIN tomato.cache :
                           LET c == tomato.cache[i] IN
                           ~(c.title = t.title /\ c.order = t.order) /\ c.url # url})

\* Mutant: a link that another tier has taken is taken again.
FindInListCacheAnyway(tier, title) ==
    LET listed == tomato.listed
    IN FirstUrl(listed, {i \in DOMAIN listed : PriceInTargetRange(listed[i].tier, tier)})

FindInListCache(tier, title) ==
    LET listed == tomato.listed
        left   == {i \in DOMAIN listed : listed[i].url \notin tomato.claimed}
        priced == {i \in left : PriceInTargetRange(listed[i].tier, tier)}
        named  == {i \in left : listed[i].title # "" /\ listed[i].title = title}
    IN FirstUrl(listed, IF priced # {} THEN priced ELSE named)

-----------------------------------------------------------------------------
(* The IAA link.                                                            *)

Start ==
    /\ run.pc = "idle" /\ runs < MaxRuns
    /\ runs' = runs + 1
    /\ run' = [NoRun EXCEPT !.pc = "count"]
    /\ frozen' = [y \in Types |-> NoUrl]
    /\ UNCHANGED <<rows, app, confirmed, tomato>>

Opened(entry) ==
    /\ app' = EnsureContext(entry)
    /\ tomato' = [tomato EXCEPT !.context = entry]

GetEpisodeCount ==
    /\ run.pc = "count"
    /\ SelectAndVerify # {}
    /\ Opened("FREE")
    /\ \E n \in Counts :
          run' = [run EXCEPT !.pc = "list",
                             !.episode = IF n > EpisodeThreshold THEN 2 ELSE 1]
    /\ UNCHANGED <<rows, confirmed, frozen, runs>>

\* Two searches, by start episode and by any mention of it.
ListedIaa(s1, s2) == IF FindIaa(s1, run.episode) # NoUrl THEN FindIaa(s1, run.episode)
                     ELSE FindExistingEpisode(s2, run.episode)

ReuseIaa ==
    /\ run.pc = "list" \/ run.pc = "listAgain"
    /\ \E s1, s2 \in Searched :
          /\ ListedIaa(s1, s2) # NoUrl
          /\ run' = [run EXCEPT !.links[IAA] = ListedIaa(s1, s2), !.pc = "scan", !.tries = 0]
    /\ UNCHANGED <<rows, app, confirmed, tomato, frozen, runs>>

NoIaaListed ==
    /\ run.pc = "list"
    /\ \E s1, s2 \in Searched : ListedIaa(s1, s2) = NoUrl
    /\ run' = [run EXCEPT !.pc = "iaa"]
    /\ UNCHANGED <<rows, app, confirmed, tomato, frozen, runs>>

NewUrl == Len(rows) + 1

\* same: the links that would be repeated.
Offered(d, entry, same) ==
    ~\E i \in same : rows[i].drama = d /\ rows[i].entry = entry

\* The new row appears at the top of the list or at its end.
Listed(r) == rows' = <<r>> \o rows \/ rows' = Append(rows, r)

\* The link was generated; the page, its input or the clipboard may show it.
Read == {NewUrl, NoUrl, BadUrl}

GenerateIaa ==
    /\ run.pc = "iaa"
    /\ \E d \in SelectAndVerify, url \in Read :
          /\ Offered(d, "FREE", {i \in DOMAIN rows : rows[i].marked = run.episode})
          /\ Opened("FREE")
          /\ Listed([url |-> NewUrl, name |-> d.name, entry |-> app',
                     marked |-> run.episode, digits |-> {run.episode}, title |-> "",
                     tier |-> 0, drama |-> d])
          /\ run' = [run EXCEPT !.links[IAA] = url, !.pc = "scan"]
    /\ UNCHANGED <<confirmed, frozen, runs>>

\* The episode's option is disabled, missing, or the options did not load.
IaaRefused ==
    /\ run.pc = "iaa"
    /\ SelectAndVerify # {} /\ Opened("FREE")
    /\ run' = [run EXCEPT !.pc = "listAgain"]
    /\ UNCHANGED <<rows, confirmed, frozen, runs>>

IaaStillUnlisted ==
    /\ run.pc = "listAgain" /\ run.tries < FallbackTries - 1
    /\ \E s1, s2 \in Searched : ListedIaa(s1, s2) = NoUrl
    /\ run' = [run EXCEPT !.tries = @ + 1]
    /\ UNCHANGED <<rows, app, confirmed, tomato, frozen, runs>>

\* Each extraction has an adapter of its own.
EndRun == run' = NoRun /\ tomato' = NewAdapter

\* Whatever goes wrong before there is an IAA link ends the extraction.
Raise ==
    /\ run.pc \in {"count", "list", "iaa", "listAgain"}
    /\ EndRun
    /\ UNCHANGED <<rows, app, confirmed, frozen, runs>>

-----------------------------------------------------------------------------
(* The IAP links.                                                           *)

InTier(S, tier) == \E t \in S : PriceInTargetRange(t.price, tier)

InRangeTemplates(S, tier) == {t \in S : t.price \in RuleRange[tier][1] .. RuleRange[tier][2]}

Closer(s, t, tier) ==
    LET off(p) == IF p >= tier THEN p - tier ELSE tier - p IN
    \/ off(s.price) < off(t.price)
    \/ off(s.price) = off(t.price) /\ s.price > t.price
    \/ s.price = t.price /\ s.order < t.order

PickBest(S, tier) ==
    IF S = {} THEN {NoTemplate} ELSE {t \in S : \A s \in S : ~Closer(s, t, tier)}

\* scan_iap picks a template for each tier before it generates any link.
PickTemplates(S) ==
    \E low \in PickBest(InRangeTemplates(S, 29), 29), high \in PickBest(InRangeTemplates(S, 99), 99) :
       run' = [run EXCEPT !.best = [p \in Tiers |-> IF p = 29 THEN low ELSE high],
                          !.existing = {}, !.pc = "29", !.tries = 0]

\* The claims are forgotten with the caches.
SearchExistingIap ==
    /\ run.pc = "scan"
    /\ \E s \in ListIap :
          LET order(i) == [title |-> s[i].title, order |-> i, url |-> s[i].url]
              known == {[title |-> s[i].title, price |-> s[i].tier, order |-> i] : i \in DOMAIN s}
          IN /\ tomato' = [tomato EXCEPT !.claimed = {}, !.listed = s,
                                         !.cache = [i \in DOMAIN s |-> order(i)]]
             /\ IF InTier(known, 29) /\ InTier(known, 99)
                THEN PickTemplates(known)
                ELSE run' = [run EXCEPT !.pc = "paid", !.existing = known]
    /\ UNCHANGED <<rows, app, confirmed, frozen, runs>>

\* The paid app cannot be opened: what the list gave has to do.
NoPaidContext ==
    /\ run.pc = "paid"
    /\ PickTemplates(run.existing)
    /\ UNCHANGED <<rows, app, confirmed, tomato, frozen, runs>>

\* The page's templates in any order; some may be left out, or their prices not shown.
PageOrders ==
    UNION {{s \in [1 .. n -> Template] : \A i, j \in 1 .. n : s[i] = s[j] => i = j} :
              n \in 0 .. Cardinality(Template)}

ScanTemplates ==
    {{[title |-> s[i], price |-> IF read THEN PriceOf[s[i]] ELSE 0, order |-> i] : i \in DOMAIN s} :
        s \in PageOrders, read \in BOOLEAN}

MergeTemplates(found) ==
    IF \A t \in found : t.price = 0 THEN run.existing
    ELSE run.existing \cup {t \in found : \A e \in run.existing : e.price # t.price}

ScanIapTemplates ==
    /\ run.pc = "paid"
    /\ SelectAndVerify # {}
    /\ Opened("PAID")
    /\ \E found \in ScanTemplates : PickTemplates(MergeTemplates(found))
    /\ UNCHANGED <<rows, confirmed, frozen, runs>>

\* Mutant: the attempts are not counted.
RetryScanForever ==
    /\ run.pc = "paid"
    /\ run' = [run EXCEPT !.pc = "scan"]
    /\ UNCHANGED <<rows, app, confirmed, tomato, frozen, runs>>

RetryScan ==
    /\ run.pc = "paid" /\ run.tries < ScanTries - 1
    /\ run' = [run EXCEPT !.pc = "scan", !.tries = @ + 1]
    /\ UNCHANGED <<rows, app, confirmed, tomato, frozen, runs>>

\* The last attempt failed, or the session has expired.
ScanFails ==
    /\ run.pc = "paid"
    /\ run' = [run EXCEPT !.failed = @ \cup {"IAP"}, !.pc = "report"]
    /\ UNCHANGED <<rows, app, confirmed, tomato, frozen, runs>>

Tier == IF run.pc \in {"29", "29again"} THEN 29 ELSE 99
AtTier == run.pc \in {"29", "99"}
Best == run.best[Tier]
AfterTier == IF Tier = 29 THEN "99" ELSE "report"

GotIap(url) == run' = [run EXCEPT !.links[Tier] = url, !.pc = AfterTier, !.tries = 0]

Claimed(url) == [tomato EXCEPT !.claimed = @ \cup {url}, !.cache = Uncached(Best, NoUrl)]

SkipTier ==
    /\ AtTier /\ Best = NoTemplate
    /\ GotIap(NoUrl)
    /\ UNCHANGED <<rows, app, confirmed, tomato, frozen, runs>>

IapFromCache ==
    /\ AtTier /\ Best # NoTemplate /\ Cached(Best) # NoUrl
    /\ tomato' = [tomato EXCEPT !.claimed = @ \cup {Cached(Best)},
                                !.cache = Uncached(Best, Cached(Best))]
    /\ GotIap(Cached(Best))
    /\ UNCHANGED <<rows, app, confirmed, frozen, runs>>

Uncacheable == AtTier /\ Best # NoTemplate /\ Cached(Best) = NoUrl

IapFromList ==
    LET url == FindInListCache(Tier, Best.title) IN
    /\ Uncacheable /\ url # NoUrl
    /\ tomato' = Claimed(url)
    /\ GotIap(url)
    /\ UNCHANGED <<rows, app, confirmed, frozen, runs>>

MustAskSite == Uncacheable /\ FindInListCache(Tier, Best.title) = NoUrl

ListedIap(s1, s2) == IF FindIap(s1, Tier) # NoUrl THEN FindIap(s1, Tier)
                     ELSE FindExistingTemplate(s2, Best.title)

IapFromSite ==
    /\ MustAskSite /\ SelectAndVerify # {}
    /\ \E s1, s2 \in Searched :
          LET url == ListedIap(s1, s2) IN
          /\ url # NoUrl /\ url \notin tomato.claimed
          /\ tomato' = [Claimed(url) EXCEPT !.context = "PAID"]
          /\ GotIap(url)
    /\ app' = EnsureContext("PAID")
    /\ UNCHANGED <<rows, confirmed, frozen, runs>>

\* Nothing listed, or another tier has it: the drama is selected again.
GenerateIap ==
    /\ MustAskSite
    /\ \E s1, s2 \in Searched :
          ListedIap(s1, s2) = NoUrl \/ ListedIap(s1, s2) \in tomato.claimed
    /\ \E d \in SelectAndVerify, url \in Read :
          /\ Offered(d, "PAID", {i \in DOMAIN rows : rows[i].title = Best.title})
          /\ app' = EnsureContext("PAID")
          /\ tomato' = [Claimed(url) EXCEPT !.context = "PAID"]
          /\ Listed([url |-> NewUrl, name |-> d.name, entry |-> app',
                     marked |-> 0, digits |-> {}, title |-> Best.title,
                     tier |-> ClassifyPrice(Best.price), drama |-> d])
          /\ GotIap(url)
    /\ UNCHANGED <<confirmed, frozen, runs>>

\* The template's option is disabled, missing, or the options did not load.
IapRefused ==
    /\ MustAskSite
    /\ \E s1, s2 \in Searched :
          ListedIap(s1, s2) = NoUrl \/ ListedIap(s1, s2) \in tomato.claimed
    /\ SelectAndVerify # {} /\ app' = EnsureContext("PAID")
    /\ tomato' = [tomato EXCEPT !.context = "PAID", !.cache = Uncached(Best, NoUrl)]
    /\ run' = [run EXCEPT !.pc = IF Tier = 29 THEN "29again" ELSE "99again", !.tries = 0]
    /\ UNCHANGED <<rows, confirmed, frozen, runs>>

AtTierAgain == run.pc \in {"29again", "99again"}

\* A link of the tier; failing that, any link of the list that no tier has.
FallbackIap(s1, s2) ==
    LET url == FindIap(s1, Tier)
    IN IF url = NoUrl THEN FirstUrl(s2, {i \in DOMAIN s2 : s2[i].url \notin tomato.claimed})
       ELSE IF url \in tomato.claimed THEN NoUrl ELSE url

IapFromFallback ==
    /\ AtTierAgain
    /\ \E s1, s2 \in Searched :
          LET url == FallbackIap(s1, s2) IN
          /\ url # NoUrl
          /\ tomato' = [tomato EXCEPT !.claimed = @ \cup {url}]
          /\ GotIap(url)
    /\ UNCHANGED <<rows, app, confirmed, frozen, runs>>

IapStillUnlisted ==
    /\ AtTierAgain /\ run.tries < FallbackTries - 1
    /\ \E s1, s2 \in Searched : FallbackIap(s1, s2) = NoUrl
    /\ run' = [run EXCEPT !.tries = @ + 1]
    /\ UNCHANGED <<rows, app, confirmed, tomato, frozen, runs>>

\* A tier that fails does not stop the other.
TierFails ==
    /\ AtTier \/ AtTierAgain
    /\ AtTier => MustAskSite
    /\ tomato' = [tomato EXCEPT !.cache = Uncached(Best, NoUrl)]
    /\ run' = [run EXCEPT !.failed = @ \cup {IF Tier = 29 THEN "29" ELSE "99"}, !.pc = AfterTier, !.tries = 0]
    /\ UNCHANGED <<rows, app, confirmed, frozen, runs>>

-----------------------------------------------------------------------------
\* What is expected: IAA, the tiers that have a link, and those that failed.
ExpectedTypes == {y \in Types : y = IAA \/ run.links[y] # NoUrl}

ValidUrl(url) == url \notin {NoUrl, BadUrl}

\* The candidates are unique per type, so those with a valid URL are selected.
Selected == {y \in ExpectedTypes : ValidUrl(run.links[y])}

\* Only selected links are frozen; a type without one is left out.
BuildLinkSnapshot ==
    /\ run.pc = "report"
    /\ frozen' = [y \in Types |-> IF y \in Selected THEN run.links[y] ELSE NoUrl]
    /\ EndRun
    /\ UNCHANGED <<rows, app, confirmed, runs>>

CutOff ==
    /\ run.pc # "idle"
    /\ EndRun
    /\ UNCHANGED <<rows, app, confirmed, frozen, runs>>

ExtractNext ==
    \/ GetEpisodeCount \/ ReuseIaa \/ NoIaaListed \/ GenerateIaa \/ IaaRefused
    \/ IaaStillUnlisted \/ Raise
    \/ SearchExistingIap \/ NoPaidContext \/ ScanIapTemplates \/ RetryScan \/ ScanFails
    \/ SkipTier \/ IapFromCache \/ IapFromList \/ IapFromSite \/ GenerateIap
    \/ IapRefused \/ IapFromFallback \/ IapStillUnlisted \/ TierFails
    \/ BuildLinkSnapshot

TENext == Start \/ ExtractNext \/ CutOff

TESpec == TEInit /\ [][TENext]_TEvars

\* Every page operation has a timeout, so a step that was begun ends.
TEFairSpec == TESpec /\ WF_TEvars(ExtractNext)

-----------------------------------------------------------------------------
(* Properties.                                                              *)

Pcs == {"idle", "count", "list", "iaa", "listAgain", "scan", "paid", "29", "99",
        "29again", "99again", "report"}

\* Every variable holds a value of its kind, and the caches only known links.
TETypeOK ==
    /\ \A i \in DOMAIN rows : rows[i] \in Row /\ rows[i].url \in 1 .. Len(rows)
    /\ app \in {"", "FREE", "PAID"} 
    /\ run.pc \in Pcs /\ run.tries \in 0 .. ScanTries - 1
    /\ run.failed \subseteq {"IAP", "29", "99"}
    /\ run.links \in [Types -> BadUrl .. Len(rows)] /\ frozen \in [Types -> 0 .. Len(rows)]
    /\ tomato.claimed \subseteq BadUrl .. Len(rows)
    /\ runs \in 0 .. MaxRuns

\* The two tiers never get the same link, over the two caches, the list, the
\* generation and both fallbacks (tomato_adapter.py:326-465).
TiersDoNotShare ==
    \A ls \in {run.links, frozen} : ValidUrl(ls[29]) => ls[29] # ls[99]

RowOf(url) == rows[CHOOSE i \in DOMAIN rows : rows[i].url = url]

\* A link that is frozen is one of a drama whose name contains the task's or is
\* contained in it, whichever of the eight ways it was obtained
\* (promotion_link_list.py:13-28).
FrozenLinksMatchTheName ==
    \A y \in Types : frozen[y] # NoUrl => RowOf(frozen[y]).name # "other"

\* A link that the program generates is one of the drama itself, at the right time
\* or confirmed, and of the right app: the list's "-" times, the similar names, the
\* cached context and the navigation in between never lead it elsewhere
\* (drama_selection.py:51-82, tomato_adapter.py:474-484).
GeneratesForTheDrama ==
    \A i \in DOMAIN rows :
        LET r == rows[i] IN
        r.drama # NoDrama =>
            /\ r.drama.name = "same"
            /\ IF confirmed.drama # NoDrama
               THEN r.drama = confirmed.drama /\ r.drama.minute = confirmed.minute
               ELSE Near(r.drama.minute)
            /\ r.entry = IF r.marked = 0 THEN "PAID" ELSE "FREE"

\* Every extraction ends, in spite of its retries.
ExtractionEnds == (run.pc # "idle") ~> (run.pc = "idle")

\* What promotion_link_list.py:60 promises ("从前往后命中第一条 IAA 链接"): the link
\* frozen as the IAA link is one of the free app.
IaaIsFreeLink == frozen[IAA] # NoUrl => RowOf(frozen[IAA]).entry = "FREE"
=============================================================================
