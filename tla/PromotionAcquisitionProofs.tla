--------------------- MODULE PromotionAcquisitionProofs ---------------------
(***************************************************************************)
(* Theorems about PromotionAcquisition, for any promotions people create,  *)
(* any price rules and any number of runs, captures and promotions.        *)
(***************************************************************************)
EXTENDS PromotionAcquisition, SequenceTheorems, NaturalsInduction, WellFoundedInduction, TLAPS

-----------------------------------------------------------------------------
(* The inductive invariant.                                                 *)

\* What the program created has the task's name, and is what people's promotions are:
\* taken for one of its tier.
PromotionsSound ==
    \A i \in DOMAIN promotions :
        /\ ShowsItsTier(promotions[i])
        /\ promotions[i].by = "program" => promotions[i].name = "same"

\* What the program created is shown, but for the promotion it has just created; and it
\* creates one of a tier only if there is none yet.
CreationsSound ==
    /\ stage # "requery" => \A i \in DOMAIN promotions :
                               promotions[i].by = "program" => promotions[i].seen
    /\ stage = "create" => \A i \in DOMAIN promotions :
                               promotions[i].by = "program" => promotions[i].tier # Tiers[index]

PlatformInv == PlatformTypes /\ PromotionsSound /\ CreationsSound /\ CreatedOnce

\* A candidate is of a promotion of its tier, and named as the promotion is.
Backed(c) ==
    /\ Of(c).tier = c.tier
    /\ SameNormalized(c.name) => SameNormalized(Of(c).name) \/ Of(c).name = "blank"

\* What the providers of a run had doubts about is missing, and what they saw several of has
\* several candidates.
DoubtsKept ==
    \A d \in doubts : /\ missing[d[1]] # NoReason
                      /\ d[2] = "SEVERAL" => Several(Typed(d[1]))

ResultInv ==
    /\ ResultTypes /\ \A c \in candidates : Backed(c)
    /\ stage # "idle" => DoubtsKept

\* A run that goes on has not frozen anything.
OutcomeInv ==
    /\ stage # "idle" => outcome = NoOutcome
    /\ outcome.links \in [AllTypes -> Nat]
    /\ FrozenIsOurs /\ SeveralNeverFrozen /\ ReadySettlesDoubts

IInv == RunTypes /\ PlatformInv /\ ResultInv /\ OutcomeInv

-----------------------------------------------------------------------------
(* Tiers, least elements and sequences                                      *)

LEMMA TiersAre ==
    /\ DOMAIN Tiers = 1 .. 3 /\ Len(Tiers) = 3 /\ AllTypes = {"IAA", "2.9", "9.9"}
    /\ \A n \in 1 .. 3 : Tiers[n] \in AllTypes
BY DEF Tiers, AllTypes, Range

LEMMA MinIs == \A S \in SUBSET Nat : S # {} => Min(S) \in S
<1> SUFFICES ASSUME NEW S \in SUBSET Nat, S # {}
             PROVE  \E x \in S : \A y \in S : x <= y
  BY DEF Min
<1>1. PICK x \in S : \A y \in S : <<y, x>> \notin OpToRel(<, Nat)
  BY NatLessThanWellFounded, WFMin
<1>2. ASSUME NEW y \in S PROVE x <= y
  <2>1. x \in Nat /\ y \in Nat /\ ~(y < x)
    BY <1>1 DEF OpToRel
  <2> QED  BY <2>1
<1> QED  BY <1>2

\* A sequence that has each element of the set once, and nothing else.
Lists(need, S) ==
    /\ need \in Seq(S)
    /\ \A m, n \in DOMAIN need : need[m] = need[n] => m = n
    /\ \A t \in S : \E n \in DOMAIN need : need[n] = t

LEMMA ListsNone == Lists(<<>>, {})
BY DEF Lists

LEMMA ListsOne == ASSUME NEW x PROVE Lists(<<x>>, {x})
<1>1. DOMAIN <<x>> = {1} /\ <<x>>[1] = x
  OBVIOUS
<1>2. <<x>> \in Seq({x})
  OBVIOUS
<1> QED  BY <1>1, <1>2 DEF Lists

LEMMA ListsTwo == ASSUME NEW x, NEW y, x # y PROVE Lists(<<x, y>>, {x, y})
<1> DEFINE s == <<x, y>>
<1>1. DOMAIN s = {1, 2} /\ s[1] = x /\ s[2] = y
  OBVIOUS
<1>2. s \in Seq({x, y})
  OBVIOUS
<1> HIDE DEF s
<1>3. Lists(s, {x, y})
  BY <1>1, <1>2 DEF Lists
<1> QED  BY <1>3 DEF s

LEMMA ListsThree ==
    ASSUME NEW x, NEW y, NEW z, x # y, y # z, x # z PROVE Lists(<<x, y, z>>, {x, y, z})
<1> DEFINE s == <<x, y, z>>
<1>1. DOMAIN s = {1, 2, 3} /\ s[1] = x /\ s[2] = y /\ s[3] = z
  OBVIOUS
<1>2. s \in Seq({x, y, z})
  OBVIOUS
<1> HIDE DEF s
<1>3. Lists(s, {x, y, z})
  BY <1>1, <1>2 DEF Lists
<1> QED  BY <1>3 DEF s

LEMMA Concat ==
    \A x, y : <<x>> \o <<y>> = <<x, y>>
<1> SUFFICES ASSUME NEW x, NEW y PROVE <<x>> \o <<y>> = <<x, y>>
  OBVIOUS
<1> DEFINE S == {x, y}
<1>1. <<x>> \in Seq(S) /\ <<y>> \in Seq(S) /\ <<x, y>> \in Seq(S)
  OBVIOUS
<1>2. /\ Len(<<x>>) = 1 /\ Len(<<y>>) = 1 /\ Len(<<x, y>>) = 2
      /\ <<x, y>>[1] = x /\ <<x, y>>[2] = y /\ <<x>>[1] = x /\ <<y>>[1] = y
  OBVIOUS
<1>3. /\ <<x>> \o <<y>> \in Seq(S) /\ Len(<<x>> \o <<y>>) = 2
      /\ (<<x>> \o <<y>>)[1] = x /\ (<<x>> \o <<y>>)[2] = y
  BY <1>1, <1>2, ConcatProperties
<1> DEFINE a == <<x>> \o <<y>>  b == <<x, y>>
<1> HIDE DEF a, b, S
<1>4. a \in Seq(S) /\ b \in Seq(S) /\ Len(a) = Len(b) /\ \A i \in 1 .. Len(a) : a[i] = b[i]
  BY <1>1, <1>2, <1>3 DEF a, b
<1>5. a = b
  BY <1>4, SeqEqual
<1> QED  BY <1>5 DEF a, b

LEMMA Concat3 ==
    \A x, y, z : <<x, y>> \o <<z>> = <<x, y, z>>
<1> SUFFICES ASSUME NEW x, NEW y, NEW z PROVE <<x, y>> \o <<z>> = <<x, y, z>>
  OBVIOUS
<1> DEFINE S == {x, y, z}
<1>1. <<x, y>> \in Seq(S) /\ <<z>> \in Seq(S) /\ <<x, y, z>> \in Seq(S)
  OBVIOUS
<1>2. /\ Len(<<x, y>>) = 2 /\ Len(<<z>>) = 1 /\ Len(<<x, y, z>>) = 3
      /\ <<x, y, z>>[1] = x /\ <<x, y, z>>[2] = y /\ <<x, y, z>>[3] = z
      /\ <<x, y>>[1] = x /\ <<x, y>>[2] = y /\ <<z>>[1] = z
  OBVIOUS
<1>3. /\ <<x, y>> \o <<z>> \in Seq(S) /\ Len(<<x, y>> \o <<z>>) = 3
      /\ (<<x, y>> \o <<z>>)[1] = x /\ (<<x, y>> \o <<z>>)[2] = y
      /\ (<<x, y>> \o <<z>>)[3] = z
  BY <1>1, <1>2, ConcatProperties
<1> DEFINE a == <<x, y>> \o <<z>>  b == <<x, y, z>>
<1> HIDE DEF a, b, S
<1>4. a \in Seq(S) /\ b \in Seq(S) /\ Len(a) = Len(b) /\ \A i \in 1 .. Len(a) : a[i] = b[i]
  BY <1>1, <1>2, <1>3 DEF a, b
<1>5. a = b
  BY <1>4, SeqEqual
<1> QED  BY <1>5 DEF a, b

LEMMA InOrderIs == ASSUME NEW S \in SUBSET AllTypes PROVE Lists(InOrder(S), S)
<1> DEFINE a == "IAA" \in S  b == "2.9" \in S  c == "9.9" \in S
<1>1. \A t : t \in S => t = "IAA" \/ t = "2.9" \/ t = "9.9"
  BY TiersAre
<1>2. InOrder(S) = (IF a THEN <<"IAA">> ELSE <<>>) \o (IF b THEN <<"2.9">> ELSE <<>>)
                       \o (IF c THEN <<"9.9">> ELSE <<>>)
  BY DEF InOrder, Tiers
<1>3. CASE a /\ b /\ c
  <2>1. InOrder(S) = (<<"IAA">> \o <<"2.9">>) \o <<"9.9">>
    BY <1>2, <1>3
  <2>2. <<"IAA">> \o <<"2.9">> = <<"IAA", "2.9">>
    BY Concat, Zenon
  <2>3. <<"IAA", "2.9">> \o <<"9.9">> = <<"IAA", "2.9", "9.9">>
    BY Concat3, Zenon
  <2>4. InOrder(S) = <<"IAA", "2.9", "9.9">>
    BY <2>1, <2>2, <2>3, Zenon
  <2>5. S = {"IAA", "2.9", "9.9"}
    BY <1>1, <1>3
  <2>6. Lists(<<"IAA", "2.9", "9.9">>, {"IAA", "2.9", "9.9"})
    BY ListsThree
  <2> QED  BY <2>4, <2>5, <2>6
<1>4. CASE a /\ b /\ ~c
  <2>1. InOrder(S) = <<"IAA", "2.9">>
    BY <1>2, <1>4, Concat, Concat3
  <2>2. S = {"IAA", "2.9"}
    BY <1>1, <1>4
  <2>3. Lists(<<"IAA", "2.9">>, {"IAA", "2.9"})
    BY ListsTwo
  <2> QED  BY <2>1, <2>2, <2>3
<1>5. CASE a /\ ~b /\ c
  <2>1. InOrder(S) = <<"IAA", "9.9">>
    BY <1>2, <1>5, Concat, Concat3
  <2>2. S = {"IAA", "9.9"}
    BY <1>1, <1>5
  <2>3. Lists(<<"IAA", "9.9">>, {"IAA", "9.9"})
    BY ListsTwo
  <2> QED  BY <2>1, <2>2, <2>3
<1>6. CASE a /\ ~b /\ ~c
  <2>1. InOrder(S) = <<"IAA">>
    BY <1>2, <1>6
  <2>2. S = {"IAA"}
    BY <1>1, <1>6
  <2>3. Lists(<<"IAA">>, {"IAA"})
    BY ListsOne
  <2> QED  BY <2>1, <2>2, <2>3
<1>7. CASE ~a /\ b /\ c
  <2>1. InOrder(S) = <<"2.9", "9.9">>
    BY <1>2, <1>7, Concat, Concat3
  <2>2. S = {"2.9", "9.9"}
    BY <1>1, <1>7
  <2>3. Lists(<<"2.9", "9.9">>, {"2.9", "9.9"})
    BY ListsTwo
  <2> QED  BY <2>1, <2>2, <2>3
<1>8. CASE ~a /\ b /\ ~c
  <2>1. InOrder(S) = <<"2.9">>
    BY <1>2, <1>8
  <2>2. S = {"2.9"}
    BY <1>1, <1>8
  <2>3. Lists(<<"2.9">>, {"2.9"})
    BY ListsOne
  <2> QED  BY <2>1, <2>2, <2>3
<1>9. CASE ~a /\ ~b /\ c
  <2>1. InOrder(S) = <<"9.9">>
    BY <1>2, <1>9
  <2>2. S = {"9.9"}
    BY <1>1, <1>9
  <2>3. Lists(<<"9.9">>, {"9.9"})
    BY ListsOne
  <2> QED  BY <2>1, <2>2, <2>3
<1>10. CASE ~a /\ ~b /\ ~c
  <2>1. InOrder(S) = <<>>
    BY <1>2, <1>10
  <2>2. S = {}
    BY <1>1, <1>10
  <2>3. Lists(<<>>, {})
    BY ListsNone
  <2> QED  BY <2>1, <2>2, <2>3
<1> QED  BY <1>3, <1>4, <1>5, <1>6, <1>7, <1>8, <1>9, <1>10

-----------------------------------------------------------------------------
(* The platform's promotions only grow in number, and come to be seen       *)

\* What the properties tell of a promotion is the same of q.
Keeps(p, q) ==
    /\ q.tier = p.tier /\ q.name = p.name /\ q.url = p.url /\ q.by = p.by
    /\ ShowsItsTier(q) <=> ShowsItsTier(p)
    /\ p.seen => q.seen

Extends ==
    /\ promotions' \in Seq(Promotion)
    /\ \A i \in DOMAIN promotions :
           i \in DOMAIN promotions' /\ Keeps(promotions[i], promotions'[i])

LEMMA SameShown ==
    ASSUME NEW p, NEW q,
           q.tier = p.tier, q.name = p.name, q.url = p.url, q.by = p.by,
           q.type = p.type, q.episodes = p.episodes, q.price = p.price,
           q.template = p.template, q.seen = TRUE
    PROVE  Keeps(p, q)
<1>1. ClassifyLinkType(q) = ClassifyLinkType(p)
  BY DEF ClassifyLinkType
<1>2. NormalizeType(q) = NormalizeType(p)
  BY <1>1 DEF NormalizeType
<1> QED  BY <1>2 DEF Keeps, ShowsItsTier

LEMMA SeenKeeps ==
    ASSUME NEW p \in Promotion
    PROVE  LET q == [p EXCEPT !.seen = TRUE] IN q \in Promotion /\ Keeps(p, q) /\ q.seen
<1> DEFINE q == [p EXCEPT !.seen = TRUE]
<1>1. q \in Promotion /\ q.seen = TRUE
  BY DEF Promotion
<1>2. /\ q.tier = p.tier /\ q.name = p.name /\ q.url = p.url /\ q.by = p.by
      /\ q.type = p.type /\ q.episodes = p.episodes /\ q.price = p.price
      /\ q.template = p.template
  BY DEF Promotion
<1> HIDE DEF q
<1>3. Keeps(p, q)
  BY <1>1, <1>2, SameShown
<1> QED  BY <1>1, <1>3 DEF q

LEMMA CatchesUpExtends ==
    ASSUME PlatformTypes, ListingCatchesUp
    PROVE  /\ Extends /\ DOMAIN promotions' = DOMAIN promotions
           /\ \A i \in DOMAIN promotions : promotions'[i].seen
<1>1. promotions \in Seq(Promotion) /\ DOMAIN promotions = 1 .. Len(promotions)
      /\ Len(promotions) \in Nat
  BY DEF PlatformTypes
<1>2. /\ DOMAIN promotions' = DOMAIN promotions
      /\ \A i \in DOMAIN promotions : promotions'[i] = [promotions[i] EXCEPT !.seen = TRUE]
  BY DEF ListingCatchesUp
<1>3. \A i \in DOMAIN promotions :
          promotions'[i] \in Promotion /\ Keeps(promotions[i], promotions'[i]) /\ promotions'[i].seen
  <2> SUFFICES ASSUME NEW i \in DOMAIN promotions
               PROVE  /\ promotions'[i] \in Promotion
                      /\ Keeps(promotions[i], promotions'[i]) /\ promotions'[i].seen
    OBVIOUS
  <2>1. promotions[i] \in Promotion
    BY <1>1
  <2> QED  BY <1>2, <2>1, SeenKeeps
<1>4. promotions' = [i \in 1 .. Len(promotions) |-> promotions'[i]]
  BY <1>1 DEF ListingCatchesUp
<1>5. promotions' \in Seq(Promotion)
  BY <1>1, <1>3, <1>4
<1> QED  BY <1>2, <1>3, <1>5 DEF Extends

LEMMA KeepsSame == \A p \in Promotion : Keeps(p, p)
BY DEF Keeps

LEMMA SameExtends == PlatformTypes /\ UNCHANGED promotions => Extends
<1> SUFFICES ASSUME PlatformTypes, UNCHANGED promotions PROVE Extends
  OBVIOUS
<1>1. promotions \in Seq(Promotion)
  BY DEF PlatformTypes
<1>2. \A i \in DOMAIN promotions : promotions[i] \in Promotion
  BY <1>1
<1> QED  BY <1>1, <1>2, KeepsSame DEF Extends

LEMMA ConcatExtends ==
    ASSUME PlatformTypes, NEW new \in Seq(Promotion), promotions' = promotions \o new
    PROVE  /\ Extends
           /\ Len(promotions') = Len(promotions) + Len(new)
           /\ \A i \in DOMAIN promotions : promotions'[i] = promotions[i]
           /\ \A n \in DOMAIN new : /\ Len(promotions) + n \in DOMAIN promotions'
                                    /\ promotions'[Len(promotions) + n] = new[n]
           /\ \A i \in DOMAIN promotions' \ DOMAIN promotions :
                  \E n \in DOMAIN new : i = Len(promotions) + n
<1>1. promotions \in Seq(Promotion)
  BY DEF PlatformTypes
<1>2. /\ promotions' \in Seq(Promotion)
      /\ Len(promotions') = Len(promotions) + Len(new)
      /\ \A i \in 1 .. Len(promotions) + Len(new) : promotions'[i] =
             IF i <= Len(promotions) THEN promotions[i] ELSE new[i - Len(promotions)]
  BY <1>1, ConcatProperties
<1>3. /\ DOMAIN promotions = 1 .. Len(promotions) /\ DOMAIN new = 1 .. Len(new)
      /\ DOMAIN promotions' = 1 .. Len(promotions')
      /\ Len(promotions) \in Nat /\ Len(new) \in Nat
  BY <1>1, <1>2
<1>4. \A i \in DOMAIN promotions : promotions[i] \in Promotion
  BY <1>1
<1>5. \A i \in DOMAIN promotions : i \in DOMAIN promotions' /\ promotions'[i] = promotions[i]
  BY <1>2, <1>3, Concat, Concat3
<1>6. Extends
  BY <1>2, <1>4, <1>5, KeepsSame DEF Extends
<1>7. \A n \in DOMAIN new : /\ Len(promotions) + n \in DOMAIN promotions'
                            /\ promotions'[Len(promotions) + n] = new[n]
  <2> SUFFICES ASSUME NEW n \in 1 .. Len(new)
               PROVE  /\ Len(promotions) + n \in DOMAIN promotions'
                      /\ promotions'[Len(promotions) + n] = new[n]
    BY <1>3
  <2>1. /\ Len(promotions) + n \in 1 .. Len(promotions) + Len(new)
        /\ ~(Len(promotions) + n <= Len(promotions))
        /\ (Len(promotions) + n) - Len(promotions) = n
    BY <1>3
  <2> QED  BY <1>2, <1>3, <2>1
<1>8. ASSUME NEW i \in DOMAIN promotions' \ DOMAIN promotions
      PROVE  \E n \in DOMAIN new : i = Len(promotions) + n
  <2>1. i - Len(promotions) \in 1 .. Len(new) /\ i = Len(promotions) + (i - Len(promotions))
    BY <1>2, <1>3, Concat, Concat3
  <2> QED  BY <1>3, <2>1
<1> QED  BY <1>2, <1>5, <1>6, <1>7, <1>8

LEMMA OneMoreIsConcat ==
    ASSUME PlatformTypes, NEW p \in Promotion
    PROVE  Append(promotions, p) = promotions \o <<p>>
BY DEF PlatformTypes

LEMMA CreatedIs ==
    ASSUME NEW t \in AllTypes, NEW seen \in BOOLEAN
    PROVE  LET p == Created(t, "program", seen) IN
           /\ p \in Promotion /\ ShowsItsTier(p) /\ p.by = "program" /\ p.name = "same"
           /\ p.tier = t /\ p.seen = seen
<1> DEFINE p == Created(t, "program", seen)  q == Created(t, "program", TRUE)
<1>1. \E templateId, episodes \in BOOLEAN : templateId = (t # "IAA") /\ episodes = (t = "IAA")
  BY Zenon
<1>2. \E type \in {"free", "paid"} : type = IF t = "IAA" THEN "free" ELSE "paid"
  OBVIOUS
<1>3. \E price \in Nat : price = CASE t = "2.9" -> 29 [] t = "9.9" -> 99 [] OTHER -> 0
  OBVIOUS
<1>4. PICK templateId, episodes \in BOOLEAN, type \in {"free", "paid"}, price \in Nat :
          \A s : Created(t, "program", s) =
                 [tier |-> t, name |-> "same", drama |-> "key", id |-> "id",
                  templateId |-> templateId, template |-> "none", type |-> type,
                  episodes |-> episodes, price |-> price, url |-> "ok", by |-> "program",
                  seen |-> s]
  BY <1>1, <1>2, <1>3, ZenonT(60) DEF Created, TaskKey, NoId
<1> DEFINE Item(s) ==
             [tier |-> t, name |-> "same", drama |-> "key", id |-> "id",
              templateId |-> templateId, template |-> "none", type |-> type,
              episodes |-> episodes, price |-> price, url |-> "ok", by |-> "program",
              seen |-> s]
<1>5. p = Item(seen) /\ q = Item(TRUE)
  BY <1>4
<1> HIDE DEF p, q
<1>6. Item(seen) \in Promotion
  BY DEF Promotion, TaskKey, NoId
<1>7. /\ p \in Promotion /\ p.by = "program" /\ p.name = "same" /\ p.tier = t /\ p.seen = seen
  BY <1>5, <1>6
<1>8. /\ q.tier = p.tier /\ q.name = p.name /\ q.url = p.url /\ q.by = p.by
      /\ q.type = p.type /\ q.episodes = p.episodes /\ q.price = p.price
      /\ q.template = p.template /\ q.seen = TRUE
  BY <1>5
<1>9. Keeps(p, q)
  BY <1>8, SameShown
<1>10. ShowsItsTier(p)
  BY <1>9, TiersAreShown DEF Keeps, q
<1> QED  BY <1>7, <1>10 DEF p

-----------------------------------------------------------------------------
(* The matcher and the network provider                                     *)

\* What is found is of the tier, and a decision names one asset.
LEMMA MatchIs ==
    ASSUME NEW C, NEW tier
    PROVE  LET m == Match(C, tier) IN
           /\ m.found \subseteq {c \in C : c.tier = tier}
           /\ m.decided \in BOOLEAN
           /\ m.decided => Single(m.found)
<1> DEFINE D == {c \in C : c.tier = tier}
           levels == Levels(D)
           hits == {l \in DOMAIN levels : levels[l] # {}}
<1>1. /\ ByExternalId(D) \subseteq D /\ ByConfirmed(D) \subseteq D
  BY DEF ByExternalId, BestNameMatch, ByConfirmed
<1>2. DOMAIN levels = 1 .. 6 /\ Len(levels) = 6 /\ \A l \in 1 .. 6 : levels[l] \subseteq D
  <2>1. /\ {c \in D : Of(c).id # NoId} \subseteq D /\ {c \in D : Of(c).templateId} \subseteq D
        /\ {c \in D : NamesMatchExact(c.name)} \subseteq D
        /\ {c \in D : NamesMatchFuzzy(c.name)} \subseteq D
    OBVIOUS
  <2> HIDE DEF D
  <2> QED  BY <1>1, <2>1 DEF Levels
<1> HIDE DEF levels, D
<1>3. CASE hits = {}
  <2>1. Match(C, tier) = [found |-> {}, decided |-> FALSE]
    BY <1>3 DEF Match, levels, D
  <2> QED  BY <2>1
<1>4. CASE hits # {}
  <2>0. hits \in SUBSET Nat
    BY <1>2
  <2>1. Min(hits) \in hits
    <3> HIDE DEF hits
    <3> QED  BY <1>4, <2>0, MinIs
  <2>2. PICK l : l = Min(hits)
    OBVIOUS
  <2>3. Match(C, tier) = [found |-> levels[l],
                          decided |-> Single(levels[l]) /\ l # Len(levels)]
    BY <1>4, <2>2 DEF Match, levels, D
  <2>4. levels[l] \subseteq D
    BY <1>2, <2>1, <2>2
  <2>5. PICK decided \in BOOLEAN : decided = (Single(levels[l]) /\ l # Len(levels))
    BY Zenon
  <2>6. Match(C, tier) = [found |-> levels[l], decided |-> decided]
    BY <2>3, <2>5, Zenon
  <2>7. Match(C, tier).found = levels[l] /\ Match(C, tier).decided = decided
    BY <2>6
  <2>8. levels[l] \subseteq {c \in C : c.tier = tier}
    BY <2>4 DEF D
  <2>9. decided => Single(levels[l])
    BY <2>5
  <2> QED  BY <2>5, <2>7, <2>8, <2>9, Zenon
<1> QED  BY <1>3, <1>4

\* What the network's items say of their promotions.
LEMMA ParsedIs ==
    ASSUME PlatformTypes, PromotionsSound, NEW c \in Parsed, c.tier \in AllTypes
    PROVE  c \in Assets /\ Backed(c)
<1> DEFINE Item(i, copy) ==
               Asset("NETWORK", i, copy, NormalizeType(promotions[i]),
                     IF promotions[i].name = "blank" THEN "same" ELSE promotions[i].name)
<1>1. PICK i \in DOMAIN promotions, copy \in Nat : c = Item(i, copy)
  <2> DEFINE Usable(i) == promotions[i].id # NoId \/ promotions[i].url # NoId
             listed == UNION {{Item(i, n) : i \in {j \in lists[n] : Usable(j)}} : n \in DOMAIN lists}
             known == {d.id : d \in listed}
             detailed == {Item(i, 0) : i \in {j \in details \ known : promotions[j].id # NoId}}
  <2>1. Parsed = listed \cup detailed
    BY DEF Parsed
  <2> HIDE DEF Item
  <2>2. CASE c \in listed
    <3>1. PICK n \in DOMAIN lists : c \in {Item(i, n) : i \in {j \in lists[n] : Usable(j)}}
      BY <2>2
    <3>2. PICK i \in lists[n] : c = Item(i, n)
      BY <3>1
    <3>3. n \in Nat /\ lists[n] \subseteq DOMAIN promotions
      BY DEF PlatformTypes
    <3> QED  BY <3>2, <3>3
  <2>3. CASE c \in detailed
    <3>1. PICK i \in details : c = Item(i, 0)
      BY <2>3
    <3> QED  BY <3>1 DEF PlatformTypes
  <2> QED  BY <2>1, <2>2, <2>3
<1>2. promotions[i] \in Promotion
  BY DEF PlatformTypes
<1>3. /\ c.id = i /\ c.tier = NormalizeType(promotions[i])
      /\ c.name = IF promotions[i].name = "blank" THEN "same" ELSE promotions[i].name
  BY <1>1 DEF Asset
<1>4. c.name \in {"same", "spaced", "suffixed", "other"}
  BY <1>2, <1>3 DEF Promotion
<1>5. c.tier = promotions[i].tier
  BY <1>3 DEF PromotionsSound, ShowsItsTier
<1>6. c = [provider |-> "NETWORK", id |-> i, copy |-> copy, tier |-> c.tier, name |-> c.name]
  BY <1>1, <1>3 DEF Asset
<1>7. c \in Assets
  BY <1>4, <1>6 DEF Assets
<1> QED  BY <1>3, <1>5, <1>7 DEF Backed, Of

\* What a provider hands on: no tier it selects is missing, and a tier it saw several of is.
ProviderSound(r) ==
    /\ r.selected \subseteq AllTypes /\ r.missing \in [AllTypes -> Reasons]
    /\ \A t \in r.selected : r.missing[t] = NoReason
    /\ \A t \in AllTypes : Several({c \in r.candidates : c.tier = t}) => r.missing[t] # NoReason

LEMMA NetworkIs ==
    ASSUME PlatformTypes, PromotionsSound
    PROVE  /\ ProviderSound(NetworkResult)
           /\ \A c \in NetworkResult.candidates : c \in Assets /\ Backed(c)
<1>1. PICK parsed : parsed = Parsed
  OBVIOUS
<1> DEFINE match == [t \in AllTypes |-> Match(parsed, t)]
           matched == {t \in AllTypes : match[t].decided}
           ambiguous == {t \in AllTypes \ matched : match[t].found # {}}
           found == UNION {match[t].found : t \in AllTypes}
           r == NetworkResult
<1>2. /\ r.selected = matched /\ r.candidates = found
      /\ r.missing = [t \in AllTypes |-> IF t \in ambiguous THEN "AMBIGUOUS" ELSE NoReason]
  BY <1>1 DEF NetworkResult
<1>3. \A t \in AllTypes : /\ match[t].found \subseteq {c \in parsed : c.tier = t}
                          /\ match[t].decided => Single(match[t].found)
  BY MatchIs
<1> HIDE DEF match, r
<1>4. \A c \in found : c \in parsed /\ c.tier \in AllTypes
  BY <1>3
<1>5. \A c \in r.candidates : c \in Assets /\ Backed(c)
  BY <1>1, <1>2, <1>4, ParsedIs
<1>6. r.selected \subseteq AllTypes /\ r.missing \in [AllTypes -> Reasons]
  BY <1>2 DEF Reasons
<1>7. \A t \in r.selected : r.missing[t] = NoReason
  BY <1>2
<1>8. ASSUME NEW t \in AllTypes, Several({c \in r.candidates : c.tier = t})
      PROVE  r.missing[t] # NoReason
  <2>1. {c \in r.candidates : c.tier = t} = match[t].found
    BY <1>2, <1>3
  <2>2. ~Single(match[t].found) /\ match[t].found # {}
    BY <1>8, <2>1 DEF Several, Single
  <2>3. t \in ambiguous
    BY <1>3, <2>2
  <2> QED  BY <1>2, <2>3 DEF NoReason
<1> QED  BY <1>5, <1>6, <1>7, <1>8 DEF ProviderSound, r

-----------------------------------------------------------------------------
(* The chain                                                                *)

\* The chain takes a provider's result over without losing a doubt.
LEMMA MergeKeeps ==
    ASSUME ResultTypes, DoubtsKept, NEW r, ProviderSound(r), Merge(r)
    PROVE  /\ candidates' \subseteq candidates \cup r.candidates
           /\ selected' \subseteq AllTypes /\ missing' \in [AllTypes -> Reasons]
           /\ doubts' \subseteq AllTypes \X (Reasons \cup {"SEVERAL"})
           /\ DoubtsKept'
<1>1. /\ candidates' = candidates \cup NotSelected(r) /\ selected' = selected \cup r.selected
      /\ missing' = MissingWith(r) /\ doubts' = doubts \cup DoubtsOf(r)
  BY DEF Merge
<1>2. /\ selected \subseteq AllTypes /\ missing \in [AllTypes -> Reasons]
      /\ doubts \subseteq AllTypes \X (Reasons \cup {"SEVERAL"})
  BY DEF ResultTypes
<1>3. /\ r.selected \subseteq AllTypes /\ r.missing \in [AllTypes -> Reasons]
  BY DEF ProviderSound
<1>4. missing' \in [AllTypes -> Reasons]
  BY <1>1, <1>2, <1>3 DEF MissingWith
<1>5. \A t \in AllTypes :
          /\ missing[t] # NoReason => missing'[t] # NoReason
          /\ t \notin selected /\ r.missing[t] # NoReason => missing'[t] # NoReason
  <2>1. \A t \in AllTypes : missing'[t] = IF missing[t] = NoReason /\ t \notin selected \cup r.selected
                                          THEN r.missing[t] ELSE missing[t]
    BY <1>1 DEF MissingWith
  <2>2. \A t \in r.selected : r.missing[t] = NoReason
    BY DEF ProviderSound
  <2> QED  BY <2>1, <2>2
<1>6. \A t : Several(Typed(t)) => Several(Typed(t))'
  BY <1>1 DEF Typed, Several
<1>7. \A t : t \notin selected /\ Several({c \in r.candidates : c.tier = t}) => Several(Typed(t))'
  BY <1>1 DEF Typed, Several, NotSelected
<1>8. ASSUME NEW d \in DoubtsOf(r)
      PROVE  /\ d \in AllTypes \X (Reasons \cup {"SEVERAL"})
             /\ missing'[d[1]] # NoReason /\ (d[2] = "SEVERAL" => Several(Typed(d[1]))')
  <2> DEFINE S(u) == {c \in r.candidates : c.tier = u}
  <2>1. \/ \E t \in AllTypes \ selected : d = <<t, r.missing[t]>> /\ r.missing[t] # NoReason
        \/ \E t \in AllTypes \ selected : d = <<t, "SEVERAL">> /\ Several(S(t))
    BY <1>8 DEF DoubtsOf
  <2>2. ASSUME NEW t \in AllTypes \ selected, d = <<t, r.missing[t]>>, r.missing[t] # NoReason
        PROVE  /\ d \in AllTypes \X (Reasons \cup {"SEVERAL"})
               /\ missing'[d[1]] # NoReason /\ (d[2] = "SEVERAL" => Several(Typed(d[1]))')
    <3>1. d[1] = t /\ r.missing[t] \in Reasons /\ d[2] = r.missing[t]
      BY <1>3, <2>2
    <3>2. missing'[t] # NoReason
      BY <1>5, <2>2
    <3> QED  BY <2>2, <3>1, <3>2 DEF Reasons, NoReason
  <2>3. ASSUME NEW t \in AllTypes \ selected, d = <<t, "SEVERAL">>, Several(S(t))
        PROVE  /\ d \in AllTypes \X (Reasons \cup {"SEVERAL"})
               /\ missing'[d[1]] # NoReason /\ (d[2] = "SEVERAL" => Several(Typed(d[1]))')
    <3>1. d[1] = t
      BY <2>3
    <3>2. r.missing[t] # NoReason
      BY <2>3 DEF ProviderSound
    <3>3. missing'[t] # NoReason /\ Several(Typed(t))'
      BY <1>5, <1>7, <2>3, <3>2
    <3> QED  BY <2>3, <3>1, <3>3
  <2> QED  BY <2>1, <2>2, <2>3
<1>9. \A d \in doubts : missing'[d[1]] # NoReason /\ (d[2] = "SEVERAL" => Several(Typed(d[1]))')
  <2>1. \A d \in doubts : d[1] \in AllTypes
    BY <1>2
  <2> QED  BY <1>5, <1>6, <2>1 DEF DoubtsKept
<1>10. doubts' \subseteq AllTypes \X (Reasons \cup {"SEVERAL"})
  BY <1>1, <1>2, <1>8
<1>11. DoubtsKept'
  BY <1>1, <1>8, <1>9 DEF DoubtsKept
<1> QED  BY <1>1, <1>2, <1>3, <1>4, <1>10, <1>11 DEF NotSelected

-----------------------------------------------------------------------------
(* What a step keeps                                                        *)

\* A candidate stays one while the platform's promotions grow.
LEMMA BackedKept ==
    ASSUME Extends, NEW c \in Assets, Backed(c)
    PROVE  c \in Assets' /\ Backed(c)'
<1>1. c.id \in DOMAIN promotions
  BY DEF Assets
<1>2. c.id \in DOMAIN promotions' /\ Keeps(promotions[c.id], promotions'[c.id])
  BY <1>1 DEF Extends
<1>3. DOMAIN promotions \subseteq DOMAIN promotions'
  BY DEF Extends
<1>4. Assets \subseteq Assets'
  BY <1>3 DEF Assets
<1> QED  BY <1>2, <1>4 DEF Backed, Of, Keeps

\* The captures refer to promotions still there.
LEMMA CapturesKept ==
    ASSUME PlatformTypes, Extends, UNCHANGED <<confirmed, lists, details>>
    PROVE  PlatformTypes'
<1>1. DOMAIN promotions \subseteq DOMAIN promotions' /\ promotions' \in Seq(Promotion)
  BY DEF Extends
<1>2. lists \in Seq(SUBSET DOMAIN promotions')
  <2>1. lists \in Seq(SUBSET DOMAIN promotions)
    BY DEF PlatformTypes
  <2>2. \A n \in DOMAIN lists : lists[n] \in SUBSET DOMAIN promotions
    BY <2>1
  <2> DEFINE S == SUBSET DOMAIN promotions  T == SUBSET DOMAIN promotions'
  <2>3. S \subseteq T
    BY <1>1
  <2> HIDE DEF S, T
  <2>4. lists \in Seq(S) => lists \in Seq(T)
    BY <2>3
  <2> QED  BY <2>1, <2>4 DEF S, T
<1>3. confirmed' \in BOOLEAN /\ details' \subseteq DOMAIN promotions'
  BY <1>1 DEF PlatformTypes
<1> QED  BY <1>1, <1>2, <1>3 DEF PlatformTypes

\* Nothing changes on the platform.
LEMMA PlatformSame ==
    ASSUME PlatformInv, UNCHANGED platform, stage # "requery", stage' # "create"
    PROVE  PlatformInv'
<1>1. UNCHANGED <<promotions, confirmed, lists, details>>
  BY DEF platform
<1>2. PlatformTypes' /\ PromotionsSound' /\ CreatedOnce'
  BY <1>1 DEF PlatformInv, PlatformTypes, PromotionsSound, CreatedOnce
<1>3. CreationsSound'
  BY <1>1 DEF PlatformInv, CreationsSound
<1> QED  BY <1>2, <1>3 DEF PlatformInv

\* What the program created last is shown.
LEMMA PlatformShown ==
    ASSUME PlatformInv, ListingCatchesUp, UNCHANGED <<confirmed, lists, details>>,
           stage' # "create"
    PROVE  PlatformInv'
<1>1. /\ Extends /\ DOMAIN promotions' = DOMAIN promotions
      /\ \A i \in DOMAIN promotions : promotions'[i].seen
  BY CatchesUpExtends DEF PlatformInv
<1>2. \A i \in DOMAIN promotions : Keeps(promotions[i], promotions'[i])
  BY <1>1 DEF Extends
<1>3. PlatformTypes'
  BY <1>1, CapturesKept DEF PlatformInv
<1>4. PromotionsSound'
  BY <1>1, <1>2 DEF PlatformInv, PromotionsSound, Keeps
<1>5. CreationsSound'
  BY <1>1 DEF CreationsSound
<1>6. CreatedOnce'
  BY <1>1, <1>2 DEF PlatformInv, CreatedOnce, Keeps
<1> QED  BY <1>3, <1>4, <1>5, <1>6 DEF PlatformInv

\* What is added is of its tier; what the program adds has the name of the task, and is the only
\* promotion of its tier the program created.
AddsSound(new) ==
    /\ new \in Seq(Promotion)
    /\ \A n \in DOMAIN new :
           /\ ShowsItsTier(new[n])
           /\ new[n].by = "program" =>
                  /\ new[n].name = "same"
                  /\ \A i \in DOMAIN promotions :
                         promotions[i].by = "program" => promotions[i].tier # new[n].tier
                  /\ \A m \in DOMAIN new :
                         new[m].by = "program" /\ new[m].tier = new[n].tier => m = n

LEMMA PlatformAdds ==
    ASSUME PlatformInv, NEW new, AddsSound(new), promotions' = promotions \o new,
           UNCHANGED <<confirmed, lists, details>>, stage' # "create",
           \/ stage' = "requery"
           \/ stage # "requery" /\ \A n \in DOMAIN new : new[n].by = "program" => new[n].seen
    PROVE  PlatformInv' /\ Extends
<1>0. new \in Seq(Promotion) /\ PlatformTypes
  BY DEF AddsSound, PlatformInv
<1>1. /\ Extends
      /\ \A i \in DOMAIN promotions : promotions'[i] = promotions[i]
      /\ \A i \in DOMAIN promotions' \ DOMAIN promotions :
             \E n \in DOMAIN new : i = Len(promotions) + n /\ promotions'[i] = new[n]
  BY <1>0, ConcatExtends
<1>2. PlatformTypes'
  BY <1>0, <1>1, CapturesKept
<1>3. PromotionsSound'
  <2> SUFFICES ASSUME NEW i \in DOMAIN promotions'
               PROVE  /\ ShowsItsTier(promotions'[i])
                      /\ promotions'[i].by = "program" => promotions'[i].name = "same"
    BY DEF PromotionsSound, ShowsItsTier, NormalizeType, ClassifyLinkType
  <2>1. CASE i \in DOMAIN promotions
    BY <1>1, <2>1 DEF PlatformInv, PromotionsSound
  <2>2. CASE i \notin DOMAIN promotions
    <3>1. PICK n \in DOMAIN new : promotions'[i] = new[n]
      BY <1>1, <2>2
    <3> QED  BY <3>1 DEF AddsSound
  <2> QED  BY <2>1, <2>2
<1>4. CreationsSound'
  <2> SUFFICES ASSUME stage' # "requery", NEW i \in DOMAIN promotions',
                      promotions'[i].by = "program"
               PROVE  promotions'[i].seen
    BY DEF CreationsSound
  <2>1. CASE i \in DOMAIN promotions
    BY <1>1, <2>1 DEF PlatformInv, CreationsSound
  <2>2. CASE i \notin DOMAIN promotions
    <3>1. PICK n \in DOMAIN new : promotions'[i] = new[n]
      BY <1>1, <2>2
    <3> QED  BY <3>1
  <2> QED  BY <2>1, <2>2
<1>5. CreatedOnce'
  <2> SUFFICES ASSUME NEW i \in DOMAIN promotions', NEW j \in DOMAIN promotions',
                      promotions'[i].by = "program", promotions'[j].by = "program",
                      promotions'[i].tier = promotions'[j].tier
               PROVE  i = j
    BY DEF CreatedOnce
  <2>1. \A k \in DOMAIN promotions' \ DOMAIN promotions :
            promotions'[k].by = "program" =>
                \A l \in DOMAIN promotions :
                    promotions'[l].by = "program" => promotions'[l].tier # promotions'[k].tier
    BY <1>1 DEF AddsSound
  <2>2. CASE i \in DOMAIN promotions /\ j \in DOMAIN promotions
    BY <1>1, <2>2 DEF PlatformInv, CreatedOnce
  <2>3. CASE i \notin DOMAIN promotions /\ j \notin DOMAIN promotions
    <3>1. PICK m \in DOMAIN new : i = Len(promotions) + m /\ promotions'[i] = new[m]
      BY <1>1, <2>3
    <3>2. PICK n \in DOMAIN new : j = Len(promotions) + n /\ promotions'[j] = new[n]
      BY <1>1, <2>3
    <3>3. m = n
      BY <3>1, <3>2 DEF AddsSound
    <3> QED  BY <3>1, <3>2, <3>3
  <2> QED  BY <2>1, <2>2, <2>3
<1> QED  BY <1>1, <1>2, <1>3, <1>4, <1>5 DEF PlatformInv

\* The result of the chain is left alone, and the platform's promotions only grow.
LEMMA ResultSame ==
    ASSUME ResultInv, Extends, UNCHANGED <<result, doubts>>, stage = "idle" => stage' = "idle"
    PROVE  ResultInv'
<1>1. UNCHANGED <<candidates, selected, missing, doubts>>
  BY DEF result
<1>2. \A c \in candidates : c \in Assets' /\ Backed(c)'
  BY BackedKept DEF ResultInv, ResultTypes
<1>3. ResultTypes'
  BY <1>1, <1>2 DEF ResultInv, ResultTypes
<1>4. DoubtsKept => DoubtsKept'
  BY <1>1 DEF DoubtsKept, Typed
<1> QED  BY <1>1, <1>2, <1>3, <1>4 DEF ResultInv

\* A run ends, its candidates are dropped.
LEMMA ResultEnds ==
    ASSUME ResultInv, NEW o, End(o), UNCHANGED doubts
    PROVE  ResultInv'
<1>1. candidates' = {} /\ selected' = {} /\ missing' = NothingMissing /\ stage' = "idle"
  BY DEF End
<1>2. missing' \in [AllTypes -> Reasons]
  BY <1>1 DEF NothingMissing, Reasons
<1> QED  BY <1>1, <1>2 DEF ResultInv, ResultTypes

\* An outcome without links, of a run that goes on or has raised.
LEMMA OutcomeNone ==
    ASSUME outcome'.links = NoLinks, outcome'.status # "READY",
           stage' # "idle" => outcome' = NoOutcome
    PROVE  OutcomeInv'
<1>1. outcome'.links \in [AllTypes -> Nat] /\ \A t \in AllTypes : outcome'.links[t] = NoPromotion
  BY DEF NoLinks, NoPromotion
<1>2. Frozen' = {}
  BY <1>1 DEF Frozen
<1> QED  BY <1>1, <1>2 DEF OutcomeInv, FrozenIsOurs, SeveralNeverFrozen, ReadySettlesDoubts

LEMMA OutcomeOpen ==
    ASSUME OutcomeInv, stage # "idle", UNCHANGED outcome
    PROVE  OutcomeInv'
<1>1. outcome' = NoOutcome
  BY DEF OutcomeInv
<1>2. outcome'.links = NoLinks /\ outcome'.status # "READY"
  BY <1>1 DEF NoOutcome
<1> QED  BY <1>1, <1>2, OutcomeNone

LEMMA OutcomeRaised ==
    ASSUME Raised
    PROVE  OutcomeInv'
<1>1. outcome' = [status |-> "RAISED", links |-> NoLinks] /\ stage' = "idle"
  BY DEF Raised, End
<1>2. outcome'.links = NoLinks /\ outcome'.status # "READY"
  BY <1>1
<1> QED  BY <1>1, <1>2, OutcomeNone

\* Between the runs the outcome stands, whatever happens on the platform.
LEMMA OutcomeStands ==
    ASSUME OutcomeInv, Extends, UNCHANGED <<outcome, doubts, stage>>
    PROVE  OutcomeInv'
<1>1. Frozen' = Frozen
  BY DEF Frozen
<1>2. \A i \in DOMAIN promotions : i \in DOMAIN promotions' /\ Keeps(promotions[i], promotions'[i])
  BY DEF Extends
<1>3. FrozenIsOurs'
  BY <1>1, <1>2 DEF OutcomeInv, FrozenIsOurs, Keeps
<1>4. SeveralNeverFrozen' /\ ReadySettlesDoubts'
  BY <1>1 DEF OutcomeInv, SeveralNeverFrozen, ReadySettlesDoubts
<1> QED  BY <1>3, <1>4 DEF OutcomeInv

-----------------------------------------------------------------------------
(* The API provider                                                         *)

LEMMA NextTierIs ==
    ASSUME RunTypes, NextTier
    PROVE  stage' \in {"query", "freeze", "network"} /\ index' \in DOMAIN Tiers
BY TiersAre DEF RunTypes, NextTier

\* A doubt is kept as something missing.
LEMMA DoubtKeeps ==
    ASSUME RunTypes, ResultInv, stage # "idle", Extends,
           NEW tier \in AllTypes, NEW why \in {"AMBIGUOUS", "UNCERTAIN"}, Doubt(tier, why)
    PROVE  ResultInv' /\ stage' \in {"query", "freeze", "network"} /\ index' \in DOMAIN Tiers
<1>1. /\ missing' = [missing EXCEPT ![tier] = why] /\ doubts' = doubts \cup {<<tier, why>>}
      /\ UNCHANGED <<candidates, selected>> /\ NextTier
  BY DEF Doubt
<1>2. /\ candidates \subseteq Assets /\ selected \subseteq AllTypes
      /\ missing \in [AllTypes -> Reasons]
      /\ doubts \subseteq AllTypes \X (Reasons \cup {"SEVERAL"})
  BY DEF ResultInv, ResultTypes
<1>3. /\ missing' \in [AllTypes -> Reasons]
      /\ doubts' \subseteq AllTypes \X (Reasons \cup {"SEVERAL"})
  BY <1>1, <1>2 DEF Reasons
<1>4. \A c \in candidates : c \in Assets' /\ Backed(c)'
  BY <1>2, BackedKept DEF ResultInv
<1>5. \A t \in AllTypes : missing[t] # NoReason => missing'[t] # NoReason
  BY <1>1, <1>2 DEF NoReason
<1>6. missing'[tier] # NoReason
  BY <1>1, <1>2 DEF NoReason
<1>7. DoubtsKept'
  <2> SUFFICES ASSUME NEW d \in doubts'
               PROVE  missing'[d[1]] # NoReason /\ (d[2] = "SEVERAL" => Several(Typed(d[1]))')
    BY DEF DoubtsKept
  <2>1. CASE d \in doubts
    <3>1. d[1] \in AllTypes
      BY <1>2, <2>1
    <3>2. missing[d[1]] # NoReason /\ (d[2] = "SEVERAL" => Several(Typed(d[1])))
      BY <2>1 DEF ResultInv, DoubtsKept
    <3> QED  BY <1>1, <1>5, <3>1, <3>2 DEF Typed
  <2>2. CASE d = <<tier, why>>
    BY <1>6, <2>2
  <2> QED  BY <1>1, <2>1, <2>2
<1> QED  BY <1>1, <1>2, <1>3, <1>4, <1>7, NextTierIs DEF ResultInv, ResultTypes

\* A promotion found by the task's name becomes a candidate of its tier.
LEMMA ReuseKeeps ==
    ASSUME PlatformTypes, RunTypes, ResultInv, stage # "idle", Extends,
           NEW tier \in AllTypes, NEW i \in QueryPromotions(tier), Reuse(tier, i)
    PROVE  ResultInv' /\ stage' \in {"query", "freeze", "network"} /\ index' \in DOMAIN Tiers
<1>0. PICK c : c = Asset("API", i, 0, tier, promotions[i].name)
  OBVIOUS
<1>1. /\ candidates' = candidates \cup {c} /\ selected' = selected \cup {tier}
      /\ UNCHANGED <<missing, doubts>> /\ NextTier
  BY <1>0 DEF Reuse
<1>2. /\ i \in DOMAIN promotions /\ promotions[i].tier = tier
      /\ promotions[i].name \in {"same", "spaced", "suffixed"}
  BY DEF QueryPromotions, Visible, NamesMatchFuzzy
<1>3. c \in Assets /\ Backed(c)
  BY <1>0, <1>2 DEF Asset, Assets, Backed, Of
<1>4. /\ candidates \subseteq Assets /\ selected \subseteq AllTypes
      /\ missing \in [AllTypes -> Reasons]
      /\ doubts \subseteq AllTypes \X (Reasons \cup {"SEVERAL"})
  BY DEF ResultInv, ResultTypes
<1>5. \A d \in candidates : d \in Assets' /\ Backed(d)'
  BY <1>4, BackedKept DEF ResultInv
<1>6. c \in Assets' /\ Backed(c)'
  BY <1>3, BackedKept
<1>7. \A d \in candidates' : d \in Assets' /\ Backed(d)'
  BY <1>1, <1>5, <1>6
<1>8. DoubtsKept'
  BY <1>1 DEF ResultInv, DoubtsKept, Typed, Several
<1> QED  BY <1>1, <1>4, <1>7, <1>8, NextTierIs DEF ResultInv, ResultTypes

\* Whatever the guard makes of the promotions the platform shows, the result stays sound.
LEMMA JudgeKeeps ==
    ASSUME PlatformTypes, RunTypes, ResultInv, stage # "idle", Extends,
           NEW tier \in AllTypes, QueryPromotions(tier) # {},
           Judge(tier, QueryPromotions(tier))
    PROVE  ResultInv' /\ stage' \in {"query", "freeze", "network"} /\ index' \in DOMAIN Tiers
<1>1. PICK i \in QueryPromotions(tier) :
          Doubt(tier, "AMBIGUOUS") \/ Doubt(tier, "UNCERTAIN") \/ Reuse(tier, i)
  BY DEF Judge
<1> QED  BY <1>1, DoubtKeeps, ReuseKeeps

-----------------------------------------------------------------------------
(* The pages                                                                *)

\* What the program created of a tier is on the tier's page.
LEMMA CreatedIsOnPage ==
    ASSUME PlatformInv, stage # "requery", NEW t, OnPage(t) = {}
    PROVE  \A i \in DOMAIN promotions :
               promotions[i].by = "program" => promotions[i].tier # t
BY DEF PlatformInv, CreationsSound, PromotionsSound, OnPage, Visible, SameNormalized

\* The pages create what they do not show.
Creates(new, need) == new = [n \in DOMAIN need |-> Created(need[n], "program", TRUE)]

NotShown(S) == S \subseteq AllTypes /\ \A t \in S : OnPage(t) = {}

LEMMA PagesAdd ==
    ASSUME PlatformInv, stage # "requery", NEW S, NotShown(S), NEW need, Lists(need, S),
           NEW new, Creates(new, need)
    PROVE  /\ AddsSound(new) /\ DOMAIN new = DOMAIN need
           /\ \A n \in DOMAIN new : new[n].seen /\ new[n].tier = need[n] /\ new[n].name = "same"
<1>0. /\ DOMAIN new = DOMAIN need
      /\ \A n \in DOMAIN need : new[n] = Created(need[n], "program", TRUE)
      /\ new = [n \in DOMAIN need |-> new[n]]
  BY DEF Creates
<1>1. /\ need \in Seq(S) /\ DOMAIN need = 1 .. Len(need) /\ Len(need) \in Nat
      /\ \A m, n \in DOMAIN need : need[m] = need[n] => m = n
  BY DEF Lists
<1>2. \A n \in DOMAIN need : need[n] \in S
  BY <1>1
<1>3. ASSUME NEW n \in DOMAIN need
      PROVE  /\ new[n] \in Promotion /\ ShowsItsTier(new[n]) /\ new[n].name = "same"
             /\ new[n].tier = need[n] /\ new[n].seen
  <2>1. need[n] \in AllTypes
    BY <1>2 DEF NotShown
  <2>2. PICK p : p = Created(need[n], "program", TRUE)
    OBVIOUS
  <2>3. /\ p \in Promotion /\ ShowsItsTier(p) /\ p.name = "same"
        /\ p.tier = need[n] /\ p.seen = TRUE
    BY <2>1, <2>2, CreatedIs
  <2>4. new[n] = p
    BY <1>0, <2>2
  <2> QED  BY <2>3, <2>4
<1>5. new \in Seq(Promotion)
  <2>1. new = [n \in 1 .. Len(need) |-> new[n]]
    BY <1>0, <1>1
  <2>2. \A n \in 1 .. Len(need) : new[n] \in Promotion
    BY <1>1, <1>3
  <2> QED  BY <1>1, <2>1, <2>2
<1>6. ASSUME NEW n \in DOMAIN new
      PROVE  /\ \A i \in DOMAIN promotions :
                    promotions[i].by = "program" => promotions[i].tier # new[n].tier
             /\ \A m \in DOMAIN new : new[m].tier = new[n].tier => m = n
  <2>1. \A i \in DOMAIN promotions : promotions[i].by = "program" => promotions[i].tier # need[n]
    <3>1. OnPage(need[n]) = {}
      BY <1>0, <1>2 DEF NotShown
    <3> QED  BY <3>1, CreatedIsOnPage
  <2> QED  BY <1>0, <1>1, <1>3, <2>1
<1>7. AddsSound(new)
  BY <1>0, <1>3, <1>5, <1>6 DEF AddsSound
<1> QED  BY <1>0, <1>3, <1>7

LEMMA ReadPagesKeeps ==
    ASSUME IInv, ReadPages PROVE IInv'
<1>0. /\ stage = "dom" /\ UNCHANGED <<confirmed, lists, details, mode, index, shadow, outcome, runs>>
      /\ stage' \in {"compare", "freeze"}
      /\ RunTypes /\ PlatformInv /\ PlatformTypes /\ ResultInv /\ ResultTypes /\ OutcomeInv
      /\ DoubtsKept
  BY DEF ReadPages, IInv, PlatformInv, ResultInv
<1>1. PICK got \in [AllTypes -> {"have", "fail", "absent"}] :
          promotions' = promotions \o Creations(got) /\ Merge(DomResult(got))
  BY DEF ReadPages
<1>2. PICK S : S = {t \in AllTypes : got[t] = "have" /\ OnPage(t) = {}}
  OBVIOUS
<1>3. PICK need : need = Asked(got)
  OBVIOUS
<1>4. PICK new : new = Creations(got)
  OBVIOUS
<1>5. PICK id : id = [t \in AllTypes |-> IdOf(got, t)]
  OBVIOUS
<1>6. PICK read : read = Handed(got)
  OBVIOUS
<1>7. PICK r : r = DomResult(got)
  OBVIOUS
<1>8. promotions' = promotions \o new /\ Merge(r)
  BY <1>1, <1>4, <1>7
<1>9. /\ r.selected = {} /\ r.missing \in [AllTypes -> Reasons]
      /\ \A c \in r.candidates : \E t \in read : c = Asset("DOM", id[t], 0, t, "same")
      /\ \A t \in read : t \in AllTypes /\ got[t] = "have"
  <2>1. \A t \in read : t \in AllTypes /\ got[t] = "have"
    BY <1>6 DEF Handed
  <2>2. \A t \in read : IdOf(got, t) = id[t]
    BY <1>5, <2>1
  <2>3. r.candidates = {Asset("DOM", IdOf(got, t), 0, t, "same") : t \in read}
    BY <1>6, <1>7 DEF DomResult
  <2>4. r.selected = {} /\ r.missing \in [AllTypes -> Reasons]
    BY <1>7 DEF DomResult, Reasons
  <2> QED  BY <2>1, <2>2, <2>3, <2>4
<1>10. NotShown(S)
  BY <1>2 DEF NotShown
<1>11. Lists(need, S)
  BY <1>2, <1>3, InOrderIs DEF Asked
<1>12. /\ AddsSound(new) /\ DOMAIN new = DOMAIN need
       /\ \A n \in DOMAIN new : new[n].seen /\ new[n].tier = need[n] /\ new[n].name = "same"
  <2>1. Creates(new, need)
    BY <1>3, <1>4 DEF Creates, Creations
  <2>2. stage # "requery"
    BY <1>0
  <2> QED  BY <1>0, <1>10, <1>11, <2>1, <2>2, PagesAdd
<1>13. PlatformInv' /\ Extends
  BY <1>0, <1>8, <1>12, PlatformAdds
<1>14. /\ new \in Seq(Promotion)
       /\ \A n \in DOMAIN new : /\ Len(promotions) + n \in DOMAIN promotions'
                                /\ promotions'[Len(promotions) + n] = new[n]
  <2>1. new \in Seq(Promotion)
    BY <1>12 DEF AddsSound
  <2> QED  BY <1>0, <1>8, <2>1, ConcatExtends
<1>15. ASSUME NEW t \in read
       PROVE  /\ t \in AllTypes /\ id[t] \in DOMAIN promotions' /\ promotions'[id[t]].tier = t
              /\ SameNormalized(promotions'[id[t]].name)
  <2>1. /\ t \in AllTypes /\ got[t] = "have"
        /\ id[t] = IF OnPage(t) # {} THEN Min(OnPage(t))
                   ELSE Len(promotions) + (CHOOSE n \in DOMAIN need : need[n] = t)
    BY <1>3, <1>5, <1>9 DEF IdOf
  <2>2. CASE OnPage(t) # {}
    <3>1. OnPage(t) \in SUBSET Nat
      <4>1. DOMAIN promotions \subseteq Nat
        BY <1>0 DEF PlatformTypes
      <4> QED  BY <4>1 DEF OnPage, Visible
    <3>2. id[t] \in OnPage(t)
      BY <2>1, <2>2, <3>1, MinIs
    <3>3. /\ id[t] \in DOMAIN promotions /\ promotions[id[t]].tier = t
          /\ SameNormalized(promotions[id[t]].name)
      BY <3>2 DEF OnPage, Visible
    <3> QED  BY <1>13, <2>1, <3>3 DEF Extends, Keeps
  <2>3. CASE OnPage(t) = {}
    <3>1. t \in S
      BY <1>2, <2>1, <2>3
    <3>2. PICK n : n = CHOOSE m \in DOMAIN need : need[m] = t
      OBVIOUS
    <3>3. n \in DOMAIN need /\ need[n] = t
      BY <1>11, <3>1, <3>2 DEF Lists
    <3>4. id[t] = Len(promotions) + n
      BY <2>1, <2>3, <3>2
    <3> QED  BY <1>12, <1>14, <2>1, <3>3, <3>4 DEF SameNormalized
  <2> QED  BY <2>2, <2>3
<1>16. ASSUME NEW c \in r.candidates
       PROVE  c \in Assets' /\ Backed(c)'
  <2>1. PICK t \in read : c = Asset("DOM", id[t], 0, t, "same")
    BY <1>9
  <2>2. c = [provider |-> "DOM", id |-> id[t], copy |-> 0, tier |-> t, name |-> "same"]
    BY <2>1 DEF Asset
  <2>3. c \in Assets'
    BY <1>15, <2>2 DEF Assets
  <2> QED  BY <1>15, <2>2, <2>3 DEF Backed, Of
<1>17. ProviderSound(r)
  <2>1. \A c, d \in r.candidates : c.tier = d.tier => c = d
    BY <1>9 DEF Asset
  <2>2. \A t : ~Several({c \in r.candidates : c.tier = t})
    BY <2>1 DEF Several
  <2> QED  BY <1>9, <2>2 DEF ProviderSound
<1>18. /\ candidates' \subseteq candidates \cup r.candidates
       /\ selected' \subseteq AllTypes /\ missing' \in [AllTypes -> Reasons]
       /\ doubts' \subseteq AllTypes \X (Reasons \cup {"SEVERAL"})
       /\ DoubtsKept'
  <2>1. ResultTypes /\ DoubtsKept /\ Merge(r)
    BY <1>0, <1>8
  <2> QED  BY <1>17, <2>1, MergeKeeps
<1>19. \A c \in candidates : c \in Assets' /\ Backed(c)'
  BY <1>0, <1>13, BackedKept DEF ResultInv, ResultTypes
<1>20. ResultInv'
  BY <1>16, <1>18, <1>19 DEF ResultInv, ResultTypes
<1>21. OutcomeInv'
  BY <1>0, OutcomeOpen
<1>22. RunTypes'
  BY <1>0, <1>8 DEF RunTypes, Stages
<1> QED  BY <1>13, <1>20, <1>21, <1>22 DEF IInv

LEMMA PagesRaiseKeeps ==
    ASSUME IInv, PagesRaise PROVE IInv'
<1>1. /\ stage = "dom" /\ Raised /\ UNCHANGED <<confirmed, lists, details, mode, shadow, doubts, runs>>
      /\ RunTypes /\ PlatformInv /\ PlatformTypes /\ ResultInv /\ OutcomeInv
  BY DEF PagesRaise, IInv, PlatformInv
<1>2. stage' = "idle" /\ index' = 1
  BY <1>1 DEF Raised, End
<1>3. PlatformInv'
  <2>1. CASE UNCHANGED promotions
    <3>1. UNCHANGED platform
      BY <1>1, <2>1 DEF platform
    <3> QED  BY <1>1, <1>2, <3>1, PlatformSame
  <2>2. CASE OnPage("IAA") = {} /\ promotions' = Append(promotions, Created("IAA", "program", TRUE))
    <3>1. PICK p : p = Created("IAA", "program", TRUE)
      OBVIOUS
    <3>2. PICK need : need = <<"IAA">>
      OBVIOUS
    <3>3. Lists(need, {"IAA"}) /\ NotShown({"IAA"})
      BY <2>2, <3>2, ListsOne, TiersAre DEF NotShown
    <3>4. PICK new : new = <<p>>
      OBVIOUS
    <3>5. Creates(new, need)
      <4>1. DOMAIN need = {1} /\ need[1] = "IAA" /\ DOMAIN new = {1} /\ new[1] = p
        BY <3>2, <3>4
      <4>2. new = [n \in {1} |-> new[n]]
        BY <3>4
      <4> QED  BY <3>1, <4>1, <4>2 DEF Creates
    <3>6. stage # "requery"
      BY <1>1
    <3>7. AddsSound(new) /\ \A n \in DOMAIN new : new[n].seen
      BY <1>1, <3>3, <3>5, <3>6, PagesAdd
    <3>8. p \in Promotion
      BY <3>1, TiersAre, CreatedIs
    <3>9. promotions' = promotions \o new
      <4>1. promotions' = Append(promotions, p)
        BY <2>2, <3>1
      <4>2. Append(promotions, p) = promotions \o <<p>>
        BY <1>1, <3>8, OneMoreIsConcat
      <4> QED  BY <3>4, <4>1, <4>2
    <3> QED  BY <1>1, <1>2, <3>7, <3>9, PlatformAdds
  <2> QED  BY <2>1, <2>2 DEF PagesRaise
<1>4. ResultInv'
  BY <1>1, ResultEnds DEF Raised
<1>5. RunTypes' /\ OutcomeInv'
  BY <1>1, <1>2, OutcomeRaised, TiersAre DEF RunTypes, Stages
<1> QED  BY <1>3, <1>4, <1>5 DEF IInv

-----------------------------------------------------------------------------
(* The other steps                                                          *)

LEMMA InitIInv == Init => IInv
<1> SUFFICES ASSUME Init PROVE IInv
  OBVIOUS
<1>1. /\ promotions = <<>> /\ confirmed \in BOOLEAN /\ lists = <<>> /\ details = {}
      /\ stage = "idle" /\ mode = "V2" /\ index = 1
      /\ candidates = {} /\ selected = {} /\ missing = NothingMissing
      /\ outcome = NoOutcome /\ doubts = {} /\ runs = 0
  BY DEF Init
<1>2. RunTypes
  BY <1>1, TiersAre, AcquisitionAssumption DEF RunTypes, Stages
<1>3. PlatformInv
  BY <1>1 DEF PlatformInv, PlatformTypes, PromotionsSound, CreationsSound, CreatedOnce
<1>4. ResultInv
  BY <1>1 DEF ResultInv, ResultTypes, NothingMissing, Reasons
<1>5. OutcomeInv
  <2>1. /\ outcome.links = [t \in AllTypes |-> 0] /\ outcome.status = "none"
    BY <1>1 DEF NoOutcome, NoLinks, NoPromotion
  <2>2. Frozen = {} /\ outcome.links \in [AllTypes -> Nat]
    BY <2>1 DEF Frozen, NoPromotion
  <2> QED  BY <1>1, <2>1, <2>2
           DEF OutcomeInv, FrozenIsOurs, SeveralNeverFrozen, ReadySettlesDoubts
<1> QED  BY <1>2, <1>3, <1>4, <1>5 DEF IInv

LEMMA StartKeeps ==
    ASSUME IInv, NEW m \in {"LEGACY", "SHADOW", "V2"}, NEW withApi \in BOOLEAN, Start(m, withApi)
    PROVE  IInv'
<1>1. /\ stage = "idle" /\ runs < MaxRuns /\ mode' = m /\ runs' = runs + 1 /\ index' = 1
      /\ stage' \in {"dom", "query", "network"} /\ doubts' = {} /\ outcome' = NoOutcome
      /\ UNCHANGED <<platform, result>>
      /\ RunTypes /\ PlatformInv /\ ResultInv
  BY DEF Start, IInv
<1>2. RunTypes'
  BY <1>1, TiersAre, AcquisitionAssumption DEF RunTypes, Stages
<1>3. PlatformInv'
  BY <1>1, PlatformSame
<1>4. ResultInv'
  <2>1. UNCHANGED <<promotions, candidates, selected, missing>>
    BY <1>1 DEF platform, result
  <2>2. Extends
    BY <1>1, <2>1, SameExtends DEF PlatformInv
  <2>3. \A c \in candidates : c \in Assets' /\ Backed(c)'
    BY <1>1, <2>2, BackedKept DEF ResultInv, ResultTypes
  <2> QED  BY <1>1, <2>1, <2>3 DEF ResultInv, ResultTypes, DoubtsKept
<1>5. OutcomeInv'
  <2>1. outcome'.links = NoLinks /\ outcome'.status # "READY"
    BY <1>1 DEF NoOutcome
  <2> QED  BY <1>1, <2>1, OutcomeNone
<1> QED  BY <1>2, <1>3, <1>4, <1>5 DEF IInv

LEMMA QueryKeeps ==
    ASSUME IInv, Query PROVE IInv'
<1>1. /\ stage = "query" /\ UNCHANGED <<platform, mode, shadow, outcome, runs>>
      /\ RunTypes /\ PlatformInv /\ PlatformTypes /\ ResultInv /\ OutcomeInv
  BY DEF Query, IInv, PlatformInv
<1>2. PICK tier : tier = Tiers[index]
  OBVIOUS
<1>3. PICK found : found = QueryPromotions(tier)
  OBVIOUS
<1>4. tier \in AllTypes
  BY <1>1, <1>2, TiersAre DEF RunTypes
<1>5. UNCHANGED promotions /\ Extends
  BY <1>1, SameExtends DEF platform
<1>6. OutcomeInv'
  BY <1>1, OutcomeOpen
<1>7. CASE found = {}
  <2>1. stage' = "create" /\ UNCHANGED <<index, result, doubts>>
    BY <1>2, <1>3, <1>7 DEF Query
  <2>2. RunTypes'
    BY <1>1, <2>1 DEF RunTypes, Stages
  <2>3. ResultInv'
    BY <1>1, <1>5, <2>1, ResultSame
  <2>4. \A i \in DOMAIN promotions :
            promotions[i].by = "program" => promotions[i].seen /\ promotions[i].name = "same"
    BY <1>1 DEF PlatformInv, CreationsSound, PromotionsSound
  <2>5. \A i \in DOMAIN promotions :
            promotions[i].by = "program" => promotions[i].tier # tier
    BY <1>3, <1>7, <2>4 DEF QueryPromotions, Visible, NamesMatchFuzzy
  <2>6. CreationsSound'
    BY <1>2, <1>5, <2>1, <2>4, <2>5 DEF CreationsSound
  <2>7. PlatformTypes' /\ PromotionsSound' /\ CreatedOnce'
    BY <1>1 DEF platform, PlatformInv, PlatformTypes, PromotionsSound, CreatedOnce
  <2> QED  BY <1>6, <2>2, <2>3, <2>6, <2>7 DEF IInv, PlatformInv
<1>8. CASE found # {}
  <2>1. Judge(tier, QueryPromotions(tier))
    BY <1>2, <1>3, <1>8 DEF Query
  <2>2. QueryPromotions(tier) # {} /\ stage # "idle"
    BY <1>1, <1>3, <1>8
  <2>3. ResultInv' /\ stage' \in {"query", "freeze", "network"} /\ index' \in DOMAIN Tiers
    BY <1>1, <1>4, <1>5, <2>1, <2>2, JudgeKeeps
  <2>4. PlatformInv'
    BY <1>1, <2>3, PlatformSame
  <2>5. RunTypes'
    BY <1>1, <2>3 DEF RunTypes, Stages
  <2> QED  BY <1>6, <2>3, <2>4, <2>5 DEF IInv
<1> QED  BY <1>7, <1>8

LEMMA CreatePromotionKeeps ==
    ASSUME IInv, CreatePromotion PROVE IInv'
<1>1. /\ stage = "create" /\ stage' = "requery"
      /\ UNCHANGED <<confirmed, lists, details, mode, index, result, shadow, outcome, doubts, runs>>
      /\ RunTypes /\ PlatformInv /\ PlatformTypes /\ ResultInv /\ OutcomeInv
  BY DEF CreatePromotion, IInv, PlatformInv
<1>2. Tiers[index] \in AllTypes
  BY <1>1, TiersAre DEF RunTypes
<1>3. PlatformInv' /\ Extends
  <2>1. CASE UNCHANGED promotions
    <3>1. UNCHANGED platform
      BY <1>1, <2>1 DEF platform
    <3> QED  BY <1>1, <2>1, <3>1, PlatformSame, SameExtends
  <2>2. ASSUME NEW seen \in BOOLEAN,
               promotions' = Append(promotions, Created(Tiers[index], "program", seen))
        PROVE  PlatformInv' /\ Extends
    <3>1. PICK p : p = Created(Tiers[index], "program", seen)
      OBVIOUS
    <3>2. /\ p \in Promotion /\ ShowsItsTier(p) /\ p.name = "same" /\ p.tier = Tiers[index]
      BY <1>2, <3>1, CreatedIs
    <3>3. PICK new : new = <<p>>
      OBVIOUS
    <3>4. DOMAIN new = {1} /\ new[1] = p /\ new \in Seq(Promotion)
      BY <3>2, <3>3
    <3>5. \A i \in DOMAIN promotions :
              promotions[i].by = "program" => promotions[i].tier # Tiers[index]
      BY <1>1 DEF PlatformInv, CreationsSound
    <3>6. AddsSound(new)
      BY <3>2, <3>4, <3>5 DEF AddsSound
    <3>7. promotions' = promotions \o new
      <4>1. promotions' = Append(promotions, p)
        BY <2>2, <3>1
      <4>2. Append(promotions, p) = promotions \o <<p>>
        BY <1>1, <3>2, OneMoreIsConcat
      <4> QED  BY <3>3, <4>1, <4>2
    <3> QED  BY <1>1, <3>6, <3>7, PlatformAdds
  <2> QED  BY <2>1, <2>2 DEF CreatePromotion
<1>4. ResultInv'
  BY <1>1, <1>3, ResultSame
<1>5. OutcomeInv'
  BY <1>1, OutcomeOpen
<1>6. RunTypes'
  BY <1>1 DEF RunTypes, Stages
<1> QED  BY <1>3, <1>4, <1>5, <1>6 DEF IInv

LEMMA RequeryKeeps ==
    ASSUME IInv, Requery PROVE IInv'
<1>1. /\ stage = "requery" /\ ListingCatchesUp
      /\ UNCHANGED <<confirmed, lists, details, mode, shadow, outcome, runs>>
      /\ RunTypes /\ PlatformInv /\ PlatformTypes /\ ResultInv /\ OutcomeInv
  BY DEF Requery, IInv, PlatformInv
<1>2. PICK tier : tier = Tiers[index]
  OBVIOUS
<1>3. tier \in AllTypes
  BY <1>1, <1>2, TiersAre DEF RunTypes
<1>4. Extends
  BY <1>1, CatchesUpExtends
<1>5. ResultInv' /\ stage' \in {"query", "freeze", "network"} /\ index' \in DOMAIN Tiers
  <2>0. stage # "idle"
    BY <1>1
  <2>1. CASE QueryPromotions(tier) = {}
    <3>1. Doubt(tier, "UNCERTAIN")
      BY <1>2, <2>1 DEF Requery
    <3> QED  BY <1>1, <1>3, <1>4, <2>0, <3>1, DoubtKeeps
  <2>2. CASE QueryPromotions(tier) # {}
    <3>1. Judge(tier, QueryPromotions(tier))
      BY <1>2, <2>2 DEF Requery
    <3> QED  BY <1>1, <1>3, <1>4, <2>0, <2>2, <3>1, JudgeKeeps
  <2> QED  BY <2>1, <2>2
<1>6. PlatformInv'
  BY <1>1, <1>5, PlatformShown
<1>7. OutcomeInv'
  BY <1>1, OutcomeOpen
<1>8. RunTypes'
  BY <1>1, <1>5 DEF RunTypes, Stages
<1> QED  BY <1>5, <1>6, <1>7, <1>8 DEF IInv

LEMMA ApiRaisesKeeps ==
    ASSUME IInv, ApiRaises PROVE IInv'
<1>1. /\ Raised /\ ListingCatchesUp
      /\ UNCHANGED <<confirmed, lists, details, mode, shadow, doubts, runs>>
      /\ RunTypes /\ PlatformInv /\ ResultInv
  BY DEF ApiRaises, IInv
<1>2. stage' = "idle" /\ index' = 1
  BY <1>1 DEF Raised, End
<1>3. PlatformInv'
  BY <1>1, <1>2, PlatformShown
<1>4. ResultInv'
  BY <1>1, ResultEnds DEF Raised
<1>5. RunTypes' /\ OutcomeInv'
  BY <1>1, <1>2, OutcomeRaised, TiersAre DEF RunTypes, Stages
<1> QED  BY <1>3, <1>4, <1>5 DEF IInv

LEMMA ReadNetworkKeeps ==
    ASSUME IInv, ReadNetwork PROVE IInv'
<1>1. /\ stage = "network" /\ stage' \in {"freeze", "dom"}
      /\ UNCHANGED <<platform, mode, index, shadow, outcome, runs>>
      /\ RunTypes /\ PlatformInv /\ PlatformTypes /\ PromotionsSound
      /\ ResultInv /\ ResultTypes /\ DoubtsKept /\ OutcomeInv
  BY DEF ReadNetwork, IInv, PlatformInv, ResultInv
<1>2. PICK r : r = NetworkResult
  OBVIOUS
<1>3. Merge(r)
  BY <1>2 DEF ReadNetwork
<1>4. ProviderSound(r) /\ \A c \in r.candidates : c \in Assets /\ Backed(c)
  BY <1>1, <1>2, NetworkIs
<1>5. PlatformInv'
  BY <1>1, PlatformSame
<1>6. Extends
  BY <1>1, SameExtends DEF platform
<1>7. /\ candidates' \subseteq candidates \cup r.candidates
      /\ selected' \subseteq AllTypes /\ missing' \in [AllTypes -> Reasons]
      /\ doubts' \subseteq AllTypes \X (Reasons \cup {"SEVERAL"})
      /\ DoubtsKept'
  BY <1>1, <1>3, <1>4, MergeKeeps
<1>8. \A c \in candidates \cup r.candidates : c \in Assets' /\ Backed(c)'
  BY <1>1, <1>4, <1>6, BackedKept DEF ResultInv, ResultTypes
<1>9. ResultInv'
  BY <1>7, <1>8 DEF ResultInv, ResultTypes
<1>10. OutcomeInv'
  BY <1>1, OutcomeOpen
<1>11. RunTypes'
  BY <1>1 DEF RunTypes, Stages
<1> QED  BY <1>5, <1>9, <1>10, <1>11 DEF IInv

LEMMA CompareKeeps ==
    ASSUME IInv, Compare PROVE IInv'
<1>1. /\ stage = "compare" /\ stage' = "freeze"
      /\ UNCHANGED <<platform, mode, index, result, outcome, doubts, runs>>
      /\ RunTypes /\ PlatformInv /\ PlatformTypes /\ ResultInv /\ OutcomeInv
  BY DEF Compare, IInv, PlatformInv
<1>2. PlatformInv'
  BY <1>1, PlatformSame
<1>3. Extends
  BY <1>1, SameExtends DEF platform
<1>4. ResultInv'
  BY <1>1, <1>3, ResultSame
<1>5. OutcomeInv'
  BY <1>1, OutcomeOpen
<1>6. RunTypes'
  BY <1>1 DEF RunTypes, Stages
<1> QED  BY <1>2, <1>4, <1>5, <1>6 DEF IInv

\* What is frozen is one valid candidate of its tier, and the only one.
LEMMA FreezeKeeps ==
    ASSUME IInv, Freeze PROVE IInv'
<1>1. /\ stage = "freeze" /\ UNCHANGED <<platform, mode, shadow, doubts, runs>>
      /\ RunTypes /\ PlatformInv /\ ResultInv /\ ResultTypes /\ DoubtsKept
  BY DEF Freeze, IInv, ResultInv
<1>2. PICK links : links = [t \in AllTypes |-> IF t \in Validated THEN (CHOOSE c \in Typed(t) : TRUE).id
                                              ELSE NoPromotion]
  OBVIOUS
<1>3. PICK several : End([status |-> DetermineStatus(several, links), links |-> links])
  BY <1>2 DEF Freeze
<1>4. PICK o : o = [status |-> DetermineStatus(several, links), links |-> links]
  OBVIOUS
<1>5. /\ End(o) /\ stage' = "idle" /\ index' = 1 /\ outcome' = o
      /\ o.links = links /\ o.status = DetermineStatus(several, links)
  BY <1>3, <1>4 DEF End
<1>6. ResultInv'
  BY <1>1, <1>5, ResultEnds
<1>7. PlatformInv'
  BY <1>1, <1>5, PlatformSame
<1>8. RunTypes'
  BY <1>1, <1>5, TiersAre DEF RunTypes, Stages
<1>9. ASSUME NEW t \in Validated
      PROVE  /\ Single(Typed(t)) /\ t \in AllTypes
             /\ \E c \in Typed(t) : links[t] = c.id /\ InvalidReason(c) = NoReason
                                    /\ c \in Assets /\ Backed(c) /\ c.tier = t
  <2>1. PICK c : c = CHOOSE d \in Typed(t) : TRUE
    OBVIOUS
  <2>2. Single(Typed(t)) /\ t \in ExpectedTypes /\ \A d \in Typed(t) : InvalidReason(d) = NoReason
    BY DEF Validated
  <2>3. c \in Typed(t)
    BY <2>1, <2>2 DEF Single
  <2>4. c \in candidates /\ c.tier = t
    BY <2>3 DEF Typed
  <2>5. c \in Assets /\ Backed(c)
    BY <1>1, <2>4 DEF ResultInv, ResultTypes
  <2>6. t \in AllTypes
    BY <2>4, <2>5 DEF Assets
  <2>7. links[t] = c.id
    BY <1>2, <2>1, <2>6
  <2> QED  BY <2>2, <2>3, <2>4, <2>5, <2>6, <2>7
<1>10. ASSUME NEW t \in Validated
       PROVE  /\ links[t] \in DOMAIN promotions /\ promotions[links[t]].tier = t
              /\ promotions[links[t]].url = "ok"
              /\ SameNormalized(promotions[links[t]].name) \/ promotions[links[t]].name = "blank"
  <2>1. PICK c \in Typed(t) : links[t] = c.id /\ InvalidReason(c) = NoReason
                              /\ c \in Assets /\ Backed(c) /\ c.tier = t
    BY <1>9
  <2>2. SameNormalized(c.name) /\ Of(c).url = "ok"
    BY <2>1 DEF InvalidReason, NoReason
  <2> QED  BY <2>1, <2>2 DEF Backed, Of, Assets
<1>11. Frozen' = {t \in AllTypes : links[t] # NoPromotion}
  BY <1>5 DEF Frozen
<1>12. Frozen' = Validated /\ links \in [AllTypes -> Nat]
  <2>1. DOMAIN promotions \subseteq Nat /\ 0 \notin DOMAIN promotions
    BY <1>1 DEF PlatformInv, PlatformTypes
  <2>2. \A t \in AllTypes : t \notin Validated => links[t] = NoPromotion
    BY <1>2
  <2>3. \A t \in AllTypes : t \in Validated => links[t] \in Nat /\ links[t] # NoPromotion
    BY <1>10, <2>1 DEF NoPromotion
  <2>4. Validated \subseteq AllTypes
    BY <1>9
  <2>5. \A t \in AllTypes : links[t] \in Nat
    BY <2>2, <2>3 DEF NoPromotion
  <2>6. links = [t \in AllTypes |-> links[t]]
    BY <1>2
  <2> QED  BY <1>11, <2>2, <2>3, <2>4, <2>5, <2>6
<1>13. FrozenIsOurs'
  <2>1. UNCHANGED promotions
    BY <1>1 DEF platform
  <2> QED  BY <1>5, <1>10, <1>12, <2>1 DEF FrozenIsOurs
<1>14. SeveralNeverFrozen'
  <2> SUFFICES ASSUME NEW t \in Validated, <<t, "SEVERAL">> \in doubts PROVE FALSE
    BY <1>1, <1>12 DEF SeveralNeverFrozen
  <2>1. Several(Typed(t))
    BY <1>1 DEF DoubtsKept
  <2> QED  BY <1>9, <2>1 DEF Several, Single
<1>15. ReadySettlesDoubts'
  <2> SUFFICES ASSUME DetermineStatus(several, links) = "READY", NEW d \in doubts
               PROVE  d[1] \in Frozen'
    BY <1>1, <1>5 DEF ReadySettlesDoubts
  <2>1. {t \in AllTypes : links[t] # NoPromotion} = ExpectedTypes
    BY DEF DetermineStatus
  <2>2. d[1] \in AllTypes /\ missing[d[1]] # NoReason
    BY <1>1 DEF ResultTypes, DoubtsKept
  <2>3. d[1] \in ExpectedTypes
    BY <2>2 DEF ExpectedTypes, Missing
  <2> QED  BY <1>11, <2>1, <2>3
<1>16. OutcomeInv'
  BY <1>5, <1>12, <1>13, <1>14, <1>15 DEF OutcomeInv
<1> QED  BY <1>6, <1>7, <1>8, <1>16 DEF IInv

LEMMA PersonCreatesKeeps ==
    ASSUME IInv, PersonCreates PROVE IInv'
<1>1. /\ stage # "create"
      /\ UNCHANGED <<confirmed, lists, details, stage, mode, index, result, shadow, outcome, doubts, runs>>
      /\ RunTypes /\ PlatformInv /\ PlatformTypes /\ ResultInv /\ OutcomeInv
  BY DEF PersonCreates, IInv, PlatformInv
<1>2. PICK p \in Promotions : promotions' = Append(promotions, p)
  BY DEF PersonCreates
<1>3. p \in Promotion /\ ShowsItsTier(p) /\ p.by # "program"
  BY AcquisitionAssumption, TiersAreShown
<1>4. PICK new : new = <<p>>
  OBVIOUS
<1>5. DOMAIN new = {1} /\ new[1] = p /\ new \in Seq(Promotion)
  BY <1>3, <1>4
<1>6. AddsSound(new)
  BY <1>3, <1>5 DEF AddsSound
<1>7. promotions' = promotions \o new
  <2>1. Append(promotions, p) = promotions \o <<p>>
    BY <1>1, <1>3, OneMoreIsConcat
  <2> QED  BY <1>2, <1>4, <2>1
<1>8. \A n \in DOMAIN new : new[n].by = "program" => new[n].seen
  BY <1>3, <1>5
<1>9. PlatformInv' /\ Extends
  BY <1>1, <1>6, <1>7, <1>8, PlatformAdds
<1>10. ResultInv'
  BY <1>1, <1>9, ResultSame
<1>11. OutcomeInv'
  BY <1>1, <1>9, OutcomeStands
<1>12. RunTypes'
  BY <1>1 DEF RunTypes
<1> QED  BY <1>9, <1>10, <1>11, <1>12 DEF IInv

LEMMA OnResponseKeeps ==
    ASSUME IInv, OnResponse PROVE IInv'
<1>1. /\ stage # "create" /\ stage # "requery"
      /\ UNCHANGED <<promotions, confirmed, stage, mode, index, result, shadow, outcome, doubts, runs>>
      /\ RunTypes /\ PlatformInv /\ PlatformTypes /\ ResultInv /\ OutcomeInv
  BY DEF OnResponse, IInv, PlatformInv
<1>2. /\ \/ lists' = Append(lists, Visible) /\ UNCHANGED details
         \/ UNCHANGED lists /\ \E i \in Visible \ details : details' = details \cup {i}
  BY DEF OnResponse
<1>3. Visible \subseteq DOMAIN promotions
  BY DEF Visible
<1>4. PlatformTypes'
  <2> DEFINE S == SUBSET DOMAIN promotions
  <2>1. lists \in Seq(S) /\ Visible \in S /\ details \subseteq DOMAIN promotions
    BY <1>1, <1>3 DEF PlatformTypes
  <2> HIDE DEF S
  <2>2. lists' \in Seq(S)
    BY <1>2, <2>1
  <2>3. details' \subseteq DOMAIN promotions
    BY <1>2, <1>3, <2>1
  <2> QED  BY <1>1, <2>2, <2>3 DEF S, PlatformTypes
<1>5. PromotionsSound' /\ CreationsSound' /\ CreatedOnce'
  BY <1>1 DEF PlatformInv, PromotionsSound, CreationsSound, CreatedOnce
<1>6. Extends
  BY <1>1, SameExtends
<1>7. ResultInv'
  BY <1>1, <1>6, ResultSame
<1>8. OutcomeInv'
  BY <1>1, <1>6, OutcomeStands
<1>9. RunTypes'
  BY <1>1 DEF RunTypes
<1> QED  BY <1>4, <1>5, <1>7, <1>8, <1>9 DEF IInv, PlatformInv

LEMMA StutterKeeps ==
    ASSUME IInv, UNCHANGED vars PROVE IInv'
<1>1. UNCHANGED <<promotions, confirmed, lists, details, stage, mode, index, candidates, selected,
                  missing, outcome, doubts, runs>>
  BY DEF vars, platform, result
<1>2. RunTypes' /\ PlatformInv'
  BY <1>1 DEF IInv, RunTypes, PlatformInv, PlatformTypes, PromotionsSound, CreationsSound, CreatedOnce
<1>3. Extends
  BY <1>1, SameExtends DEF IInv, PlatformInv
<1>4. ResultInv'
  BY <1>1, <1>3, ResultSame DEF IInv, result
<1>5. OutcomeInv'
  BY <1>1, <1>3, OutcomeStands DEF IInv
<1> QED  BY <1>2, <1>4, <1>5 DEF IInv

LEMMA StepIInv == IInv /\ [Next]_vars => IInv'
<1> SUFFICES ASSUME IInv, [Next]_vars PROVE IInv'
  OBVIOUS
<1>1. ASSUME NEW m \in {"LEGACY", "SHADOW", "V2"}, NEW withApi \in BOOLEAN, Start(m, withApi)
      PROVE  IInv'
  BY <1>1, StartKeeps
<1>2. CASE Query \/ CreatePromotion \/ Requery \/ ApiRaises
  BY <1>2, QueryKeeps, CreatePromotionKeeps, RequeryKeeps, ApiRaisesKeeps
<1>3. CASE ReadNetwork \/ ReadPages \/ PagesRaise \/ Compare \/ Freeze
  BY <1>3, ReadNetworkKeeps, ReadPagesKeeps, PagesRaiseKeeps, CompareKeeps, FreezeKeeps
<1>4. CASE PersonCreates \/ OnResponse
  BY <1>4, PersonCreatesKeeps, OnResponseKeeps
<1>5. CASE UNCHANGED vars
  BY <1>5, StutterKeeps
<1> QED  BY <1>1, <1>2, <1>3, <1>4, <1>5 DEF Next, Run

LEMMA Inductive == Spec => []IInv
BY InitIInv, StepIInv, PTL DEF Spec

-----------------------------------------------------------------------------
(* Theorems                                                                 *)

\* Every variable keeps a value of its kind: the tiers, reasons and stages are the known ones, and
\* every capture and candidate is of a promotion the platform has.
THEOREM TypeCorrect == Spec => []TypeOK
<1>1. IInv => TypeOK
  BY DEF IInv, PlatformInv, ResultInv, OutcomeInv, TypeOK
<1> QED  BY <1>1, Inductive, PTL

\* Whatever provider supplied it, and whatever was created in between, a frozen link is of a
\* promotion of its tier, with a valid URL, shown by the task's name or without one.
THEOREM FrozenLinksAreOurs == Spec => []FrozenIsOurs
<1>1. IInv => FrozenIsOurs
  BY DEF IInv, OutcomeInv
<1> QED  BY <1>1, Inductive, PTL

\* A tier a provider saw several promotions for is not settled by a later one.
THEOREM SeveralGoToAPerson == Spec => []SeveralNeverFrozen
<1>1. IInv => SeveralNeverFrozen
  BY DEF IInv, OutcomeInv
<1> QED  BY <1>1, Inductive, PTL

\* A run that ends READY has frozen every tier a provider had a doubt about.
THEOREM ReadyIsSettled == Spec => []ReadySettlesDoubts
<1>1. IInv => ReadySettlesDoubts
  BY DEF IInv, OutcomeInv
<1> QED  BY <1>1, Inductive, PTL

\* Through lost answers, exceptions and later runs, the program creates a tier's promotion once.
THEOREM CreatesOnce == Spec => []CreatedOnce
<1>1. IInv => CreatedOnce
  BY DEF IInv, PlatformInv
<1> QED  BY <1>1, Inductive, PTL
=============================================================================
