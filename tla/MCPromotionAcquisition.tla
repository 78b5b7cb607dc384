----------------------- MODULE MCPromotionAcquisition -----------------------
\* What people create states its tier, its price, or is free and has no price.  The price rules of
\* configs/defaults/rules.json, in tenths.
EXTENDS PromotionAcquisition

MCPriceRules == {[tier |-> "2.9", min |-> 26, max |-> 50], [tier |-> "9.9", min |-> 90, max |-> 150]}

Paid(tier, price, name, drama) ==
    [tier |-> tier, name |-> name, drama |-> drama, id |-> "id", templateId |-> FALSE,
     template |-> NoId, type |-> "paid", episodes |-> FALSE, price |-> price,
     url |-> "ok", by |-> "person", seen |-> TRUE]
Nameless ==
    [Paid("IAA", 0, "blank", NoId) EXCEPT !.type = "unstated", !.episodes = TRUE]

MCPromotions ==
    {Nameless,
     Paid("2.9", 39, "other", TaskKey),
     Paid("2.9", 29, "same", NoId),
     [Paid("2.9", 29, "spaced", NoId) EXCEPT !.id = NoId],
     [Paid("2.9", 29, "suffixed", NoId) EXCEPT !.id = NoId],
     [Paid("2.9", 0, "same", NoId) EXCEPT !.url = NoId, !.template = "2.9", !.templateId = TRUE]}
=============================================================================
