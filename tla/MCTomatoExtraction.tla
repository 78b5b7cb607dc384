------------------------- MODULE MCTomatoExtraction -------------------------
(* Instances of TomatoExtraction for TLC. *)
EXTENDS TomatoExtraction

\* Two dramas of one name, one of them with a time that is not shown, and one
\* with a longer name.
SameName == {[name |-> "same", minute |-> 2, shown |-> TRUE],
             [name |-> "same", minute |-> 90, shown |-> FALSE],
             [name |-> "similar", minute |-> 0, shown |-> TRUE]}

FreeRow(name) == [name |-> name, entry |-> "FREE", marked |-> 1, digits |-> {1},
                  title |-> "", tier |-> 0]
\* Its text says "总集数 51集".
PaidRow(title, tier) == [name |-> "same", entry |-> "PAID", marked |-> 0, digits |-> {1},
                         title |-> title, tier |-> tier]

\* The price of a template can have changed since a link was made with it.
Rows == {FreeRow("similar"), FreeRow("other"), PaidRow("small", 99), PaidRow("large", 99)}

Prices == [t \in {"small", "large"} |-> IF t = "small" THEN 25 ELSE 120]

Ranges == [p \in {29, 99} |-> IF p = 29 THEN <<20, 50>> ELSE <<80, 150>>]
=============================================================================
