------------------------- MODULE MCStandardDelivery -------------------------
(* Instances of StandardDelivery for TLC. *)
EXTENDS StandardDelivery, TLC

CONSTANTS d1, d2

\* One drama with all three links, one with two.
SomeLinks == d1 :> {"IAA", "9.9", "2.9"} @@ d2 :> {"IAA", "9.9"}
SameDay == [d \in {d1, d2} |-> 1]
OneEach == [g \in Groups |-> 1]

Row(group, cid) == [group |-> group, cid |-> cid, drama |-> Nobody, enabled |-> TRUE,
                    test |-> FALSE]
IaaRows(cids) == [n \in 1 .. 4 |-> Row(IaaGroups[n], cids[n])]
Blank == Row("", 0)

\* One free block of each kind, the paid one with a blank row in it or with CIDs of the
\* free one.
Sheets == {[IAA |-> IaaRows(<<1, 2, 3, 4>>),
            IAP |-> <<Row("B1-9.9", 5), Blank, Row("B2-2.9", 6)>>],
           [IAA |-> IaaRows(<<1, 2, 3, 4>>) \o IaaRows(<<7, 8, 9, 10>>),
            IAP |-> <<Row("B1-9.9", 1), Row("B2-2.9", 2), Row("B1-9.9", 5), Row("B2-2.9", 6)>>]}
=============================================================================
