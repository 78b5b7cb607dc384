--------------------------- MODULE MCDeliveryScan ---------------------------
(* An instance of DeliveryScan for TLC. *)
EXTENDS DeliveryScan, TLC

CONSTANTS d1, d2, ten, tenAgain, noted, o1

\* Two spellings of one moment, and a note that is no time.
Moments == ten :> 1 @@ tenAgain :> 1 @@ noted :> 0

Letters == o1 :> "A"

PublicRows == <<[drama |-> d1, cell |-> ten, name |-> o1, prefix |-> "A", valid |-> TRUE]>>

PersonRow(d, c) == [drama |-> d, cell |-> c, mark |-> NoMark, by |-> Person]
Sheets == {<<PersonRow(d2, ten)>>, <<PersonRow(d2, ten), PersonRow(d1, noted)>>}
=============================================================================
