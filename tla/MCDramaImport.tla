--------------------------- MODULE MCDramaImport ---------------------------
(* An instance of DramaImport for TLC. *)
EXTENDS DramaImport, TLC

CONSTANTS d1, d2, ten, tenAgain, noon, o1

Letters == o1 :> "A"

PublicRow(d, c, name, valid) ==
    [drama |-> d, cell |-> c, name |-> name, prefix |-> "A", valid |-> valid]

\* A row of the operator, one of its group, a repeated one and one without a platform.
PublicRows == <<PublicRow(d1, ten, o1, TRUE), PublicRow(d2, noon, "other", TRUE),
                PublicRow(d1, ten, o1, TRUE), PublicRow(d1, noon, o1, FALSE)>>

PersonRow(d, c) == [drama |-> d, cell |-> c, mark |-> NoMark, by |-> Person]
Sheets == {<<>>, <<PersonRow(d2, ten)>>}
Added == {[drama |-> d1, cell |-> ten], [drama |-> d2, cell |-> tenAgain]}
=============================================================================
