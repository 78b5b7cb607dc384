---------------------------- MODULE MCRuleConfig ----------------------------
\* The defaults of configs/defaults/rules.json: the rule sets of the prices of one template and
\* of the materials, and both tables.
EXTENDS RuleConfig, TLC

CONSTANTS price, material

Symmetry == Permutations(Requests)

Rule(key, valid, value) == [key |-> key, valid |-> valid, value |-> value]
Row(key, min, max, strategy, base, copies, projects) ==
    [key |-> key, min |-> min, max |-> max, strategy |-> strategy, test |-> FALSE,
     base |-> base, copies |-> copies, cap |-> 30, projects |-> projects]
TestRow(key, min, max, strategy, base) ==
    [Row(key, min, max, strategy, base, 0, 0) EXCEPT !.test = TRUE]

NormalRanges == {Row("n_leq_30", 0, 30, "BASE_1_COPY_2", 1, 2, 3),
                 Row("n_30_60", 31, 60, "BASE_2_COPY_2", 2, 2, 3),
                 Row("n_61_90", 61, 90, "BASE_3_COPY_1", 3, 1, 3)}
MCDefaultRanges == NormalRanges \cup {TestRow("test_lt_20", 0, 19, "TEST_GROUP_2", 2),
                                      TestRow("test_ge_20", 20, Open, "TEST_GROUP_3", 3)}
MCDefaultPrices == {Rule("iap_2_9", TRUE, 0), Rule("iap_9_9", TRUE, 0)}

Content(single, prs, rgs) == [single |-> single, prices |-> prs, ranges |-> rgs]

MCDefaultPayload == [s \in RuleSets |->
    Content(IF s = price THEN {Rule(NoKey, TRUE, 0)} ELSE {}, {}, {})]

\* The page's price list, with one price changed or wrong; its table of ranges, without the
\* test rows, and with rows the person entered: one for up to 60 and 61, and one that overlaps.
Wide == Row("custom_material_1", 0, 61, "BASE_2_COPY_2", 2, 0, 3)
MCPayloads == {Content({}, {Rule("iap_2_9", TRUE, 1), Rule("iap_9_9", TRUE, 0)}, {}),
               Content({}, {Rule("iap_2_9", FALSE, 2), Rule("iap_9_9", TRUE, 0)}, {}),
               Content({}, {}, NormalRanges),
               Content({}, {}, {Wide}),
               Content({}, {}, NormalRanges \cup {Wide})}
=============================================================================
