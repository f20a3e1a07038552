------------------------- MODULE MCUpgradeAnalysis -------------------------
EXTENDS UpgradeAnalysis

Runtime(region, age, deprecated, eol) ==
    [region |-> region, age |-> age, deprecated |-> deprecated, eol |-> eol]
MCFunctions == [f1 |-> Runtime("a", 2, 0, 1), f2 |-> Runtime("a", 1, 0, 1)]
MCFiles == [f1 |-> {"x1"}, f2 |-> {"x2", "y2"}]
=============================================================================
