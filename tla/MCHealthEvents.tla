--------------------------- MODULE MCHealthEvents ---------------------------
EXTENDS HealthEvents

MCCategoryOf == [e1 |-> "issue", e2 |-> "investigation"]
MCAffected == {<<"e1", "x">>, <<"e1", "y">>, <<"e2", "y">>}
=============================================================================
