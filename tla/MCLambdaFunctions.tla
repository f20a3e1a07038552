------------------------- MODULE MCLambdaFunctions -------------------------
EXTENDS LambdaFunctions

MCCategoryOf == [e1 |-> "issue", e2 |-> "investigation"]
MCAffected == {<<"e1", "x">>, <<"e1", "y">>, <<"e2", "y">>}

MCRecommended == [r1 |-> {"m1", "m2"}, r2 |-> {"m1", "m2"}, r3 |-> {"m2"}]
MCUnresolved == {<<"r2", "m2">>, <<"r3", "m2">>}
MCRegionOf == [r1 |-> "a", r2 |-> "b", r3 |-> "b"]

Runtime(region, age, deprecated, eol) ==
    [region |-> region, age |-> age, deprecated |-> deprecated, eol |-> eol]
MCFunctions == [f1 |-> Runtime("a", 2, 0, 1), f2 |-> Runtime("a", 1, 0, 1),
                f3 |-> Runtime("b", 1, 1, 3), f4 |-> Runtime("b", 3, 1, 2)]

MCFiles == [f1 |-> {"x1"}, f2 |-> {"x2", "y2"}, f3 |-> {"x3"}, f4 |-> {"x4"}]

Line(r, f, a, s, u, b) == [recommended |-> r, floor |-> f, average |-> a, savings |-> s, upfront |-> u, breakEven |-> b, months |-> 12]
Asked(l, p, o, s, k, line) == [label |-> l, pool |-> p, option |-> o, service |-> s, rank |-> k, line |-> line]
MCQuery == [
  a1 |-> Asked("Database SP", "database", "Database SP", "savings plans", 0, Line(4, 4, 4, 6, 3, None)),
  b1 |-> Asked("RDS", "database", "reservations", "rds", 0, Line(4, 1, 4, 8, 0, None)),
  b2 |-> Asked("RDS", "database", "reservations", "rds", 1, Line(4, 2, 4, 8, 3, 10)),
  c1 |-> Asked("DynamoDB", "database", "reservations", "dynamodb", 0, Line(2, None, 2, -4, 0, None)),
  d1 |-> Asked("Redshift", "redshift", "reservations", "redshift", 0, Line(2, 2, 2, 9, 3, 14)) ]
Held(k, s, r, q, d) == [key |-> k, service |-> s, region |-> r, queued |-> q, days |-> d]
MCItem == [ i1 |-> Held("k1", "rds", "r1", FALSE, 30), i2 |-> Held("k1", "rds", "r1", TRUE, 400), i3 |-> Held("k2", "redshift", "r2", FALSE, 80), i4 |-> Held("k3", "savings plans", "r1", FALSE, 95) ]

Circuit(at, unit, region, told) ==
    [at |-> at, on |-> <<at, 0, unit>>, region |-> region, told |-> told]
MCCircuits == << Circuit(1, 1, "r1", TRUE), Circuit(1, 1, "r1", TRUE),
                 Circuit(2, 1, "r2", TRUE), Circuit(2, 2, "r2", FALSE) >>
MCAssociated == [g1 |-> {"r1", "r2"}, g2 |-> {"r1"}]
MCSite == [g1 |-> 11, g2 |-> 12]

MCContent == {[name |-> 1, sections |-> TRUE], [name |-> 2, sections |-> TRUE],
              [name |-> 1, sections |-> FALSE]}
=============================================================================
