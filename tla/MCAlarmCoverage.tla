-------------------------- MODULE MCAlarmCoverage --------------------------
EXTENDS AlarmCoverage

MCRecommended == [r1 |-> {"m1"}, r2 |-> {"m1", "m2"}]
MCRegionOf == [r1 |-> "a", r2 |-> "b"]
=============================================================================
