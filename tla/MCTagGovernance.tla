-------------------------- MODULE MCTagGovernance --------------------------
EXTENDS TagGovernance
=============================================================================
