---------------------------- MODULE MCDriftLoop ----------------------------
EXTENDS DriftLoop

CONSTANTS m1, m2, t1, t2
=============================================================================
