---------------------------- MODULE MCRetraining ----------------------------
EXTENDS Retraining

CONSTANTS c1, c2, w1, w2
=============================================================================
