----------------------------- MODULE MCScoring -----------------------------
EXTENDS Scoring

CONSTANTS r1, r2

Twins == {{r1, r2}}
=============================================================================
