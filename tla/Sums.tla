-------------------------------- MODULE Sums --------------------------------
(***************************************************************************)
(* Sums over finite sets.                                                  *)
(***************************************************************************)
EXTENDS Integers, FiniteSets
SetsExt == INSTANCE FiniteSetsExt

Sum(f, S) == SetsExt!MapThenSumSet(LAMBDA x : f[x], S)
=============================================================================
