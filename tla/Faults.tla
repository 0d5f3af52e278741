------------------------------- MODULE Faults -------------------------------
(***************************************************************************)
(* What goes wrong in a model: a process that dies, a request that is lost,*)
(* a connection that breaks.  The actions that do it count it here, and a  *)
(* run lets MaxFaults of them happen.                                      *)
(***************************************************************************)
EXTENDS Naturals, FiniteSets

CONSTANT MaxFaults  \* bound: how much goes wrong

ASSUME MaxFaultsIsNatural == MaxFaults \in Nat

VARIABLE faults  \* history: how much has gone wrong

Fault == faults < MaxFaults /\ faults' = faults + 1
=============================================================================
