----------------------------- MODULE MCSession ------------------------------
EXTENDS Session, TLC
CONSTANTS admin, app, fin
Roles3 == (admin :> "admin") @@ (app :> "approver") @@ (fin :> "finance_user")
Tabs == Permutations(Tab)
=============================================================================
