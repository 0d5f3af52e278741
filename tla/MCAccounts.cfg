SPECIFICATION Spec
CONSTANTS
  Call = {c1, c2}
  Company = {k1, k2}
  Username = {u1, u2}
  Email = {e1, e2}
  Invite = {v1}
  MaxFaults = 1
  Nothing = Nothing
INVARIANTS
  AccountsHaveRows
  DriftIsBounded
  InvitesAreSingleUse
  AcceptedIsMember
CHECK_DEADLOCK FALSE
