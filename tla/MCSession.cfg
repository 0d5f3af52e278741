SPECIFICATION Spec
CONSTANTS
  admin = admin
  app = app
  fin = fin
  Tab = {t1, t2}
  User = {admin, app, fin}
  RoleOf <- Roles3
  TTL = 4
  Lead = 3
  Trip = 1
  MaxFaults = 1
  None = None
INVARIANTS
  NoTabIsStale
  OnlyTheEmailIsRefused
PROPERTIES
  StaysSignedIn
SYMMETRY Tabs
CHECK_DEADLOCK FALSE
