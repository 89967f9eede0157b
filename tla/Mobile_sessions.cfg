CONSTANTS
  None = None
  Calls = {c1, c2, c3}
  Sessions = {s1, s2}
  Tokens = {t1, t2, t3}
  Coordinators = {k1, k2}
  Scopes = {mobile, admin}
  MobileScope = mobile
  MaxPassword = 1
  MaxFaults = 1
SYMMETRY Symmetric
SPECIFICATION MSpec
CHECK_DEADLOCK FALSE
INVARIANTS
  OneWinner
  OneSuccessor
  ReuseEndsFamily
  PasswordCutsOff
  SwitchLeavesOne
  StoredIsUsable
  ReuseHasCause
PROPERTIES
  KeepsFamilies
