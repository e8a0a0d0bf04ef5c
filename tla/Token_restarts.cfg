SPECIFICATION Spec
CONSTANTS
  Logins = {l1, l2, l3}
  Verifiers = {v1, v2, v3}
  Kinds = {"stop", "login", "reset", "revoke", "expire"}
  Faults = {"discoveryFails", "renewalFails"}
  None = None
SYMMETRY Symmetry
INVARIANTS
  TypeOK
  RefreshAhead
  LoginSurvivesRestart
  LoginUrlIsCurrent
  CodeMeetsItsVerifier
  NoNeedlessLogin
