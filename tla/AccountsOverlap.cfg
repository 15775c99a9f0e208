CONSTANTS
  Requests = {r1, r2}
  Endpoints = {"register", "join", "link", "verify_email", "forgot", "reset", "change", "deactivate", "activate", "mfa_setup", "mfa_verify", "mfa_disable", "age"}
  Passwords = {p1, p2}
  Tokens = {t1, t2}
  Secrets = {s1}
  Identities = {google}
  None = None
SPECIFICATION Spec
SYMMETRY MCSymmetry
INVARIANT IInv
INVARIANT VerifiedOrPending
PROPERTY ColumnsApart
