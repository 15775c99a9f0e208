CONSTANTS
  Requests = {r1}
  Endpoints = {"register", "join", "link", "verify_email", "forgot", "reset", "change", "deactivate", "activate", "mfa_setup", "mfa_verify", "mfa_disable", "age"}
  Passwords = {p1, p2}
  Tokens = {t1, t2, t3}
  Secrets = {s1, s2}
  Identities = {google, github}
  None = None
SPECIFICATION Spec
SYMMETRY MCSymmetry
INVARIANT MfaUsable
PROPERTY ResetOnce
PROPERTY ActiveIsVerified
PROPERTY DisabledWithCode
