CONSTANTS
  a1 = a1  a2 = a2  srv1 = srv1  srv2 = srv2
  Account = {a1, a2}
  Server = {srv1, srv2}
  Flow = {f1}
  Finish = {c1, c2}
  Logout = {}
  MaxCodes = 2
  AuthServerOf <- TwoAccounts
  StoreFails = TRUE
  Crashes = TRUE
SYMMETRY Symmetry
SPECIFICATION Spec
INVARIANTS SessionsAccountedFor SpentRequestsAreGone SessionsAreTheAccounts
PROPERTY ProfileNeverReplaced
