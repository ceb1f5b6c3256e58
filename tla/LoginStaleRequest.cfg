CONSTANTS
  a1 = a1  a2 = a2  srv1 = srv1  srv2 = srv2
  Account = {a1}
  Server = {srv1, srv2}
  Flow = {f1}
  Finish = {c1}
  Logout = {}
  MaxCodes = 1
  AuthServerOf <- OneAccount
  StoreFails = FALSE
  Crashes = FALSE
SPECIFICATION Spec
INVARIANT CallbackSpendsRequest
