CONSTANTS
  Flow = {f1}
  Browser = {b1, b2}
  Request = {r1, r2, r3}
  Path = {}
  Elsewhere = {"elsewhere"}
  OldToken = t0
  Shared = TRUE
  StoreFails = FALSE
SPECIFICATION FairSpec
INVARIANTS TypeOK LoginTokenIsFresh SessionsHeld
PROPERTY GoneSessionLosesCookie
CHECK_DEADLOCK FALSE
