CONSTANTS
  Flow = {f1, f2}
  Browser = {b1, b2}
  Request = {r1, r2, r3, r4}
  Path = {"/profile"}
  Elsewhere = {}
  OldToken = t0
  Shared = FALSE
  StoreFails = TRUE
SYMMETRY Symmetry
SPECIFICATION Spec
INVARIANTS OnlyStarterFinishes RedirectFollowsFlow OneCookiePerLogin DestroyedStaysGone
CHECK_DEADLOCK FALSE
