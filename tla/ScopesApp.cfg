CONSTANTS
  MainType = {"audio", "image", "video"}
  Subtype = {"mpeg", "png", "unnamed"}
  Pattern <- Patterns
  Collection <- Collections
  Other = {"rpc"}
  Grantable <- Permissions
  Requested <- AppScopes
  profile = "profile"
  track = "track"
SPECIFICATION Spec
INVARIANTS GrantSuffices NoGrantRefused
CHECK_DEADLOCK FALSE
