CONSTANTS
  NSID = {profile, track}
  Version = {v1, v2}
  None = none
  MaxChanges = 3
SYMMETRY Symmetry
SPECIFICATION Spec
PROPERTIES PublishesTheCommit NeverReplaces SuccessIsInSync
