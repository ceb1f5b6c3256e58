CONSTANTS
  Alphabet <- Char
  MaxLength = 6
SPECIFICATION Spec
INVARIANTS LocationIsLocal CleanIsLexical QueryIsKept
PROPERTIES SecondPassKeeps CheckedIsRedirected
CHECK_DEADLOCK FALSE
