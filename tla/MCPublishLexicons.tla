------------------------- MODULE MCPublishLexicons -------------------------
EXTENDS PublishLexicons, TLC
Symmetry == Permutations(NSID) \cup Permutations(Version)
============================================================================
