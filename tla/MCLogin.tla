------------------------------ MODULE MCLogin ------------------------------
\* Small instances of Login for TLC.
EXTENDS LoginProperties, LoginRefinement, FiniteSets, TLC
CONSTANTS a1, a2, srv1, srv2
OneAccount == (a1 :> srv1)
TwoAccounts == (a1 :> srv1 @@ a2 :> srv2)
Symmetry == Permutations(Flow) \cup Permutations(Finish) \cup Permutations(Logout)
============================================================================
