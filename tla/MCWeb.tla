------------------------------- MODULE MCWeb -------------------------------
\* Small instances of Web for TLC.
EXTENDS WebProperties, TLC
Symmetry == Permutations(Browser) \cup Permutations(Request) \cup Permutations(Flow)
============================================================================
