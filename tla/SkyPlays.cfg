CONSTANTS
  Star = {s1, s2}
  MaxStarts = 3
  MaxLoops = 3
SPECIFICATION FairSpec
INVARIANTS TypeOK StoppedIsStill OneSweep PlayingIsHeard
PROPERTIES OldGainsGo RingingEnds
