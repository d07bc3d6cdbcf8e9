CONSTANTS
  NStages = 1
  Thread = {c1, c2}
  Builds = {"heap", "static"}
  MaxBlocks = 2
SPECIFICATION Spec
INVARIANTS TypeOK NothingLeaks ReleasesWhatItHolds ContainersLast OneStaticInstance
