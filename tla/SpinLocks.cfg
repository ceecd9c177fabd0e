CONSTANTS
  Threads = {t1, t2, t3}
  locked = locked
  data = data
  Cells = {locked, data}
  BufferSize = 2
  Rounds = 2
SPECIFICATION FairSpec
INVARIANTS MutualExclusion SectionsSeeEachOther ExclusionFailsOnlyByOverlap
PROPERTIES SomebodyEnters SoloEnters
CHECK_DEADLOCK FALSE
