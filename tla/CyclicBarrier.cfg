CONSTANTS
  Participants = {p1, p2, p3, p4}
  Rounds = 3
SPECIFICATION FairSpec
INVARIANTS OneRoundAtATime NobodySleepsThrough
PROPERTY ImplementsBarrier
CHECK_DEADLOCK FALSE
