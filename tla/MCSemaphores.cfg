CONSTANTS
  Producers = {p1, p2, p3}
  Consumers = {c1, c2}
  Values = {a, b}
  NoValue = none
  Capacity = 2
  Semaphores <- MCSemaphores
  Users = {u1, u2, u3}
  Tagged = {s1, s2}
  Tokens = 1
SPECIFICATION MCSpec
INVARIANTS PermitsConserved NobodyOversleeps TokensConserved
PROPERTY ImplementsQueue
