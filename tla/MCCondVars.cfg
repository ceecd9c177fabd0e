CONSTANTS
  p1 = p1
  p2 = p2
  c1 = c1
  c2 = c2
  Producers <- MCProducers
  Consumers <- MCConsumers
  Values = {a, b}
  NoValue = none
  Nobody = nobody
  Unseen = unseen
  Capacity = 1
  CounterRange = 3
  CondVars <- MCCondVars
  Waiters <- MCWaiters
  SignalRange = 3
  NotNoted = unseen
SPECIFICATION MCSpec
INVARIANT NobodyOversleeps
PROPERTIES ImplementsQueue TurnsTaken
