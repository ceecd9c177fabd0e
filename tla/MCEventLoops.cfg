CONSTANTS
  Workers = {w1, w2}
  Threads = {w1, w2, main}
  Main = main
  Nobody = nobody
  f1 = f1
  f2 = f2
  f3 = f3
  generator = generator
  Fibers <- MCFiberSet
  Coroutines <- MCCoroutines
  Nested <- MCNested
  Budget = 3
  Generators = {g1, g2, g3}
  None = none
  Resumptions = 3
  Tasks = {t1, t2, t3, t4}
  NoTask = notask
  Clients = {k1, k2}
  Readers = {k1}
  kBufferSize = 2
  WireSize = 2
  MaxBytes = 3
  MaxAcceptErrors = 1
SPECIFICATION MCSpec
INVARIANTS OneDispatcher HandlersOwnFibers CallersNest StacksAccounted JoinLosesNothing EchoConserved ExceptionsClimb PromisedTasksRun
PROPERTIES ImplementsCoroutines JoinEnds ReadersServed
CHECK_DEADLOCK FALSE
