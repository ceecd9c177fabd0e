CONSTANTS
  client1 = client1
  client2 = client2
  a = a
  b = b
  c = c
  d = d
  NoTask = NoTask
  Takers = {w1, w2}
  Clients <- MCClients
  Tasks <- MCTasks
  Spawns <- MCSpawns
  Runners = {r1, r2}
  Awaiters = {t1, t2}
  MaxRunning = 2
SPECIFICATION MCSpec
INVARIANTS WorkConserving CounterAccounting JoinCompletes AbortsOnlyAfterRefusal SleepersHaveATask
PROPERTIES ShutdownDropsQueued StopCompletes
CHECK_DEADLOCK FALSE
