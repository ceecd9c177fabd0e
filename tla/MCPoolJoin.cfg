CONSTANTS
  client1 = client1
  client2 = client2
  a = a
  b = b
  c = c
  d = d
  NoTask = NoTask
  Takers = {w1, w2}
  Clients <- MCClients
  Tasks <- MCTasks
  Spawns <- MCSpawns
SPECIFICATION FairSpec
PROPERTY JoinAlwaysReturns
CHECK_DEADLOCK FALSE
