CONSTANTS
  Seats = 3
  Threads = {0, 1, 2}
  Locks = {0, 1, 2}
  TicketRange = 3
SPECIFICATION Spec
INVARIANT TryLockNeverWaits
