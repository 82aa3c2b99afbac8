SPECIFICATION AllSpec
CONSTANTS
  r1 = r1
  r2 = r2
  r3 = r3
  r4 = r4
  r5 = r5
  r6 = r6
  n1 = n1
  n2 = n2
  c1 = c1
  w1 = w1
  w2 = w2
  lane = lane
  Lanes = {lane}
  Notify = Notify
  None = None
  Requests = {r1, r2, r3, r4, r5, r6}
  Notices = {n1, n2}
  Cancels = {c1}
  Ids = {1, 2}
  Sessions <- ReuseEndless
  Workers <- TwoWorkers
  Blocking = {r6}
  IdOf <- Ids12
  ModeOf <- Modes1
  LaneOf <- Lanes1
  PriorityOf <- Priorities1
  MaxDeferred = 1
  MaxEarlyCancelled = 1
  Tasks = {"a", "b", "c"}
  Background = {"c"}
  Hanging <- OneMayHang
  Threads = {"t1", "t2"}
  Core = {"t1"}
INVARIANTS WakeupsKept
PROPERTIES ImplementsService StopCompletes PoolDrains
\* A handler that never returns, routed once cancelAll has run, holds the stop up.
CHECK_DEADLOCK FALSE
