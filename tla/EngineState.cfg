SPECIFICATION AllSpec
CONSTANTS
  r1 = r1
  r2 = r2
  r3 = r3
  r4 = r4
  r5 = r5
  r6 = r6
  n1 = n1
  n2 = n2
  c1 = c1
  w1 = w1
  w2 = w2
  lane = lane
  Lanes = {lane}
  Notify = Notify
  None = None
  Requests = {r1, r2, r3, r4, r5, r6}
  Notices = {n1, n2}
  Cancels = {c1}
  Ids = {1, 2}
  Sessions <- SerialBlameReuse
  Workers <- TwoWorkers
  Blocking = {r6}
  IdOf <- Ids12
  ModeOf <- Modes1
  LaneOf <- Lanes1
  PriorityOf <- Priorities1
  MaxDeferred = 1
  MaxEarlyCancelled = 1
  Fillers <- TwoWorkers
  Values = {0, 1}
  MaxEdits = 1
  Budget = 3
  Sizes = {1, 2}
  Repos = {"r1", "r2"}
  Dirs = {"refs", "heads", "tags"}
  Top = "refs"
  In <- Above
  QueueLimit = 3
  MaxChanges = 5
  Tick = 2
  RacyWindow = 2
  MaxWrites = 3
  MaxTime = 5
SYMMETRY Threads
\* What a component waits for may never come.
CHECK_DEADLOCK FALSE
INVARIANTS OneDrain OrderKept AccountsExact CancelsExact DrainAnswersAll BlameExact WatchesKept SweptIsHeard GraphDrawn PlanKept LogsExact
