CONSTANTS
  N = 1
  Thread <- MCThread
  idle <- MCidle
  destroyer <- MCdestroyer
  Main = Main
  User = {u1, u2}
  Exiting = {Main, u1, u2}
  killedThread = killedThread
  NoThread = NoThread
SPECIFICATION FairSpec
INVARIANTS AssertsHold MemorySafe NoDangling
PROPERTIES QueuedRuns ExitedFreed
CHECK_DEADLOCK FALSE
