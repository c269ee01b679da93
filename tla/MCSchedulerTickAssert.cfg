CONSTANTS
  N = 2
  Thread <- MCThread
  idle <- MCidle
  destroyer <- MCdestroyer
  Main = Main
  User = {}
  Exiting = {Main}
  killedThread = killedThread
  NoThread = NoThread
SPECIFICATION Spec
INVARIANT TickAssert
CHECK_DEADLOCK FALSE
