CONSTANTS
  N = 2
  Thread <- MCThread
  idle <- MCidle
  destroyer <- MCdestroyer
  Main = Main
  User = {}
  Exiting = {Main}
  killedThread = killedThread
  NoThread = NoThread
SPECIFICATION Spec
CONSTRAINT PopBound
INVARIANTS TypeOK LockInv NoSpinCycle NoThreadLost
CHECK_DEADLOCK FALSE
