SPECIFICATION FairSpec
CONSTANTS
  Surfaces = {bar, win}
  Toplevels = {win}
  Timed = {bar}
  Fifo = {win}
  Fenced = {win}
  Quiet = {}
  Outputs = {o1}
  MaxDelay = 2
  MaxHeld = 2
  None = none
INVARIANTS TypeOK NoReadyCommitWaits TimerCovers BarrierHasFlip
PROPERTIES NotBeforeItsTime TimedCommitsApply FifoMovesOn
