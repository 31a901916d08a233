CONSTANTS
  Windows = {w1}
  Layers = {l1, l2}
  LockSurface = lock
  None = none
  ModalHints = {FALSE, TRUE}
  LockClients = TRUE
SPECIFICATION FairSpec
INVARIANTS TypeOK
PROPERTIES ExclusiveGetsKeyboard
