CONSTANTS
  Windows = {w1, w2, w3}
  Layers = {}
  LockSurface = lock
  None = none
  ModalHints = {FALSE}
  LockClients = TRUE
SPECIFICATION Spec
SYMMETRY WindowSymmetry
INVARIANT LockedKeyboard
