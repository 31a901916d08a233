CONSTANTS
  Windows = {w1, w2}
  Layers = {}
  LockSurface = lock
  None = none
  ModalHints = {FALSE}
  LockClients = FALSE
SPECIFICATION Spec
SYMMETRY WindowSymmetry
INVARIANT FullscreenKeepsKeyboard
