CONSTANTS
  Windows = {w1, w2, w3}
  Layers = {}
  LockSurface = lock
  None = none
  ModalHints = {FALSE}
  LockClients = FALSE
SPECIFICATION Spec
SYMMETRY WindowSymmetry
INVARIANTS ZOrderIsStack ActiveIsTop KeyboardGoesToScreen PointerGoesToScreen
PROPERTY FullscreenNotStolen
