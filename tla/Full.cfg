SPECIFICATION Spec
CONSTANTS
  Outputs = {o1, o2}
  MaxIdles = 2
SYMMETRY Symmetry
INVARIANTS
  TypeOK
  LockGapIsOneFlip
  OffStaysDark
  AwaitedComes
PROPERTIES
  FramesOnlyToLive
  OnlySecondFrameExposes
  OnlyFailedSubmitStrands
  KeepsPromise
