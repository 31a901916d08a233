SPECIFICATION DpmsSpec
CONSTANTS
  Outputs = {o1}
  MaxIdles = 2
INVARIANT
  PresentedMeansShown
