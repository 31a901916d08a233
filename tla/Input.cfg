SPECIFICATION FairSpec
CONSTANTS
  Keys = {"logo", "Return", "F1"}
  Modifiers = {"logo"}
  Sym <- Layout
  Surfaces = {s1}
  MaxPresses = 2
INVARIANTS TypeOK OnlyWakingLoses InhibitorKeepsAwake
PROPERTY IdleComes
