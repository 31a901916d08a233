SPECIFICATION FairSpec
CONSTANTS
  Cards = {"card0", "card1"}
  Crtcs = {"A", "B"}
  CardOf <- MCCardOf
  Panels <- SmallPanels
  Displays = {d1, d2}
  Handles = {h1, h2}
  None = none
INVARIANTS TypeOK ToldIsMode BlankedIsDark DarkIsWakeable
PROPERTIES WakingWakesAllPanels ConnectKeepsTiling LiveIsLit
