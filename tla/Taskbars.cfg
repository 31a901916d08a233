SPECIFICATION FairSpec
CONSTANTS
  Windows = {w1, w2}
  Managers = {m1}
  Infos = {i1, i2}
  None = none
INVARIANTS TypeOK ToldIsAnnounced ParentIsTold
PROPERTY TaskbarsCatchUp
