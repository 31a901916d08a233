SPECIFICATION LiveSpec
CONSTANTS
  Outputs = {o1, o2}
  MaxIdles = 1
PROPERTIES
  SingleLockIsGranted
  RestingLockIsGranted
  DamageIsDrawn
