SPECIFICATION SteadySpec
CONSTANTS
  Outputs = {o1, o2}
  MaxIdles = 1
PROPERTY
  LockIsGranted
