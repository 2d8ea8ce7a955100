SPECIFICATION Spec
CONSTANTS
  Claimants = {"a1", "a2"}
  Removers = {"sweep"}
  MaxInode = 2
INVARIANT KernelsExclusive
CHECK_DEADLOCK FALSE
