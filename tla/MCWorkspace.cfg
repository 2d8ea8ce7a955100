\* Three deliveries, the sweep, and a second lock file after an unlink.
SPECIFICATION FairSpec
CONSTANTS
  Claimants = {"a1", "a2", "a3"}
  Removers = {"sweep"}
  MaxInode = 2
INVARIANTS KernelHoldsItsLock SharesCovered OneLockFileExcludes
PROPERTIES ImplementsClaim ClaimsAreReleased
CHECK_DEADLOCK FALSE
