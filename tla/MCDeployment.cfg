\* Two stacks of different releases, failures and updates, a table owned by web.
SPECIFICATION FairDeployment
CONSTANTS
  old = old
  new = new
  users = users
  simulations = simulations
  Stacks = {old, new}
  FilesOf <- MCFilesOf
  TablesOf <- MCTablesOf
  Legacy = {users}
  NoStack = noStack
  MaxFailures = 2
  MaxUpdates = 2
INVARIANTS
  AppliedOnceInOrder
PROPERTIES
  EventuallyGranted
CHECK_DEADLOCK FALSE
