\* Two requests at once, a job that fails and runs again, deadlines, refusals and a fault
\* of any kind.
SPECIFICATION StreamSpec
CONSTANTS
  Slots = {s1, s2}
  NoSlot = none
  MaxRevision = 3
  MaxReruns = 1
  MaxFaults = 1
  MaxFailures = 1
PROPERTIES
  ImplementsWatcher
  ShownNeverGoesBack
  FinalStatusShown
  ConnectionsReleased
CHECK_DEADLOCK FALSE
