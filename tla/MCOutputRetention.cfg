\* Two simulations, three deliveries in all, two passes with a batch of one that
\* may meet on a job, one death of a pass, uploads that outlive their attempt, and
\* a reader.
SPECIFICATION FairSpec
CONSTANTS
  Jobs = {j1, j2}
  NoJob = none
  Files = {f1}
  Metadata = metadata
  MaxAttempt = 2
  MaxStarts = 3
  Passes = {p1, p2}
  Batch = 1
  Readers = {r1}
  MaxAborts = 1
INVARIANTS
  DanglingIsExpirable
  ExpiredMeansGone
  GoneIsFinal
PROPERTY EventuallyExpired
CHECK_DEADLOCK FALSE
