\* Four names, three runs, two edits at any time, of one privilege for each
\* statement that repairs privileges and of those none repairs.
SPECIFICATION Spec
CONSTANTS
  r1 = r1
  r2 = r2
  r3 = r3
  r4 = r4
  Names = {r1, r2, r3, r4}
  Protected = {}
  MaxRuns = 3
  MaxEdits = 2
  Editable = {"q_insert", "c_usage", "c_create", "c_update", "authority",
              "managed_default", "execute", "other_grant"}
  NoName = noName
SYMMETRY MCSymmetry
INVARIANTS
  RecordedRolesExact
  GrantsAreRecorded
PROPERTIES
  UnmanagedUntouched
CHECK_DEADLOCK FALSE
