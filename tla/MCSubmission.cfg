\* The form's call, two retries and a stranger, with every answer that can be lost.
SPECIFICATION Spec
CONSTANTS
  First = first
  Retries = {retry1, retry2}
  Foreign = {stranger}
  quake = quake
  other = other
  Inputs <- MCInputs
  InputOf <- MCInputOf
  NoInput = noInput
  NoCall = noCall
INVARIANTS
  OneTaskPerJob
  AcceptedInput
CHECK_DEADLOCK FALSE
