SPECIFICATION Spec
CONSTANTS
  NoRow = NoRow
  PageSize = 2
  MaxPages = 2
  Calls = {c1, c2, c3}
  Vks = {v1}
  ProofIds = {p1}
  Members = {s1}
  Signers = {s1, s2}
  Parts = 2
  NoFile = NoFile
INVARIANT CrashLeavesNoTornRecord
CHECK_DEADLOCK FALSE
