SPECIFICATION Spec
CONSTANTS
  Tabs = {t1, t2}
  MaxCalls = 2
  MaxLosses = 1
  Requests = {q1, q2, q3}
  Confirmations = {c1, c2}
  MaxFailures = 1
  Paired = {d1, d2}
  Owners = {u1, u2}
  MaxPairings = 3
  MaxJobs = 2
  Targets = {d1, d2}
  ByteValues = 2
  Dlc = 2
  BufferSize = 3
  MaxSends = 3
  MaxUpsets = 1
  DongleList <- McDongles
  GroupList <- McGroups
INVARIANTS PagesAreTrue ResetsSound RotationSound
PROPERTIES EndsInOrder
CHECK_DEADLOCK FALSE
