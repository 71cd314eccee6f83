\* Any three calls on up to two rows; any two calls on three rows and one reader.
CONSTANTS
  r1 = r1
  r2 = r2
  r3 = r3
  c1 = c1
  c2 = c2
  c3 = c3
  None = None
  Row = {r1, r2, r3}
  There = {r1, r2}
  Call = {c1, c2, c3}
  Place <- Places
  PageSize = 1
SPECIFICATION SceneSpec
SYMMETRY CallSymmetry
INVARIANTS
  ArchivedIffDated
  SecretInHands
  WalkMissesNothing
CHECK_DEADLOCK FALSE
