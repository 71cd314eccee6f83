\* Two calls at a time, any number after each other; two rotations.
CONSTANTS
  c1 = c1
  c2 = c2
  t0 = t0
  t1 = t1
  t2 = t2
  none = none
  Calls = {c1, c2}
  Tokens = {t0, t1, t2}
  FirstToken = t0
  NoToken = none
SPECIFICATION FairSpec
INVARIANTS
  RotationIsAChain
PROPERTIES
  SessionImplemented
  RevocationIsFinal
  EveryCallEnds
