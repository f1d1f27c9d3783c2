SPECIFICATION Spec
CONSTANTS
  Procs = {p1, p2}
  Keys = {k1, k2}
  Tokens = {t1}
  Streams = {s1, s2, s3}
  NoBucket = NoBucket
  Limit = 2
  Window = 3
  PruneAfter = 2
  SessionLife = 1
  MaxStreams = 2
SYMMETRY Symmetry
INVARIANTS
  RequestsBounded
  AnsweredIsNotRepeated
  StreamsCounted
CHECK_DEADLOCK FALSE
