CONSTANTS
  Null = Null
  Procs = {p1, p2, p3, p4}
  Chans = {c1, c2}
SPECIFICATION Spec
INVARIANTS ListIsQueued CursorOnList
PROPERTIES ListImplementsSequence WalkIsComplete
