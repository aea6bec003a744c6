SPECIFICATION Spec
CONSTANTS
  Sess = {s1, s2}
  Handlers = {h1, h2}
  Background = {"main", "cleanup"}
  Hung = {}
INVARIANTS
  TypeOK
  OnlyCleanupDeadlocks
SYMMETRY Symmetry
CHECK_DEADLOCK FALSE
