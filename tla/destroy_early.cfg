\* An application destroys a window that cwm has yet to map
SPECIFICATION Spec
CONSTANTS
  w1 = w1
  w2 = w2
  f1 = f1
  Windows = {w1, w2}
  Fakes = {}
  NoClient = NoClient
  NGROUPS = 2
  Ignored = {}
  TransientFor <- NoTransients
  Classless = {}
  Autogroup <- NoAutogroup
  MaxEvents = 2
  Calm = TRUE
  Habits = {"destroy_early"}
SYMMETRY Symmetry
\* once cwm has crashed applications may wait for room in its queue
CHECK_DEADLOCK FALSE
INVARIANTS
  NeverNull
