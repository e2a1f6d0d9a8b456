\* A search for a window of the current group
SPECIFICATION Spec
CONSTANTS
  w1 = w1
  w2 = w2
  f1 = f1
  Windows = {w1, w2}
  Fakes = {}
  NoClient = NoClient
  NGROUPS = 2
  Ignored = {}
  TransientFor <- NoTransients
  Classless = {}
  Autogroup <- NoAutogroup
  MaxEvents = 2
  Calm = TRUE
  Habits = {}
SYMMETRY Symmetry
PROPERTIES
  SearchFinds
