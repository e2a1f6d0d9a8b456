SPECIFICATION LoopSpec
CONSTANTS
  w1 = w1
  w2 = w2
  w3 = w3
  f1 = f1
  Windows = {w1, w2, w3}
  Fakes = {f1}
  NoClient = NoClient
  NGROUPS = 3
  Ignored = {}
  TransientFor <- NoTransients
  Classless = {}
  Autogroup <- NoAutogroup
  Starts <- MCStarts
\* a loop that has ended takes no more steps
CHECK_DEADLOCK FALSE
PROPERTIES
  ImplementsOneStep
