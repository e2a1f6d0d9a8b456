\* Tidy applications, and commands that race with unread structure events
SPECIFICATION Spec
CONSTANTS
  w1 = w1
  w2 = w2
  f1 = f1
  Windows = {w1, w2}
  Fakes = {}
  NoClient = NoClient
  NGROUPS = 2
  Ignored = {}
  TransientFor <- NoTransients
  Classless = {}
  Autogroup <- NoAutogroup
  MaxEvents = 2
  Calm = FALSE
  Habits = {}
SYMMETRY Symmetry
INVARIANTS
  TypeOK
  ActiveIsCurrent
  ListsAgree
  PagerView
  CurrentIsMostRecent
  CurrentIsVisible
  HiddenIsUnmapped
