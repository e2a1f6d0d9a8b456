\* Tidy applications, and commands that come when cwm is idle; a dialog, an
\* autogroup and an ignore directive, and a window without a class
SPECIFICATION Spec
CONSTANTS
  w1 = w1
  w2 = w2
  f1 = f1
  Windows = {w1, w2}
  Fakes = {}
  NoClient = NoClient
  NGROUPS = 2
  Ignored = {w1}
  TransientFor <- Dialog
  Classless = {w2}
  Autogroup <- FirstToOne
  MaxEvents = 2
  Calm = TRUE
  Habits = {"preset_desktop"}
INVARIANTS
  MappedIsManaged
  UnmappedIsListed
  WithdrawnIsReleased
PROPERTIES
  DialogsJoin
  StickyStays
  ImplementsDesktop
