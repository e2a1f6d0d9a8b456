\* Two windows and two groups on each of two outputs
SPECIFICATION Spec
CONSTANTS
  w1 = w1
  w2 = w2
  Screenq <- MCScreenq
  Windows = {w1, w2}
  NGROUPS = 2
  Null = Null
  MaxCrossed = 1
SYMMETRY Symmetry
\* cwm may come to its end
CHECK_DEADLOCK FALSE
INVARIANTS
  OwnGroup
  FocusIsLive
  SoundUntilCrossed
PROPERTIES
  OutputsApart
