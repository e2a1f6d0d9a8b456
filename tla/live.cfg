\* Commands at any time, an application that sets and clears its _NET_WM_STATE
\* and withdraws its window while it is hidden, and cwm that may stop and start
SPECIFICATION LSpec
CONSTANTS
  w1 = w1
  w2 = w2
  Windows = {w1}
  Fakes = {}
  NoClient = NoClient
  NGROUPS = 2
  Ignored = {}
  TransientFor <- NoTransients
  Classless = {}
  Autogroup <- NoAutogroup
  MaxEvents = 2
  Calm = FALSE
  Habits = {"state_hidden", "state_sticky", "withdraw_hidden"}
PROPERTIES
  OneGroupOnDisplay
  RequestsAreServed
  WithdrawalsAreServed
  RestartRestores
  StartsClean
