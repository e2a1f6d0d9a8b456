------------------------------ MODULE MCMenus -------------------------------
(* A small instance of Menus: four windows, three programs of which two have  *)
(* one name, some files.                                                      *)
EXTENDS Menus

MCWindows ==
  [w1 |-> [label |-> <<1, 2>>, names |-> <<<<2>>>>, class |-> <<2, 1>>, hidden |-> FALSE],
   w2 |-> [label |-> <<>>, names |-> <<<<1>>, <<2, 2>>>>, class |-> <<1>>, hidden |-> TRUE],
   w3 |-> [label |-> <<>>, names |-> <<<<2>>>>, class |-> <<1, 1>>, hidden |-> FALSE],
   w4 |-> [label |-> <<2>>, names |-> <<<<1>>>>, class |-> <<2>>, hidden |-> TRUE]]

Items(texts) == [i \in DOMAIN texts |-> [text |-> texts[i], ctx |-> "item"]]

MCEntries ==
  [window |-> [i \in 1..4 |-> [text |-> <<>>, ctx |-> <<"w2", "w4", "w3", "w1">>[i]]],
   exec   |-> Items(<<<<1, 2>>, <<1>>, <<1, 2>>, <<1, 1, 2>>>>),
   ssh    |-> Items(<<<<2, 1, 1>>, <<2, 1, 2>>>>),
   group  |-> Items(<<<<1>>, <<2>>>>),
   label  |-> <<>>,
   unhide |-> [i \in 1..2 |-> [text |-> <<>>, ctx |-> <<"w4", "w2">>[i]]]]

MCPaths == {<<1, 1>>, <<2>>, <<2, 1>>}
MCExecutable == {<<2>>, <<2, 1>>}
=============================================================================
