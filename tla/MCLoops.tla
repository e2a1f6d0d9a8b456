------------------------------ MODULE MCLoops ------------------------------
(***************************************************************************)
(* Screens with three windows in three groups, in every mix of hidden,     *)
(* sticky and ignored windows and with a current client anywhere in the    *)
(* list, with a client of no window in a group or not, and the screen      *)
(* without a window.                                                       *)
(***************************************************************************)
EXTENDS Loops

CONSTANTS w1, w2, w3, f1

NoTransients == [w \in Windows |-> NoClient]
NoAutogroup  == [w \in Windows |-> NoGroup]

Screen(q, f, g, cur, all) ==
  [ clientq |-> q,
    flags   |-> [c \in Clients |->
                   (IF c \in Windows THEN f[c] ELSE {}) \cup (IF c = cur THEN {"ACTIVE"} ELSE {})],
    group   |-> g,
    members |-> [h \in Groups |-> {c \in Clients : g[c] = h}],
    hidden_groups |-> {}, group_current |-> FirstGroup,
    hideall |-> all, cycling |-> FALSE, curcc |-> cur, alive |-> TRUE,
    app        |-> [w \in Windows |-> IF w \in ToSet(q) THEN "shown" ELSE "gone"],
    mapped     |-> [w \in Windows |-> w \in ToSet(q) /\ "HIDDEN" \notin f[w]],
    wm_state   |-> [w \in Windows |-> "none"],
    wm_desktop |-> [w \in Windows |-> g[w]],
    net_active |-> cur, net_desktop |-> FirstGroup,
    net_clients |-> ToSet(q), evq |-> <<>> ]

FlagSets == {{}, {"HIDDEN"}, {"STICKY"}, {"HIDDEN", "STICKY"}, {"IGNORE"}}

FullScreens ==
  {Screen(<<w1, w2, w3>>, f, g, cur, all) :
     f \in [Windows -> FlagSets],
     g \in {h \in [Clients -> Groups \cup {NoGroup}] :
              \A w \in Windows : h[w] # NoGroup /\ \A c \in Fakes : h[c] # LastGroup},
     cur \in {NoClient, w1, w2}, all \in BOOLEAN}

MCStarts ==
  {s \in FullScreens : s.curcc = NoClient \/ ~Has(s, s.curcc, "HIDDEN")}
    \cup {Screen(<<>>, [w \in Windows |-> {}], [c \in Clients |-> NoGroup],
                 NoClient, FALSE)}
=============================================================================
