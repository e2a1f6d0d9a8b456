----------------------------- MODULE MCGeometry -----------------------------
(***************************************************************************)
(* An output of 12 by 10 with a gap at the top, one window that is handled *)
(* and two beside it.                                                      *)
(***************************************************************************)
EXTENDS Geometry

CONSTANTS w1, w2, w3

MCView   == Rect(0, 0, 12, 10)
MCGap    == [top |-> 1, bottom |-> 0, left |-> 0, right |-> 0]
\* A window that asks for nothing; one with hints, placed at the pointer; one
\* that names its place and its states; one found maximised at the start
None == [geom |-> Rect(6, 5, 2, 3), border |-> 0, viewable |-> FALSE,
         size |-> [flags |-> {}], atoms |-> <<>>, pointer |-> <<6, 9>>]
Sized == [flags |-> {"PMinSize", "PMaxSize", "PResizeInc"},
          min |-> <<2, 1>>, max |-> <<8, 7>>, inc |-> <<2, 0>>]
MCOpenings ==
  { None,
    [None EXCEPT !.size = Sized, !.pointer = <<0, 0>>, !.atoms = <<"HMAX">>],
    [None EXCEPT !.size = [flags |-> {"Position"}], !.geom.x = 11, !.border = 1,
                 !.atoms = <<"VMAX", "FULLSCREEN">>],
    [None EXCEPT !.viewable = TRUE, !.atoms = <<"FULLSCREEN", "HMAX">>],
    [None EXCEPT !.viewable = TRUE, !.atoms = <<"HMAX", "VMAX">>] }
MCStarts == {Rect(6, 5, 2, 3)}
MCAmounts == {<<2, -1>>}
MCPoints  == {<<4, 2>>}

\* Seven sessions: someone who maximises and moves windows beside pagers and
\* applications; toggles in every order; windows expanded and tiled after they
\* were maximised, or were in fullscreen; windows snapped and dragged; and a
\* sticky window that is moved, in fullscreen or maximised from group to group
MCSessions ==
  { [commands |-> {"maximize", "fullscreen", "message", "move", "resize",
                   "configure"}, placements |-> 1, mixtures |-> 1],
    [commands |-> {"maximize", "fullscreen", "freeze", "border"},
     placements |-> 0, mixtures |-> 1],
    [commands |-> {"maximize", "fullscreen", "expand", "tile"},
     placements |-> 1, mixtures |-> 2],
    [commands |-> {"maximize", "freeze", "snap", "drag", "sweep"},
     placements |-> 1, mixtures |-> 0],
    [commands |-> {"fullscreen", "border", "expand", "tile"},
     placements |-> 1, mixtures |-> 2],
    [commands |-> {"sticky", "group", "move", "drag", "fullscreen"},
     placements |-> 3, mixtures |-> 0],
    [commands |-> {"sticky", "group", "move", "maximize"},
     placements |-> 1, mixtures |-> 0] }

\* The hypothesis of the theorem on NormalIsKept
ASSUME MCSizesAgree == SizesAgree
=============================================================================
