------------------------------ MODULE OneStep -------------------------------
(***************************************************************************)
(* group_only, group_alltoggle and client_cycle as their callers see them: *)
(* one step that leaves what the closed forms of Groups and Clients say.   *)
(* Module Loops runs the loops of the code and implements this.            *)
(***************************************************************************)
EXTENDS Groups

VARIABLES screen, loop, arg, done

ovars == <<screen, loop, arg, done>>

Init ==
  /\ screen \in State
  /\ done = FALSE
  /\ \/ loop = "group_only" /\ arg \in Groups
     \/ loop = "group_alltoggle" /\ arg = "none"
     \/ /\ loop = "client_cycle" /\ arg \in {1, -1} \X BOOLEAN
        /\ screen.clientq # <<>>

\* The order in which windows are unmapped is left open
SameScreen(s, t) ==
  /\ [s EXCEPT !.evq = <<>>] = [t EXCEPT !.evq = <<>>]
  /\ ToSet(s.evq) = ToSet(t.evq) /\ Len(s.evq) = Len(t.evq)

Result ==
  CASE loop = "group_only"      -> GroupOnly(screen, arg)
    [] loop = "group_alltoggle" -> GroupAllToggle(screen)
    [] loop = "client_cycle"    -> Cycle(screen, arg[1], arg[2])

Next ==
  /\ ~done
  /\ done' = TRUE
  /\ SameScreen(screen', Result)
  /\ UNCHANGED <<loop, arg>>

Safe == Init /\ [][Next]_ovars

\* Weak fairness of Next, which is enabled until it is done
Spec == Safe /\ <>done

=============================================================================
