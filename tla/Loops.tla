------------------------------- MODULE Loops -------------------------------
(***************************************************************************)
(* The three loops of the code that Groups and Clients give in closed      *)
(* form: group_only, group_alltoggle and client_cycle, one iteration at a  *)
(* time as the C code takes them, from many states of the screen.  When a  *)
(* loop ends, it has left what the closed form says.                       *)
(***************************************************************************)
EXTENDS Groups

CONSTANTS
  Starts       \* the screens the loops are run on

\* A screen that module Cwm can come to, as far as the loops depend on it: what
\* TypeOK, ListsAgree and ActiveIsCurrent say of it
Coherent(s) ==
  /\ s \in State
  /\ \A i, j \in DOMAIN s.clientq : s.clientq[i] = s.clientq[j] => i = j
  /\ s.curcc # NoClient => s.curcc \in Managed(s)
  /\ \A c \in Clients, g \in Groups : c \in s.members[g] <=> s.group[c] = g

ASSUME LoopsAssumption == \A s \in Starts : Coherent(s)

VARIABLES
  before,      \* the screen when the loop began
  now,         \* the screen as the loop leaves it so far
  loop,        \* which function is running
  arg,         \* its argument
  at,          \* the loop variable, gc or newcc
  done         \* the loop has ended

lvars == <<before, now, loop, arg, at, done>>

\* The list q, and the element dir steps from x, wrapping at both ends as
\* client_next and client_prev do
Step(q, x, dir) ==
  LET i == CHOOSE j \in DOMAIN q : q[j] = x
      j == i + dir
  IN q[IF j > Len(q) THEN 1 ELSE IF j < 1 THEN Len(q) ELSE j]

OldClient(s, dir) ==
  IF s.curcc # NoClient THEN s.curcc
  ELSE IF dir = -1 THEN Last(s.clientq) ELSE Head(s.clientq)

LoopInit ==
  /\ before \in Starts
  /\ now = before
  /\ done = FALSE
  /\ \/ loop = "group_only" /\ arg \in Groups /\ at = FirstGroup
     \/ loop = "group_alltoggle" /\ arg = "none" /\ at = FirstGroup
     \/ /\ loop = "client_cycle" /\ arg \in {1, -1} \X BOOLEAN
        /\ before.clientq # <<>>
        /\ at = OldClient(before, arg[1])

LastGroup == NGROUPS - 1

NextGroup ==
  /\ at' = IF at = LastGroup THEN at ELSE at + 1
  /\ done' = (at = LastGroup)

\* Mutant of GroupOnlyStep: the groups after the chosen one are not hidden
GroupOnlyStepBreaks ==
  /\ loop = "group_only"
  /\ now' = IF at = arg THEN GroupShow(GroupSetActive(now, at), at)
                        ELSE GroupHide(now, at)
  /\ at' = at + 1
  /\ done' = (at = arg)

GroupOnlyStep ==
  /\ loop = "group_only"
  /\ now' = IF at = arg THEN GroupShow(GroupSetActive(now, at), at)
                        ELSE GroupHide(now, at)
  /\ NextGroup

\* Mutant of AllToggleStep: empty groups are not skipped
AllToggleStepEmptyToo ==
  /\ loop = "group_alltoggle"
  /\ LET t == IF now.hideall THEN GroupShow(now, at) ELSE GroupHide(now, at)
     IN now' = IF at # LastGroup THEN t ELSE [t EXCEPT !.hideall = ~@]
  /\ NextGroup

AllToggleStep ==
  /\ loop = "group_alltoggle"
  /\ LET t == IF now.members[at] = {} THEN now
              ELSE IF now.hideall THEN GroupShow(now, at)
              ELSE GroupHide(now, at)
     IN now' = IF at # LastGroup THEN t ELSE [t EXCEPT !.hideall = ~@]
  /\ NextGroup

\* Mutant of CycleStep: ignored clients are eligible
CycleStepIgnoredToo ==
  LET old   == OldClient(before, arg[1])
      newcc == Step(before.clientq, at, arg[1])
      again == \/ Has(before, newcc, "HIDDEN")
               \/ arg[2] /\ before.group[newcc] # before.group[old]
  IN /\ loop = "client_cycle"
     /\ at' = newcc
     /\ done' = (newcc = old \/ ~again)
     /\ now' = IF again THEN now
               ELSE PtrWarp([now EXCEPT !.cycling = TRUE], newcc)

\* Mutant of CycleStep: coming back to the first client does not end it
CycleStepForEver ==
  LET newcc == Step(before.clientq, at, arg[1])
      again == before.flags[newcc] \cap {"HIDDEN", "IGNORE"} # {}
  IN /\ loop = "client_cycle"
     /\ at' = newcc
     /\ done' = ~again
     /\ now' = IF again THEN now
               ELSE PtrWarp([now EXCEPT !.cycling = TRUE], newcc)

\* One turn of the while of client_cycle, and what follows its last one
CycleStep ==
  LET old   == OldClient(before, arg[1])
      newcc == Step(before.clientq, at, arg[1])
      again == \/ before.flags[newcc] \cap {"HIDDEN", "IGNORE"} # {}
               \/ arg[2] /\ before.group[newcc] # before.group[old]
  IN /\ loop = "client_cycle"
     /\ at' = newcc
     /\ done' = (newcc = old \/ ~again)
     /\ now' = IF again THEN now
               ELSE PtrWarp([now EXCEPT !.cycling = TRUE], newcc)

LoopNext ==
  /\ ~done
  /\ GroupOnlyStep \/ AllToggleStep \/ CycleStep
  /\ UNCHANGED <<before, loop, arg>>

LoopSpec == LoopInit /\ [][LoopNext]_lvars /\ WF_lvars(LoopNext)

----------------------------------------------------------------------------
Atomic == INSTANCE OneStep WITH screen <- IF done THEN now ELSE before

\* Each loop, seen from its start and its end only, is the one step that Groups
\* and Clients take for it, and is sure to come to that end.  group_only meets
\* the groups in order and shows the chosen one before it hides the later ones;
\* group_alltoggle drags the sticky clients along, so that which groups it
\* finds empty depends on where they began; client_cycle tests its exit only on
\* coming back to the client it began with.
ImplementsOneStep == Atomic!Spec

\* What of it is safety
TakesOneStep == Atomic!Safe
============================================================================
