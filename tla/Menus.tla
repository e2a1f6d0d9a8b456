------------------------------- MODULE Menus --------------------------------
(***************************************************************************)
(* menu.c and the commands of kbfunc.c and mousefunc.c that open a menu.   *)
(* menu_filter grabs pointer and keyboard and reads the events of its      *)
(* window until an entry is chosen; in the menu of programs Tab on a       *)
(* command opens a second menu, of file names, inside the first.           *)
(*                                                                         *)
(* Rows stand for pixels: the prompt and every entry take one row, and the *)
(* vertical axis alone is modelled.                                        *)
(***************************************************************************)
EXTENDS Search, Integers

CONSTANTS
  Letters,      \* what can be typed
  MaxEntry,     \* MENU_MAXENTRY
  Current,      \* client_current()
  Entries,      \* from a kind of menu to its entries
  Top, Bottom,  \* the rows of the output, less gap and border
  Rows,         \* where the pointer may be
  MaxOpened     \* bound: menus opened

ASSUME RowsAssumption ==
  /\ Top \in Nat /\ Bottom \in Nat /\ Top + 1 < Bottom /\ Rows \subseteq Nat
  /\ Letters \subseteq Nat

Kinds == DOMAIN Entries

\* The kinds of menu the commands open; that for a label starts without entries,
\* and that of windows has each client once.
ASSUME EntriesAssumption ==
  /\ Kinds \subseteq {"window", "exec", "ssh", "group", "label", "unhide", "groups", "commands"}
  /\ \A kind \in Kinds :
       Entries[kind] \in Seq([text : Seq(Nat), ctx : DOMAIN Windows \cup {"item"}])
  /\ "label" \in Kinds => Entries["label"] = <<>>
  /\ "window" \in Kinds => /\ IsInjective(Entries["window"])
                           /\ \A mi \in ToSet(Entries["window"]) : mi.ctx \in DOMAIN Windows
  /\ "path" \notin DOMAIN Windows

\* The current client is not hidden (CurrentIsVisible of Cwm)
ASSUME CurrentAssumption == Current \in DOMAIN Windows => ~Windows[Current].hidden

\* The arguments the commands give menu_filter
HasPrompt(kind) == kind \notin {"unhide", "groups", "commands"}
ListsAll(kind)  == kind \in {"group", "unhide", "groups", "commands"}
Dummy(kind)     == kind \in {"exec", "ssh", "label", "path"}
File(kind)      == kind = "exec"

VARIABLES
  open,      \* the menu_ctx of the menus open, the inner one last
  left,      \* menu windows mapped, of menus that are closed
  grabbed,   \* whether pointer and keyboard are grabbed
  focus,     \* what has the input focus: "client" or the depth of a menu
  pointer,   \* the row of the pointer
  home,      \* the row it had when the outer menu was opened
  moved,     \* whether the user has moved it since
  opened,    \* number of menus opened
  label,     \* the label of the client
  did,       \* what the last menu closed led to
  crashed    \* cwm has followed a null pointer

vars == <<open, left, grabbed, focus, pointer, home, moved, opened, label, did, crashed>>

NoMenu == [kind |-> "none", text |-> <<>>, ctx |-> "none"]

-----------------------------------------------------------------------------
(* The state of one menu *)

Menu(kind, initial) ==
  [kind |-> kind, search |-> initial, results |-> <<>>, list |-> ListsAll(kind), listing |-> FALSE,
   y |-> pointer, len |-> 0, saved |-> pointer, focus |-> focus]

Menuq(mc) == IF mc.kind \in Kinds THEN Entries[mc.kind] ELSE <<>>

\* (*mc->match)
Match(mc, search) ==
  CASE mc.kind = "window" -> MatchClient(Menuq(mc), search, Current)
    [] mc.kind = "exec"   -> MatchExecPath(Menuq(mc), search)
    [] mc.kind = "ssh"    -> MatchExec(Menuq(mc), search)
    [] mc.kind = "path"   -> MatchPath(Paths, search)
    [] OTHER              -> MatchText(Menuq(mc), search)

\* The results as "resultentry" chains them
Seen(mc) == IF IsPathResult(mc.results) THEN <<mc.results[1]>> ELSE mc.results

\* menu_draw, the first half: the entries listed
Listed(mc, changed) ==
  IF ~mc.list THEN mc
  ELSE IF mc.results = <<>> THEN [mc EXCEPT !.results = Menuq(mc), !.listing = TRUE]
  ELSE [mc EXCEPT !.listing = @ /\ ~changed]

\* Mutant of Placed: the bottom is kept in sight, and not the top
PlacedLow(mc) ==
  LET n == Len(Seen(mc)) + (IF HasPrompt(mc.kind) THEN 1 ELSE 0)
  IN  [mc EXCEPT !.y = IF @ + n >= Bottom /\ Bottom >= n THEN Bottom - n ELSE @, !.len = n]

\* menu_draw, the second half: "Never hide the top, or left side, of the menu."
Placed(mc) ==
  LET n == Len(Seen(mc)) + (IF HasPrompt(mc.kind) THEN 1 ELSE 0)
      y == IF mc.y + n >= Bottom THEN Bottom - n ELSE mc.y
  IN  [mc EXCEPT !.y = IF y < Top THEN Top ELSE y,
                 !.len = IF y < Top THEN Min({n, Bottom - Top}) ELSE n]

\* menu_draw
Draw(mc, changed) == Placed(Listed(mc, changed))

\* Mutant of Settle: wiping the text leaves the results
SettleKeep(mc, changed) ==
  LET results == IF changed /\ mc.search # <<>> THEN Match(mc, mc.search) ELSE mc.results
      unlist  == ~mc.list /\ mc.listing /\ ~changed
  IN  [mc EXCEPT !.results = IF unlist THEN <<>> ELSE results, !.listing = @ /\ ~unlist]

\* The end of menu_handle_key
Settle(mc, changed) ==
  LET results == IF ~changed THEN mc.results
                 ELSE IF mc.search = <<>> THEN <<>> ELSE Match(mc, mc.search)
      unlist  == ~mc.list /\ mc.listing /\ ~changed
  IN  [mc EXCEPT !.results = IF unlist THEN <<>> ELSE results, !.listing = @ /\ ~unlist]

Inner == open[Len(open)]

\* A key is handled and the menu drawn, with the pointer if it had to move
Show(mc, changed) ==
  LET shown == Draw(mc, changed)
  IN  /\ open' = [open EXCEPT ![Len(open)] = shown]
      /\ pointer' = IF shown.y # mc.y THEN shown.y ELSE pointer
      /\ UNCHANGED <<left, grabbed, focus, home, moved, opened, label, did, crashed>>

KeyHandled(mc, changed) == Show(Settle(mc, changed), changed)

-----------------------------------------------------------------------------
(* Opening and closing *)

\* menu_filter up to its loop.  The window of an inner menu takes the place of
\* the outer one in sc->menuwin.
Enter(kind, initial) ==
  /\ open' = Append(open, Menu(kind, initial))
  /\ grabbed' = TRUE
  /\ focus' = Len(open) + 1
  /\ opened' = opened + 1

\* Some client has a grab: the menu is not opened.  kbfunc_client_label takes
\* the result for a menu entry nevertheless.
Refused(kind) ==
  /\ open = <<>> /\ ~crashed /\ opened < MaxOpened
  /\ opened' = opened + 1
  /\ did' = NoMenu
  /\ crashed' = (kind = "label")
  /\ UNCHANGED <<open, left, grabbed, focus, pointer, home, moved, label>>

Open(kind) ==
  /\ open = <<>> /\ ~crashed /\ opened < MaxOpened
  /\ Enter(kind, IF kind = "label" THEN label ELSE <<>>)
  /\ home' = pointer
  /\ moved' = FALSE
  /\ UNCHANGED <<left, pointer, label, did, crashed>>

\* What menu_complete_path makes of the entry chosen among the file names
Completed(mc, mi) ==
  [mi EXCEPT !.text = IF mi.text # <<>> THEN mc.search \o mi.text
                      ELSE IF ~mi.abort THEN mc.search ELSE <<>>,
             !.ctx = "none"]

\* Mutant of PointerBack: the pointer stays where the menu was drawn
PointerBackNever(row, mc) == row

\* "restore if user didn't move"
PointerBack(row, mc) == IF row = mc.y THEN mc.saved ELSE row

\* kbfunc_client_label keeps the text, unless the menu was left
Labelled(kind, mi) ==
  label' = IF kind = "label" /\ ~mi.abort THEN mi.text ELSE label

\* What the command does with the entry it gets
Served(kind, mi) ==
  /\ did' = IF (mi.dummy /\ ~Dummy(kind)) \/ (kind \in {"exec", "ssh"} /\ mi.text = <<>>)
            THEN NoMenu ELSE [kind |-> kind, text |-> mi.text, ctx |-> mi.ctx]
  /\ Labelled(kind, mi)

\* Mutant of Return: the focus goes back to the window of the menu
ReturnFocus(mi) ==
  /\ grabbed' = FALSE
  /\ open' = <<>>
  /\ focus' = Inner.focus
  /\ IF Len(open) = 1
     THEN /\ pointer' = PointerBack(pointer, Inner) /\ left' = left /\ Served(Inner.kind, mi)
     ELSE /\ pointer' = PointerBack(PointerBack(pointer, Inner), open[1])
          /\ left' = left + 1
          /\ Served(open[1].kind, Completed(open[1], mi))
  /\ UNCHANGED <<home, moved, opened, crashed>>

\* menu_filter after its loop.  With the inner menu the outer one is left too,
\* and its window, no longer sc->menuwin, stays mapped.
Return(mi) ==
  /\ grabbed' = FALSE
  /\ open' = <<>>
  /\ focus' = open[1].focus
  /\ IF Len(open) = 1
     THEN /\ pointer' = PointerBack(pointer, Inner) /\ left' = left /\ Served(Inner.kind, mi)
     ELSE /\ pointer' = PointerBack(PointerBack(pointer, Inner), open[1])
          /\ left' = left + 1
          /\ Served(open[1].kind, Completed(open[1], mi))
  /\ UNCHANGED <<home, moved, opened, crashed>>

Entry(mi) == [text |-> mi.text, ctx |-> mi.ctx, dummy |-> FALSE, abort |-> FALSE]
DummyEntry(text, abort) == [text |-> text, ctx |-> "none", dummy |-> TRUE, abort |-> abort]

-----------------------------------------------------------------------------
(* The events of the menu's window *)

Reading == open # <<>> /\ ~crashed
Typing  == Reading /\ HasPrompt(Inner.kind)

Expose == Reading /\ Show(Inner, FALSE)

KeyLetter(l) ==
  /\ Typing
  /\ KeyHandled([Inner EXCEPT !.search = IF Len(@) < MaxEntry THEN Append(@, l) ELSE @], TRUE)

KeyErase ==
  /\ Typing
  /\ IF Inner.search = <<>> THEN KeyHandled(Inner, FALSE)
     ELSE KeyHandled([Inner EXCEPT !.search = Front(@)], TRUE)

KeyWipe == Typing /\ KeyHandled([Inner EXCEPT !.search = <<>>], TRUE)

\* CTL_UP, CTL_DOWN rotate the results.  An entry that is not on the list it is
\* removed from has no predecessor to write to.
Rotate(results) ==
  /\ Typing
  /\ IF IsPathResult(Inner.results)
     THEN /\ crashed' = TRUE
          /\ UNCHANGED <<open, left, grabbed, focus, pointer, home, moved, opened, label, did>>
     ELSE KeyHandled([Inner EXCEPT !.results = results], FALSE)

KeyUp ==
  LET q == Inner.results IN Rotate(IF q = <<>> THEN q ELSE <<Last(q)>> \o Front(q))

KeyDown ==
  LET q == Inner.results IN Rotate(IF q = <<>> THEN q ELSE Append(Tail(q), Head(q)))

KeyReturn ==
  /\ Typing
  /\ Return(IF Inner.results = <<>> THEN DummyEntry(Inner.search, FALSE) ELSE Entry(Inner.results[1]))

\* The text after CTL_TAB: what the results have in common.  The loop of the code
\* reads past the end of texts that are equal, and leaves the same text then.
TabText(mc) == LongestCommonPrefix({mi.text : mi \in ToSet(Seen(mc))})

Launches(mc) == File(mc.kind) /\ mc.results # <<>> /\ IsPrefix(mc.results[1].text, mc.search)

\* Mutant of KeyTab: the text becomes that of the first result
KeyTabFirst ==
  /\ Typing /\ ~Launches(Inner)
  /\ IF Inner.results = <<>> THEN KeyHandled(Inner, FALSE)
     ELSE KeyHandled([Inner EXCEPT !.search = Inner.results[1].text], TRUE)

KeyTab ==
  /\ Typing /\ ~Launches(Inner)
  /\ IF Inner.results = <<>> THEN KeyHandled(Inner, FALSE)
     ELSE KeyHandled([Inner EXCEPT !.search = TabText(Inner)], TRUE)

\* CTL_TAB on a command: menu_complete_path
KeyTabLaunches ==
  /\ Typing /\ Launches(Inner) /\ opened < MaxOpened
  /\ Enter("path", <<>>)
  /\ UNCHANGED <<left, pointer, home, moved, label, did, crashed>>

KeyAll == Typing /\ KeyHandled([Inner EXCEPT !.list = ~@], FALSE)

KeyAbort == Typing /\ Return(DummyEntry(<<>>, TRUE))

\* menu_calc_entry: the entry in a row of the menu, 0 if none
EntryAt(mc, row) ==
  LET entry == IF HasPrompt(mc.kind) THEN row - mc.y ELSE row - mc.y + 1
  IN  IF row < mc.y + mc.len /\ entry \in DOMAIN Seen(mc) THEN entry ELSE 0

\* The user moves the pointer; menu_handle_move only highlights
MovePointer(row) ==
  /\ open # <<>> /\ ~crashed
  /\ pointer' = row
  /\ moved' = TRUE
  /\ UNCHANGED <<open, left, grabbed, focus, home, opened, label, did, crashed>>

\* menu_handle_release, of a pointer that may be beside the menu.  Nothing sets
\* the field abort of the entry it makes.
ButtonRelease(beside) ==
  /\ Reading
  /\ IF beside \/ EntryAt(Inner, pointer) = 0
     THEN \E abort \in BOOLEAN : Return(DummyEntry(<<>>, abort))
     ELSE Return(Entry(Seen(Inner)[EntryAt(Inner, pointer)]))

-----------------------------------------------------------------------------
Init ==
  /\ open = <<>>
  /\ left = 0
  /\ grabbed = FALSE
  /\ focus = 0
  /\ pointer \in Rows
  /\ home = pointer
  /\ moved = FALSE
  /\ opened = 0
  /\ label = <<>>
  /\ did = NoMenu
  /\ crashed = FALSE

Next ==
  \/ \E kind \in Kinds : Open(kind) \/ Refused(kind)
  \/ Expose
  \/ \E l \in Letters : KeyLetter(l)
  \/ KeyErase \/ KeyWipe \/ KeyUp \/ KeyDown \/ KeyReturn
  \/ KeyTab \/ KeyTabLaunches \/ KeyAll \/ KeyAbort
  \/ \E row \in Rows : MovePointer(row)
  \/ \E beside \in BOOLEAN : ButtonRelease(beside)

Spec == Init /\ [][Next]_vars

-----------------------------------------------------------------------------
(* Properties *)

\* What a menu offers is what matches the text typed so far, each match once,
\* or everything while it lists everything: no key, wipe, rotation, completion
\* or switch of the listing leaves results of an earlier text behind
\* (menu_handle_key, menu_draw).
ResultsMatch ==
  \A i \in DOMAIN open :
    LET mc    == open[i]
        offer == IF mc.listing THEN Menuq(mc)
                 ELSE IF mc.search = <<>> THEN <<>> ELSE Match(mc, mc.search)
    IN  ToSet(mc.results) = ToSet(offer) /\ Len(mc.results) = Len(offer)

\* By what a window is found, the manual's "label, current title, old titles in
\* reverse order, and finally window class name", and how old the title is
FoundBy(w, search) ==
  IF SubMatch(search, w.label) THEN "label"
  ELSE IF \E name \in ToSet(w.names) : SubMatch(search, name) THEN "title"
  ELSE IF SubMatch(search, w.class) THEN "class" ELSE "nothing"

Age(w, search) ==
  Len(w.names) - Max({i \in DOMAIN w.names : SubMatch(search, w.names[i])})

RanksAbove(a, b) == <<a, b>> \in {<<"label", "title">>, <<"label", "class">>, <<"title", "class">>}

\* "De-rank a client one tier if it's the current window", "Clients that are
\* hidden get ranked one up"
Demoted(c) == IF c = Current THEN 1 ELSE IF Windows[c].hidden THEN -1 ELSE 0

\* Two entries of the menu of which the manual and the comments of search.c, and
\* failing these the order of the menu, put the first ahead.  Of two windows
\* found by titles of different age nothing is said: CurrentTitlesFirst does.
Ahead(mc, v, w) ==
  LET By(mi) == FoundBy(Windows[mi.ctx], mc.search)
      Aged(mi) == IF By(mi) = "title" THEN Age(Windows[mi.ctx], mc.search) ELSE 0
      At(mi) == SelectInSeq(Menuq(mc), LAMBDA m : m = mi)
  IN  \/ Demoted(v.ctx) <= Demoted(w.ctx) /\ RanksAbove(By(v), By(w))
      \/ /\ By(v) = By(w) /\ Aged(v) = Aged(w)
         /\ \/ Demoted(v.ctx) = Demoted(w.ctx) /\ At(v) < At(w)
            \/ Demoted(v.ctx) < Demoted(w.ctx) /\ By(v) = "title"

\* The insertions of search_match_client leave the windows found in the order
\* of label, title and class, of what is hidden and current, and of the menu;
\* the programs found are sorted, and each name is there once
\* (search_match_exec).
ResultsAreOrdered ==
  \A i \in DOMAIN open :
    LET mc == open[i]
        q  == Match(mc, mc.search)
    IN  /\ mc.kind = "window" =>
             \A j, k \in DOMAIN q : Ahead(mc, q[j], q[k]) => j < k
        /\ mc.kind \in {"exec", "ssh", "path"} =>
             \A j, k \in DOMAIN q : j < k => Before(q[j].text, q[k].text)

\* "current title, old titles in reverse order": of two windows that are both
\* hidden, or neither, and not current, the one found by the younger title is
\* listed first.
CurrentTitlesFirst ==
  \A i \in DOMAIN open :
    LET mc == open[i]
        q  == Match(mc, mc.search)
        W(j) == Windows[q[j].ctx]
    IN  mc.kind = "window" /\ mc.search # <<>> =>
          \A j, k \in DOMAIN q :
            /\ FoundBy(W(j), mc.search) = "title" /\ FoundBy(W(k), mc.search) = "title"
            /\ Current \notin {q[j].ctx, q[k].ctx} /\ W(j).hidden = W(k).hidden
            /\ Age(W(j), mc.search) < Age(W(k), mc.search)
            => j < k

\* Completing what is typed to what all programs found have in common loses
\* none of them (menu_handle_key, CTL_TAB).
TabKeepsResults ==
  [][KeyTab /\ Inner.kind \in {"exec", "ssh"} /\ ~IsPathResult(Inner.results) =>
       {mi.text : mi \in ToSet(Inner'.results)} = {mi.text : mi \in ToSet(Inner.results)}]_vars

\* A menu that had to be moved to fit, and took the pointer along, puts it back
\* when it closes, if the user has not moved it; through the menu of file names
\* too ("restore if user didn't move", menu_filter).
PointerReturns == open = <<>> /\ ~moved => pointer = home

\* With no menu open, nothing is grabbed and the focus is where it was, though
\* an inner menu takes its window's focus from the outer one (menu_filter).
NothingHeld == IF open = <<>> THEN ~grabbed /\ focus = 0 ELSE grabbed /\ focus = Len(open)

\* A menu that is drawn is on its output, however the results grow and shrink,
\* and wherever the pointer was (menu_draw).
MenuFits ==
  \A i \in DOMAIN open : open[i].len > 0 => Top <= open[i].y /\ open[i].y + open[i].len <= Bottom

\* The keys to navigate the exec dialog, as the manual lists them, are safe.
ArrowsNavigate == [][KeyUp \/ KeyDown => ~crashed']_vars

=============================================================================
