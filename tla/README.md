# A verification of cwm

cwm (`src/`) is a window manager for X: one process that reads events from the
X server in an endless loop and changes its own lists and the server's windows
in answer. This directory holds TLA+ modules that model it, configurations that
check them with TLC, and proofs that TLAPS checks. `PROJECT.json` lists the
components, the runs, which source lines each definition models, the hazards
and the theorems.

## 1. The program

### Components

| component | sources | state it keeps | what makes it correct | modelled in |
|---|---|---|---|---|
| client management | `client.c` | per screen the list `clientq`, most recently used first; per client its flags, group, geometry, names; `curcc`, the client with the focus | the focus is on one managed, visible client; no pointer to a freed client; hidden means unmapped; cycling visits what it should and ends; a window gets back the geometry it had | `Clients`, `Geometry`, `SizeHints` |
| groups | `group.c` | per group a list of clients and `GROUP_HIDDEN`; per screen `group_current`, `hideall` | lists and back pointers agree; a desktop switch shows one group; sticky clients follow | `Groups`, `Loops` |
| event loop | `xevents.c` | the `cycling` flag, the key bindings' throw-away `client_ctx` | every MapRequest is served, every withdrawal is honoured, once, whatever is queued between | `Cwm` |
| key and mouse commands | `kbfunc.c`, `mousefunc.c` | none of their own | each does what the manual says of it | `Cwm`, `Geometry`, `Menus` |
| EWMH | `xutil.c` | properties of the root window and of clients | a pager sees what cwm holds | `Cwm`, `Geometry` |
| configuration | `conf.c`, `config_parse.c` | bindings, menu commands, autogroup and ignore lists, settings of screens and groups | one binding per key; the last line for a thing is in force; what is grabbed is what is bound | `Settings` |
| rules | `rule.c` | per client class a list of commands | a rule runs when its event occurs, and only valid commands are kept | `Settings` |
| outputs | `screen.c` | the list of screens and their geometry | every client is in the lists of the output it is on; a key acts on one output | `Screens` |
| start, restart, signals | `calmwm.c` | none that survives | after a restart groups and states are rebuilt from properties | `Lifecycle` |
| menus | `menu.c` | the entries, the results and the text of one menu | results match the text; cancelling changes nothing; focus, pointer and grabs are given back | `Menus` |
| search | `search.c` | none | results match, and are in the order of label, title and class, of what is hidden and current, and of the menu | `Search` |
| queues | `compat/queue.h` | links, heads and tails | a list is sound after every macro | `Screens`, and sequences elsewhere |
| status | `util.c` | the named pipe | reports what is the case | not modelled |
| logging, allocation, JSON, the rest of `compat/` | | | not cwm's own logic | not modelled |

### How they interact

There are no threads. `xev_process` reads one event and runs its handler to the
end, so every handler is atomic with respect to the others; only menus and mouse
drags read events of their own meanwhile. The concurrency is with the X server
and the applications: a handler's requests take effect on the server while
events that describe an older state of the windows are still queued. Handlers
call `client_*` and `group_*` functions directly, those write properties that
pagers read and that the next cwm finds after a restart, and warping the pointer
makes the server send an EnterNotify, which is how the focus moves.

A client's visibility is recorded in several places: the server's map state,
`CLIENT_HIDDEN`, `WM_STATE`, the `_NET_WM_STATE` atoms, `GROUP_HIDDEN` and
`hideall`. `CLIENT_STICKY` makes `client_hide` and `client_unhide` do nothing,
and their callers do not know. Most of what can go wrong in this program is two
of these records disagreeing after a sequence of legal steps.

### Hazards

The full list, each at its line and with the properties that watch it, is in
`PROJECT.json`. The families are:

* an UnmapNotify that is old when it is read (`xevents.c:93-109` against
  `client.c:994-1025`), windows withdrawn while hidden, MapRequests of windows
  that are gone;
* the focus kept by hand: `CLIENT_ACTIVE`, `curcc`, `_NET_ACTIVE_WINDOW` and the
  head of `clientq` change in six functions, some of which return early;
* lists kept by hand: `cc->group`, the list of the group and `clientq`; the
  throw-away client of a key press that enters a group list and stays there;
* hidden and sticky interact: early returns, flags that are toggled without the
  window (`client.c:511-541`);
* loops over the groups whose bodies move clients between groups
  (`group.c:284-349`), and a loop that ends only when it meets its start
  (`client.c:1173-1192`);
* geometry that several toggles save in the same two rectangles, per-group
  geometry of sticky clients, size hints that round and bound;
* one focus, one key release and one pager for several outputs, and a client
  whose `sc` changes while it stays in the list of another output;
* sections of two configuration files that replace, reset or add to each other
  in an order that is not the order of the file; keys grabbed by an old keymap;
* a menu whose two queues share one entry, whose results are moved by one link
  and made by another, and that may open a second menu;
* a stop at any moment, with events unread, after which all is rebuilt from
  what the server kept.

## 2. The modules

| module | models | extends |
|---|---|---|
| `Clients` | the client operations of `client.c` on the state of one screen | |
| `Groups` | `group.c`, and the client operations that call it, `client_init` among them | `Clients` |
| `Cwm` | the event loop, the commands and messages, the applications and the X server; the properties | `Groups` |
| `Desktop` | the abstract specification: what a user is promised about windows, groups and the focus | |
| `CwmDesktop` | the refinement mapping from `Cwm` to `Desktop` | `Cwm`, instance of `Desktop` |
| `Lifecycle` | stop, crash, what applications do without a window manager, the scan at the start; liveness | `Cwm` |
| `OneStep` | the loops over groups and clients as one step, the abstract specification of `Loops` | `Groups` |
| `Loops` | `group_only`, `group_alltoggle` and `client_cycle`, one iteration a step | `Groups`, instance of `OneStep` |
| `Lists` | what is picked and kept of a list, as functions recursive on it | |
| `SizeHints` | the arithmetic of `client_applysizehints`, `client_placecalc`, `client_snapcalc` and `mouse_client_resize`, as functions | |
| `Geometry` | maximising, fullscreen, expanding, freezing, borders, moving, resizing, snapping, tiling, configure requests, geometry per group | `SizeHints`, `Lists` |
| `Screens` | several outputs, the tail queues pointer by pointer, `client_move` between outputs | |
| `Settings` | reading the configuration, bindings and grabs, rules, autogroups, ignored names | `Lists` |
| `Search` | matching and ordering the entries of a menu | `Lists` |
| `Menus` | `menu_filter`: keys, pointer, completion, the menu inside a menu | `Search` |
| `Cwm_proofs` | theorems about the lists and the current client, properties, recency, dialogs and what is hidden; without races, about windows and their unread events | `Cwm` |
| `Desktop_proofs` | theorems that `Cwm` implements `Desktop`, and about what a step never does | `Cwm_proofs`, `CwmDesktop` |
| `Loops_proofs` | the theorem that `Loops` implements `OneStep`, as far as safety goes | `Loops`, `Cwm_proofs`, `Lists_proofs` |
| `Lists_proofs` | induction over numbers and lists; what folds and recursive functions compute | `Lists` |
| `Settings_proofs` | theorems that what was read is what the file says, and what is grabbed is bound | `Settings`, `Lists_proofs` |
| `Geometry_proofs` | theorems about states, borders, and geometries that are given back | `Geometry`, `Lists_proofs` |
| `Screens_proofs` | theorems about several outputs, and about the links before a window crosses | `Screens`, `Lists_proofs` |
| `Menus_proofs` | theorems about what `menu_filter` offers and gives back | `Menus`, `Lists_proofs` |
| `MCCwm`, `MCLifecycle`, `MCLoops`, `MCGeometry`, `MCScreens`, `MCSettings`, `MCMenus` | values for the constants | the module they are named for |

### Clients, Groups, Cwm

A C function that changes something is an operator from a state record to the
state record it leaves, so that a handler that calls five functions is one
expression of five operators and one atomic step, in the order of the code. The
fields of the record are the variables of `Cwm`:

| variable | code |
|---|---|
| `clientq`, `flags`, `group` | `sc->clientq`, `cc->flags`, `cc->group` |
| `members`, `hidden_groups` | `gc->clientq`, the groups with `GROUP_HIDDEN` |
| `group_current`, `hideall`, `cycling`, `curcc` | the fields of those names, and the static `curcc` of `client.c` |
| `alive` | FALSE once the code has dereferenced NULL |
| `app` | what the application wants of its window: `gone`, `withdrawn`, `shown` |
| `mapped`, `wm_state`, `wm_desktop` | the window's map state and properties on the server |
| `net_active`, `net_desktop`, `net_clients` | `_NET_ACTIVE_WINDOW`, `_NET_CURRENT_DESKTOP`, `_NET_CLIENT_LIST` |
| `evq` | the structure events cwm has not read, in the order the server sent them |

`Next` has five parts. `App` is the applications (create, map, unmap or
withdraw, destroy). `Structure` is the handlers of queued events:
MapRequest, UnmapNotify (real and synthetic), DestroyNotify. `Pointer` is
EnterNotify. `Command` is the key and mouse commands and the key release that
ends a cycle. `Message` is client messages and WM_TRANSIENT_FOR changes. One
action stands for one handler and everything it calls.

Three choices matter for the hazards:

* Structure events are queued and read in order. Commands, messages and
  crossing events may be handled at any moment: one that overtakes queued events
  is one that the server sent earlier. With `Calm = TRUE` commands and messages
  come only when the queue is empty, which separates what goes wrong because of
  a race from what goes wrong anyway.
* `Habits` says what applications do. An empty set is the tidy ones of the
  ICCCM; each member adds one behaviour that real applications have.
* A key pressed with no current client acts on a `client_ctx` made for it. One
  that enters a group list is never freed; `Fakes` are those.

`HideAll(s, W)`, `UnhideAll` and `AssignAll` apply a C function to all members
of a list at once. The iterations touch different clients, so that the order
shows only in the order of the UnmapNotify events. `GroupOnly`,
`GroupAllToggle` and `CycleTarget` are closed forms of loops whose iterations do
depend on one another; `Loops` runs the loops and is shown to implement
`OneStep`, which takes the closed forms as single steps.

### Desktop

Five variables (the group each window is in, the sticky windows, the windows on
display, the current group, the focus) and one action for each thing that may
happen to them. There are no lists, events, flags or properties in it. A focus
may only be on a window that is shown, and is lost exactly when its window goes
out of sight. `Desktop` is written from what the manual and the comments promise:
a search for a window leaves it in sight with its group the current one, and
a window that the user moves to another group goes out of sight.
`CwmDesktop` maps the flags and lists of `Cwm` to these variables, says which of
the actions each handler and command is asked for (`Asked`), and names the two steps
in which the code does something else (`Departs`): a search that finds a window of
the current group hides it again, and movetogroup leaves the window in sight if its
new group is partly in sight. Messages of pagers and dialogs that follow their owner
are not said to hide anything, and have an action of their own, `Join`.

### Lifecycle

`Stop` is `x_teardown` or a crash: unread events are lost, and the server maps
the windows of the save-set. While cwm is down applications map, unmap and
destroy windows and nobody interferes. `Start` throws cwm's memory away and
scans the viewable windows in any order, with the pointer over any of them,
reading WM_STATE, `_NET_WM_DESKTOP` and `_NET_WM_STATE`.

### Geometry, SizeHints

`cc` holds the geometry part of a `client_ctx`: `geom`, `savegeom`, `fullgeom`,
border width, flags, hints, the atoms on the window and the geometry recorded
for each group. A drag reads only button and motion events until the button is
released and is one step with the pointer positions it has seen. `normal`,
`placed`, `shared` and `forced` are history variables, of what the code does not keep:
where the user last put each window, in each group, which windows had a saved
rectangle used for two things, and which were given a border by something else than
the border toggle. `SizeHints` treats a rectangle as a record of integers,
with C's division, and the aspect limits as fractions.

### Screens

The client lists of the outputs are the pointers of `queue.h` here (`nxt`,
`prv`), because `client_move` sets `cc->sc` and leaves the client linked in
another list, and the macros then take the head of the wrong one. `status` says
how cwm came to its end: by a null pointer, a freed client or a list that does
not end. Nothing after such an end is modelled.

### Settings

A file is a sequence of sections, as libconfuse leaves it; libconfuse is
external. `phase` goes through the order of `config_parse`: the defaults of the
screens, the other defaults, then the kinds of section of the user's file one
after the other. Afterwards keys are pressed and the keyboard changes, with
MappingNotify and KeyPress in one queue, and clients appear and meet autogroups,
ignored names and rules. A section of clients adds to three lists, of which none
is read while another is written: each is a fold of its own here, over all
lines of its kind, and so are the settings of screens and of groups.

### Menus, Search

`open` is the stack of open menus, with the entries, the results, the text and
the selection of each. One action is one event of `menu_filter`: a letter, an
erasing key, Up, Down, Return, Tab, Escape, the pointer, a release. Tab in the
program menu opens the menu of file names inside it. Only the vertical axis is
kept of the geometry, and texts are sequences of letters with cases folded.

### Left out

* In `Cwm`: stacking, titles, colours, the keyboard grab, the highlight and
  urgency flags and `GROUP_ACTIVE`, which change nothing the properties speak
  of. Requests act on the server at once, and the events they cause are queued
  after those already sent. EnterNotify may come at any time for any managed
  client, mapped or not: that is more than the server sends. A window may arrive
  with any `_NET_WM_DESKTOP` there is a group for; -1 and numbers out of range,
  which act like 0, like the last group or like none, give nothing
  new. A desktop number
  out of range in a message (which ends cwm) and an application that maps a window and
  withdraws it before the MapRequest is read are not there.
* In `Geometry`: several outputs, Motif hints overwritten by the commands, and
  in the run, hints whose maximum is no multiple of their increments and aspect
  limits (the operators have them).
* In `Screens`: `GROUP_HIDDEN` and `hideall` (a toggle may go either way),
  RandR events, restarts.
* In `Settings`: colours, fonts and cursors are one value; what a command does.
* In `Menus`: the horizontal axis, drawing, wildcards in a command.
* Nowhere: `group_restack`, title history, the highlight, the status pipe,
  spawning programs, options of the command line.

## 3. The runs

| run | bounds | shows |
|---|---|---|
| `core` | two windows, two groups, two unread events, tidy applications, commands that race, symmetry | `TypeOK`; `ActiveIsCurrent`, `ListsAgree`: focus and lists are sound; `PagerView`: properties agree with them; `CurrentIsMostRecent`; `CurrentIsVisible`, `HiddenIsUnmapped`: the flags tell the truth of the display |
| `calm` | the same without races, with a dialog, an autogroup, an ignored and a classless window, windows with a preset desktop | `MappedIsManaged`, `UnmappedIsListed`, `WithdrawnIsReleased`: every window is on display and managed, or in the menu, or let go; `DialogsJoin`; `StickyStays`; `ImplementsDesktop`: every step is one that `Desktop` promises, and the one that was asked for but for two departures |
| `live` | one window that changes `_NET_WM_STATE` and is withdrawn while hidden, two groups, two events, commands at any time, any number of stops | `OneGroupOnDisplay`: a switch of desktop repairs flags that messages have changed; `RequestsAreServed`, `WithdrawalsAreServed`: liveness; `RestartRestores`, `StartsClean`: what a start finds |
| `loops` | every mix of flags, groups and current client of three windows in three groups, with a phantom client in one or none | `ImplementsOneStep`: the loops end, and leave what the closed forms say |
| `geometry` | one window that is handled and two beside it, on an output of 12 by 10, in seven sessions | `PagerSeesState`, `NormalIsKept`, `BorderIsAsked`, `StickyReturns`, `TilesShare`: saved geometries, states and borders survive one another |
| `settings` | files of up to two sections of each kind, four keymaps, two keys or changes | `BindingsAsWritten`, `GrabbedIsBound`, `MostSpecificWins`, `RulesAsWritten`, `ScreensAsWritten`: what is in force is what the last line for it says (of rules, those of classes that no section with a name is mixed up with) |
| `menu` | six kinds of menu, opened twice, four windows, texts of up to two letters, four lines of display | `ResultsMatch`, `ResultsAreOrdered`, `TabKeepsResults`, `MenuFits`; `PointerReturns`, `NothingHeld`: what is taken is given back |
| `outputs` | two outputs with two groups each, two windows, one move across, symmetry | `OwnGroup`, `FocusIsLive`, `OutputsApart`; `SoundUntilCrossed`: the links of the queues are sound as long as no window moves |
| `search_hides`, `destroy_early`, `exec_arrows`, `moved_client` | as `calm` without dialogs and directives, `core`, `menu`, `outputs` | violations, see below |

### Why the bounds are enough

Two windows: one can be the current client, group mate, owner, follower or
successor of the other, and each operator acts on one client or on all of a
list. Two groups make every group the current one, the target or the other;
`loops` has three of each, for a group before, at and after the chosen one and
lists in which the search passes over clients before it stops. `MaxEvents`
bounds the unread structure events when a command or application takes a step:
two are enough for a withdrawal with its synthetic event, or one event of each
window, to be unread while commands run. (A synthetic event or the unmapping of
a whole group may go over the bound by its own events.) `live` has
one window: the flags of another, or its events, change nothing for it but
order.

In `geometry` a session is a set of commands and a bound on those that give the
window a new place; without them every behaviour would be a walk over the plane.
Each session mixes the toggles that share a saved rectangle, and bounds how
often one is shared (`mixtures`); the output is small enough for windows to meet
its edges, gap and neighbours. In `settings` two or three sections of each kind
override, misspell and clear what the others say, in both orders. `MaxEntry` = 2
with two letters gives texts that match nothing, one and several entries, and a
completion that lengthens a text. `MaxCrossed` = 1: the first window that
crosses already breaks the lists, so that a second move starts from states whose
meaning the code no longer defines.

Deadlock is checked except where the system really ends: in `loops` when the
loop is over, in `destroy_early`, `outputs` and `moved_client` when cwm has
followed a null pointer or a freed client, in `menu` and `exec_arrows` when the
last menu has closed, and in `settings` when file and keys are used up.

### Fairness

`LSpec` of `Lifecycle` adds that cwm reads: whenever an event stays unread,
events are handled again and again. `main` calls `xev_process` for ever and
XNextEvent returns queued events in order, so that this is what the code does.
It is weak fairness of `Live /\ Reading /\ Remembered`, written with the
condition `Unread` in place of ENABLED. Nothing is assumed of applications,
commands, or of cwm not being stopped. `LoopSpec` has weak fairness of the loop's
own steps, for the program counter does not stand still; `OneStep` only says
that the step is taken.

### Where the program and its documents differ

Each of these runs checks one property that a document or comment states, and
TLC finds a behaviour of the code that breaks it.

| run | says | does |
|---|---|---|
| `search_hides` (`SearchFinds`) | `cwm.1:88`: "Search for windows."; `kbfunc.c:168`: "set the active group the client is on" | the window found is shown, and hidden again with the group that was current, if that is its own (`kbfunc.c:171`) |
| `destroy_early` (`NeverNull`) | `xevents.c:85` expects a NULL client | `rule_apply`, three lines below, dereferences it |
| `exec_arrows` (`ArrowsNavigate`) | `cwm.1:174-175`: Up and Down navigate the exec dialog | results that are file names are linked by one field and moved by another, and a null pointer is followed |
| `moved_client` (`SurvivesMoves`) | `client.c:861`: "Update which monitor the client is on" | the client stays in the list of the old output; the next cycle there follows the null head of the new one |

Other promises are stated as properties and have no run of their own. TLC refutes
each in the configuration named, when the property takes the place of those there.

| property | configuration | says | does |
|---|---|---|---|
| `MoveHides` (`CwmDesktop`) | `calm.cfg` | `cwmrc.5:434`: movetogroup hides the current window | it stays in sight unless all windows of its new group are hidden (`group.c:200`) |
| `CurrentTitlesFirst` (`Menus`) | `menu.cfg` | `cwm.1:197-198`, `search.c:59-65`: the current title ranks above old ones | both have one tier, and the order is that of the menu (`search.c:82`) |
| `NamedRulesRun` (`Settings`) | `settings.cfg` | `cwmrc.5:128-139`, `cwmrc.5:181-185`: a section for a name and a class is for windows with both | its rules are filed under the name, and `rule_apply` looks for the class (`config_parse.c:406`) |
| `CyclingEnds` (`Screens`) | `outputs.cfg` | `client.c:1194`: cycling is "reset when cycling mod is released" | only on the first output (`xevents.c:355`); on another the order of recency stands still |
| `MappedIsManaged` (`Cwm`) | `core.cfg` | `xevents.c:164`: an unmanaged window will "be ours when we map it" | a late UnmapNotify deletes the client of a window just shown again (`xevents.c:103`) |
| `WithdrawnIsReleased` (`Cwm`) | `core.cfg`, or `calm.cfg` with the habit `withdraw_hidden` | nothing; a withdrawn window should be let go | a window hidden before its UnmapNotify is read, or withdrawn while hidden, stays managed, and `group_show` can map it again (`xevents.c:100-103`) |
| `UnmappedIsListed` (`Cwm`) | `calm.cfg` with the habit `state_hidden` | `cwm.1:228`: the menu shows the hidden windows | clearing `_NET_WM_STATE_HIDDEN` takes a window off the menu and leaves it unmapped (`client.c:511-520`) |

Others were met while modelling and are described here only.

Visibility and groups. A window that starts sticky is never mapped, for
`client_unhide` returns early (`client.c:1015`, against `cwmrc.5:165`). The menu
of hidden windows cannot unhide a sticky window (`client.c:1015`, `cwm.1:229`).
The first press of the key for group[n] hides group n, which it is said to
select (`group.c:278-281`, `cwmrc.5:424`). `GROUP_HIDDEN`, which the status
reports as is_hidden, records the last group toggle and not the display
(`group.c:275-281`, `cwm.1:259`).

A key pressed over no window leaves a
client in a group list for good, which makes an empty group look used
(`xevents.c:320`).

Outputs. Messages of a pager always go to the first output, whose current desktop the
window search hides too, wherever the window is. `_NET_CLIENT_LIST` holds the
clients of one output, `_NET_CURRENT_DESKTOP` the number of the output that
switched last. The keyboard of a cycle is let go only if a client is current
(`client.c:1207`). `xev_handle_randr` updates work areas and moves no window.

Geometry. Un-expanding sets the border width even where the border is off;
leaving fullscreen gives an ignored client a border. Expanding and maximising
share `savegeom`, and a window maximised, resized or tiled in fullscreen, once
the freeze key allows it, mixes the geometry of fullscreen with its own:
`NormalIsKept` leaves out those windows (`shared`), and `BorderIsAsked` those
given a border by an application, by tiling or by un-expanding (`forced`); the
others are held to both, whatever else is done to them. The freeze key clears
the FREEZE that fullscreen set, and snapping, tiling and configure requests
ignore it. A switch of group gives a sticky fullscreen window the geometry of
the group. `client_init` never records a geometry for the group. The first
`client_move` of `client_init` is overwritten by `client_data_extend`.
`client_placecalc` sets the width from an output whose width it has just
increased by its origin. Expanding upwards or downwards ignores the border of
the neighbour. `client_setactive` clears URGENCY, and `client_hide` sets HIDDEN,
without writing `_NET_WM_STATE`.

Restart. The save-set never shrinks; MapRequests unread at a stop are lost; the
current group is 0 again; a sticky iconic window comes back shown; HIDDEN stays
among the atoms of a window shown since; a window without class returns to
group 0; `x_teardown` closes each font once per colour and frees each cursor
once per group.

Settings. The user's file is ignored without a section for a screen
(`config_parse.c:607`, though `cwmrc.5` has sections that "can be present").
`conf_bind_mouse` compares with the NULL that ends the table (`conf.c:494`). An
ignore directive keeps the class and `conf_client` compares it with the title
(`conf.c:368`). A keysym that no key carries grabs every key (`xutil.c:58`). A
binding written CM-H and one written CMS-h are two. A later group section resets
the options it leaves out. A parse error keeps the part of the file before it.
`conf_clear` keeps the rules.

Menus. The window of the outer menu stays mapped after a file is completed
(`menu.c:99`), and each `menu_filter` makes a window that is never destroyed. The
label menu dereferences NULL if the grab is refused (`kbfunc.c:429`). A release
may return an entry whose `abort` is not set (`menu.c:505`). Tab in the window
search clears the text, and its loop over the common prefix reads past equal
texts (`menu.c:298`). Return with no match picks the first group.

## 4. The proofs

The theorems of the first two modules are about `Spec` of `Cwm`, for any finite
set of windows, any number of groups, any phantoms, configuration, habits and
bound, races included except where the table says so. The assumptions are the
named ASSUMEs of `Clients`, `Groups` and `Cwm`: windows are finitely many and
differ from phantoms and from NULL, there is at least one group, and the
configuration has the right types. `LoopsTakeOneStep` is about `LoopSpec` of
`Loops`, for any windows and groups and any screens to begin with that are
`Coherent` (`LoopsAssumption`); `ScreensAreCoherent` says that every screen `Cwm`
comes to is. Those of `Geometry_proofs` are about `GSpec`
of `Geometry`, for any windows, places, output, gap, border, steps of the keys
and sessions, under `GeometryAssumption`. Those of `Screens_proofs` are about
`Spec` of `Screens`, for any list of outputs, finite set of windows, number of
groups and of crossings, under `ScreensAssumption`. Those of `Menus_proofs` are
about `Spec` of `Menus`, for any entries, letters, rows and files and any number
of menus, under `RowsAssumption`, `EntriesAssumption` and `PathsAssumption`:
numbers are numbers, a window is in a menu once, the label menu starts empty,
and files are finitely many. Those of `Settings_proofs` are about `Spec` of
`Settings`, for any outputs, groups, commands, keyboards, defaults and files,
under the assumptions of `Settings`: outputs and groups are finitely many,
"Shift" is no lock, and neither is a modifier of a binding (`conf_bind_getmask`
knows none), no key has the code 0, and what a file has for a list is one. TLC
evaluates all assumptions in the runs. Further
hypotheses are part of the theorem.

| module | theorem | hypothesis |
|---|---|---|
| `Cwm_proofs` | `TypeCorrect`: `[]TypeOK` | |
| | `ActiveIsCurrentHolds`, `ListsAgreeHolds` | |
| | `Invariant`: `[]IInv` | |
| | `FineInvariant`: `[]FInv` | |
| | `PagerViewHolds`, `CurrentIsMostRecentHolds` | |
| | `CurrentIsVisibleHolds`, `HiddenIsUnmappedHolds` | no message clears or sets `_NET_WM_STATE_HIDDEN` |
| | `DialogsJoinHolds`: `Spec => DialogsJoin` | |
| | `OrderlyInvariant`: `[]OInv` | `CalmDesk`: commands find every event read, and of the habits applications have at most `preset_desktop` |
| | `MappedIsManagedHolds`, `UnmappedIsListedHolds`, `WithdrawnIsReleasedHolds` | `CalmDesk` |
| | `NeverNullHolds` | no window is destroyed while its MapRequest is unread (`destroy_early`) |
| `Desktop_proofs` | `CwmImplementsDesktop`: `Spec => ImplementsDesktop` | `Tidy`: no message clears or sets `_NET_WM_STATE_HIDDEN`, and no phantoms |
| | `StickyStaysHolds`, `OneGroupOnDisplayHolds` | |
| `Loops_proofs` | `LoopsTakeOneStep`: `LoopSpec => TakesOneStep` | |
| | `ScreensAreCoherent`: `Spec => []Coherent(S)` | |
| `Geometry_proofs` | `GInvHolds`: `[]GInv`; `GTypeCorrect` | |
| | `PagersSeeStates`, `StickiesReturn` | |
| | `BordersAreAsked` | none; of windows not in `forced` |
| | `NormalsAreKept` | `SizesAgree`: hints are regular, and the sizes asked for are sizes the hints allow; of windows not in `shared` |
| `Screens_proofs` | `SoundInvariant`: `[]Sound(s)` | |
| | `FocusIsLiveHolds`, `OwnGroupHolds`, `OutputsApartHolds` | |
| | `SoundUntilCrossedHolds` | |
| `Menus_proofs` | `MenuInvariant`: `[]MInv` | |
| | `NothingHeldHolds`, `PointerReturnsHolds` | |
| | `ResultInvariant`: `[]RInv` | |
| | `ResultsMatchHolds`, `MenuFitsHolds`, `ResultsAreOrderedHolds`, `TabKeepsResultsHolds` | |
| `Settings_proofs` | `ReadsInvariant`: `[]Reads` | |
| | `BindingsAsWrittenHolds`, `ScreensAsWrittenHolds`, `MostSpecificWinsHolds` | |
| | `RulesAsWrittenHolds` | none; of classes that no section with a name is mixed up with |
| | `GrabbedIsBoundHolds` | |

The hypotheses are needed. A message that clears HIDDEN moves the flag without
the window, and a phantom is in a group list and no window of anybody. Section 3
shows what happens without `CalmDesk`, and run `destroy_early` what happens without
the hypothesis of `NeverNullHolds`: that an unread MapRequest is of a window that
exists is an invariant of its own, which no race and no other habit breaks. Without
`SizesAgree` a window can start, or be configured by its application, with a
size that its own hints forbid; `client_init` and `xev_handle_configurerequest`
leave it, and unmaximising applies the hints to it. The values of run `geometry`
satisfy it.

### The lists

None of the three properties is inductive alone. `client_cycle` keeps the types
only if it finds the current client in `clientq`, which is the first part of
`ActiveIsCurrent`. `client_delete` removes one occurrence from `clientq` and one
list entry: the client is gone only if `clientq` holds it once and `cc->group`
names the list it is in. A window that is let go has no flags left only if no
group operation can touch it, which holds because the members of groups are
known. The conjunction is inductive; TLC checks its three parts in run `core`.

The invariant is stated of any state record, `Good(s, M, K)`: M is what
`clientq` holds and K the windows that are in a group. The two differ in the
middle of `client_init`, which puts the window in a group before it inserts it
in `clientq`. The proof then follows the code. Lemmas about sequences say what
removing, prepending and appending a client do to a list without duplicates;
each operator of `Clients` and `Groups` has a lemma that it preserves types and
one that it preserves `Good`; each handler is one application of `BecomeGood` to
the operators it calls; `NextGood` collects the actions.

### The display

`Fine(s, M, K)` strengthens `Good` by three parts: `View` (the properties agree
with the lists), `Recent` (outside a cycle the current client heads `clientq`)
and `Display` (under its hypothesis, the current client is not hidden and what is
hidden is unmapped). They belong together: `client_setactive` puts the client it
activates at the head and writes `_NET_ACTIVE_WINDOW`, and the current client is
only visible because whatever hides it also clears `curcc` in the same function.
Each operator has a lemma `...Fields` that says what it does to every field, and
a lemma `...Fine` that follows from it; the handlers again apply them in order.

### The calm desktop

That no window is lost cannot be said of windows alone: between the step of an
application and the handler of its event they disagree with cwm, and lawfully.
`Orderly(s)` says how far. For each window, `Sane` relates the positions of its
unread events to its flags: a destroyed window has its DestroyNotify last; a
window cwm has hidden may have an UnmapNotify unread, which is its own and comes
before any request to map it again; a window on display has none, and one that
its application took off display has exactly one, after which the requests to
map it count anew. That is what makes the test of CLIENT_HIDDEN in
`xev_handle_unmapnotify` right: the flag at the time of reading tells whose
unmapping it was.

Commands break `Sane` in the middle (`client_unhide` of a window whose own
UnmapNotify is unread would make the next reading delete it), so they are treated
apart: idle, `Orderly` says that every window is where its flags say
(`Settled`); each operator keeps that, and sends events only of what it hides;
showing needs `Quiet`, that nothing shown was hidden just now, which
`group_only` earns by hiding and showing different groups. A settled state is
orderly. The rest are lemmas about one window and one event (`SaneUnmap`,
`SaneDestroy`, `SaneMap`, `SaneSent`, ...), about positions in a queue whose
tail is taken or to which an event is appended.

### The desktop

`DeskOf`, `StickyOf` and `ShownOf` are the refinement mapping applied to a state
record, and `Sight` collects what `Fine` says of them. Each operator has a lemma
`...Seen` that tells its effect in those terms only: hiding a list takes its
loose windows out of sight and with them the focus, showing a group adds its
loose windows and gathers the sticky ones. Then each handler is shown to be one
action of `Desktop`, or a stutter. Only where
the code departs from what it is asked for is the step another one (`HideGroup` for
the search, `Join` for movetogroup). Two took most of the work. `client_init` runs
through five operators before the window is in `clientq`, and nothing may be
seen of any other window meanwhile, which is what `Only(s, t, w)` says. The
window search is four operators and one action, `Find`, because they undo each
other in part.

### The steps

`StickyStaysHolds` needs `FInv` and one lemma for each operator, that it unmaps
no sticky window and takes no stickiness away; where `client_toggle_sticky` does,
the window is not unmapped in the same step. `OneGroupOnDisplayHolds` follows
`group_only` through its four operators from `Good` alone, so that it holds from
states whose flags are wrong.

`DialogsJoin` compares the state in which a request is read with the one its
handler leaves. Only `client_init` can manage a window, and it does so with the
groups of all other windows as they were (`Alone`), because `client_transient`
moves nothing but the dialog; so the dialog and its window agree at the end if
`client_transient` made them agree (`Joined`). What remains is that no later part
of `client_init` moves the dialog again: `client_toggle_sticky` would, if it found
it sticky, but nothing has made it so before. Every other handler manages nobody
(`NextKept`).

### The loops

`Cwm` takes `group_only`, `group_alltoggle` and `client_cycle` in closed form.
`LoopsTakeOneStep` shows that the loops of the code leave the same, for any number
of groups and windows and every screen that `Cwm` can come to. Screens are
compared up to the order of unread events (`Like`), because the code hides a
group at a time and the closed form all at once.

For `group_only` the screen at group n is the closed form on the groups before n
(`Only`), with the chosen group shown if it is among them. The step that is hard
is the one after the chosen group: the loop hides a group of a screen where the
sticky clients have already moved, and it must be shown that it could have
hidden it before (`ShowThenHide`), which needs that the groups are disjoint and
that hiding passes over sticky clients. For `group_alltoggle` the screen at n is
the one where every member of the groups before n is shown and the sticky clients
are in the last of these that the loop did not find empty (`Toggled`). Which
groups it finds empty depends on where the sticky clients have gone by then, and
`ToggleSkips` shows that it is what the closed form says of the first screen:
those with only sticky clients are empty when they are reached, unless no group
before was full. For `client_cycle` the invariant is that none of the clients
met is eligible (`Passed`); that the loop ends at the client it began with after
exactly one round needs that the list holds no client twice (`MetTurns`), and
that it begins inside the list needs that the current client is managed.

`ScreensAreCoherent` closes the argument: what the loops need of a screen follows
from `TypeOK`, `ListsAgree` and `ActiveIsCurrent`.

### The outputs

A window that crosses stays in the list of the output it left, and from then on
the links of both may be wrong; run `moved_client` shows how. `Sound(s)` therefore
speaks of the clients alone: which are live, hidden and sticky, their outputs,
their groups and the focus. It is inductive without a word about the links,
because every macro of `queue.h` and every loop over a list changes links only
(`SameClients`), and because `cc->sc` and `cc->group` are written together where
a window is not sticky. `OutputsApartHolds` needs in addition that the members a
group command acts on are all of its own output, which is what `Owned` says.

`SoundUntilCrossed` is about the links. `Chain(t, o, M, n, at)` says that the
list of o is a chain: a function `at` numbers its elements from the head on,
takes every element of M once, and both kinds of pointers and the pointer to the
tail follow it. `Whole(s)` says that the list of each output is the chain of its
windows, that what is live is not freed, and that nothing has gone wrong yet.
Each macro has a lemma on chains (an element unlinked, one put at the head, at
the tail or after another) with its witness for `at`, and a frame lemma: a list
depends on the links of its own nodes only, so that one output's list survives
what is done to another's. Loops that walk a list end, for `at` counts them.
`client_cycle` comes out at a client or where it began. A step that crosses
makes the antecedent `crossed = 0` false, and `Sound` carries on from there. The
last lemmas turn a chain into the sequences the property compares, forwards
and backwards.

### The menus

`MInv` says how the menus nest, what each remembers and where the pointer is.
There are never more than two, since Tab launches only in a menu of programs and
the inner one is of files. The outer menu remembers the focus of the client; an
inner one remembers its window's, which is why the code must restore both, in
order. The pointer, if the user left it alone, is where the innermost menu was
opened or where that menu last took it, so that "restore if user didn't move"
finds it in one of two places; going through both levels it comes home. Nothing
need be known of the results: handling and drawing a key change the text, the
results and the place of one menu and nothing it remembers (`SettleAlike`,
`DrawAlike`).

`RInv` adds what a menu offers and where it is drawn, `Right(mc)` for each open
menu. The results are those of the text or everything, in some rotation, since
Up and Down turn the list; everything is listed only where nothing matches,
which is what makes Tab lawful there: what it completes to is common to all that
it lists. A menu is drawn where it was, moved up if it would leave the output,
and cut if it is longer than that; `Fits` is that its rows stay on it. The order
is no part of the invariant but of the match itself (`ResultsAreOrderedHolds`):
the tiers are filled by four passes over the windows, and names are inserted in
a sorted list without duplicates, both folds over the entries. That a lower tier
is what the manual and the comments call a higher rank, of label, title, class,
current and hidden windows, is shown apart: `Ahead` states it without tiers.
Titles of different age share a tier, and are left out. `TabKeepsResultsHolds`
is an argument about prefixes: the common prefix found by the fold begins with
the text typed and is begun by every program found, so that each of them still
matches, and none is added that did not.

### The geometries

`GInv` is types and four parts. `PagerSeesState` is inductive as it stands.
`Bordered(c)` says more than `BorderIsAsked`: a fullscreen window has no border
if the flag is off, which is the border it will leave fullscreen with. `Kept(c,
normal)` says where the normal geometry is, axis by axis: in `geom` if the axis
is not maximised, in `savegeom` if it is, and during fullscreen in `fullgeom`
or, for an axis that was maximised before, in `savegeom` still. `PlacedKept`
says that the geometry recorded for a group is the one the user gave. Each
toggle has a lemma that it changes what it should and preserves both, by cases
on the flags it finds (`VmaximizePreserves`, `FullscreenPreserves`, ...); each
placement is `Settled`, after which the new geometry is the normal one on the
axes that are not maximised (`Normally`). Size hints come in because every
toggle ends in `client_resize`, which applies them: `Steady` says that the
hints, once applied, change nothing any more, and this is where the arithmetic
with C's division is needed. Both parts are said window by window: of one that
is in `shared` nothing is claimed about its normal geometry, of one in `forced`
nothing about its border, and a command may add a window to either without
ending what is claimed of the others, or of the other part (`MoveNormally`,
`ResizeNormally`, `ConfigureNormally`). What puts a window there is exactly what
section 3 lists.

### The configuration

`Reads` says for each stage of `config_parse` what the configuration is: the
queues it starts with, put through the defaults and then through the kinds of
section of the file, and nothing else, for no event writes it before
`conf_clear`. It is inductive without a word about the properties. What is left
is about lists alone: what a queue put through the lines of a file comes to.

A queue of bindings, buttons or menu commands is a fold where a line takes the
earlier ones for its key away and may put itself at the end. `Replacing` shows,
one line at a time, that this leaves the lines that no later line is for, in
their order, without those that only take away; a line that is not valid (no
keysym, no button, too long) changes nothing and replaces nothing. The defaults
and the file are one such fold over both lists joined (`FoldConcat`).

Settings are functions from outputs, and from groups, where a line writes some
values: what is left at each is the value of the last line that names it
(`LastWins`), for the groups of one section, and again for all sections of an
output. `AutogroupNum` keeps whether a line for name and class was seen, and
`SpecificWins` shows that this flag is up exactly if there is one, so that a
later line for the class alone is passed over. A rule is found again or made for
every line of rules: `OneRuleEach` says that no pair of class and event has two,
which is what `rule_apply` needs to run a command once, since it runs every rule
that fits; `RulesHave` says what the one there is has gathered. What a client is
said to run is the lines of the sections that match its name and class, by
`Matches` and not by the key the code files them under; for the classes that are
left out the two differ.

`GrabbedIsBound` needs `KeysKept` too: unless a MappingNotify is unread, the
grabs are those of the bindings and of the keyboard. Then `xu_key_grab` and
`xev_handle_keypress` are compared (`KeptIsBound`): both decide by the same test
whether Shift is needed, and neither lets a lock count, because no binding has one.

### Loops as folds

What a loop over a queue computes is a fold or a recursive function, and what it
computes for every queue needs induction. The induction theorems of the library
take the predicate as an operator, which the provers here cannot instantiate.
`Lists_proofs` goes another way: a set with 0 and with each number its successor
holds all (`NatSets`, from the minimal element of a well-founded relation),
which takes a set where the library takes a predicate. From it come an existence
theorem for functions recursive over a list (`SequenceRecursion`), one for those
recursive on sets of indices (`SubsetRecursion`), which the folds are defined
by, and `FoldPrefixes`: the values of a fold on the prefixes of a list, each the
step of the one before. For FoldLeft there is a function on all lists that grows
by one step for each element appended (`FoldExists`), and every function that
FoldLeft may be defined by agrees with it (`FoldIs`). A proof about a loop then
names an invariant of the prefix, as one would on paper. `Lists` exists for it:
SelectSeq has no definition that the provers may open, and `Keep` selects by a
set.

### Only model-checked

The liveness properties, for which TLAPS has no means here, that the loops end
(`ImplementsOneStep`) among them; all of `Lifecycle`; `TilesShare` of
`Geometry`, where the shares add up to the area of the output by non-linear
arithmetic.

## 5. Not modelled, and what is left

* `group_restack` and raising and lowering: the stacking order is the server's,
  and the code reads it back; it needs a model of the server's stack. Reading
  shows that `group.c:120-140` goes wrong twice: entries of `winlist` that no
  client fills are read uninitialised, and where one gap is followed by two
  windows, `++lastempty == i` forgets the slot just vacated, so that W, gap, X, Y
  becomes W, X, X, and Y is not restacked.
* Title history, highlights, urgency, colours, fonts, cursors: they change
  nothing that the modelled components read, except the order of search
  results, where the titles are constants.
* RandR: `xev_handle_randr` changes work areas only; the outputs of `Screens` do
  not change.
* The status pipe, spawning, logging, options: I/O. `parson.c` is vendored, and
  of `compat/` only `queue.h` carries state of cwm.

Left of the plan, most important first: what a restart restores (`Lifecycle`)
and `TilesShare` as theorems; `Restack`; outputs that come and go.
