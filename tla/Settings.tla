------------------------------ MODULE Settings ------------------------------
(***************************************************************************)
(* The configuration of cwm: config_parse.c reads the defaults and the     *)
(* user's file with libconfuse and hands every section to conf.c and       *)
(* rule.c, which keep bindings, menu commands, autogroups, ignored names   *)
(* and rules.  Then the keys of the bindings are grabbed on the root, and  *)
(* again whenever the keyboard changes, and key presses, new clients and   *)
(* rules look up what has been read.                                       *)
(*                                                                         *)
(* A file is a sequence of sections, as cfg_parse leaves it: an option a   *)
(* section leaves out has its default, and what follows an error is lost.  *)
(***************************************************************************)
EXTENDS Naturals, Sequences, FiniteSets, SequencesExt, Lists

CONSTANTS
  Outputs,       \* the names of the screens
  Groups,        \* the groups of a screen, the numbers a group title may have
  WinCommands,   \* tags of name_to_func with the flag CWM_WIN
  RootCommands,  \* tags of name_to_func without it
  Modifiers,     \* the modifiers of the keyboard
  Ignorable,     \* IGNOREMODMASK: the locks
  Codes,         \* the codes of the keys of the keyboard
  Keymaps,       \* functions from codes to pairs of keysyms
  DefaultKeys, DefaultMice,   \* DEFAULT_BINDINGS
  DefaultMenu,   \* DEFAULT_CONFIG_REST
  TooLong,       \* menu commands that do not fit cmd->path
  Files,         \* what the user's file may contain
  Names, Classes, Titles,     \* of the windows that may appear
  None,          \* an option, a file or a client that is not there
  All,           \* the title "*"
  MaxKeys        \* bound: keys pressed and keymaps changed

ASSUME GroupsAssumption ==
  IsFiniteSet(Outputs) /\ IsFiniteSet(Groups) /\ Groups \subseteq Nat /\ 0 \in Groups
ASSUME CommandsAssumption ==
  WinCommands \cap RootCommands = {} /\ "unmap" \notin WinCommands \cup RootCommands
ASSUME ModifiersAssumption ==
  Ignorable \subseteq Modifiers /\ "Shift" \in Modifiers \ Ignorable

\* No keyboard has a key 0, and its keys are few
ASSUME CodesAssumption == Codes \subseteq Nat \ {0}

\* The lists of a file are lists, and modifiers of bindings are no locks
IsList(q) == q \in Seq(ToSet(q))
AreBindings(q) == IsList(q) /\ \A b \in ToSet(q) : b.mask \subseteq Modifiers \ Ignorable
ASSUME DefaultsAssumption ==
  AreBindings(DefaultKeys) /\ AreBindings(DefaultMice) /\ IsList(DefaultMenu)
ASSUME FilesAssumption ==
  \A f \in Files : IsList(f) /\ \A s \in ToSet(f) :
    /\ s.kind = "bindings" => AreBindings(s.keys) /\ AreBindings(s.mice)
    /\ s.kind = "menu" => IsList(s.items)
    /\ s.kind = "screen" => IsList(s.groups)
    /\ s.kind = "clients" =>
         IsList(s.clients) /\ \A cl \in ToSet(s.clients) :
           IsList(cl.rules) /\ \A l \in ToSet(cl.rules) : IsList(l.commands)

NoCode == 0      \* XKeysymToKeycode of a keysym that no key carries: AnyKey
NotSet == 0      \* a field of xmalloc before the defaults are read
Default == 1     \* borderwidth 4 and the colours of color_opts, gap 0, ...

VARIABLES
  phase,    \* how far config_parse has come
  file,     \* the sections read from the user's file, or None
  conf,     \* the queues of conf.c and rule.c and the settings of the screens
  keymap,   \* the keyboard of the X server
  grabs,    \* the keys the server keeps for cwm
  unread,   \* MappingNotify and KeyPress events not yet handled
  pressed,  \* number of keys pressed and keymaps changed
  ran,      \* the commands the last key press, or the last new client, ran
  client    \* the last client to appear

vars == <<phase, file, conf, keymap, grabs, unread, pressed, ran, client>>

NameToFunc == WinCommands \cup RootCommands

RuleTitles == {"on-map", "on-focus", "on-close", "on-net-active"}

-----------------------------------------------------------------------------
(* conf.c *)

\* conf_unbind_kbd, conf_unbind_mouse; "on" is the keysym or the button
Unbind(q, b) == Keep(q, {k \in ToSet(q) : k.mask # b.mask \/ k.on # b.on})

\* Mutant of Bind: a binding with more modifiers is taken for a duplicate
BindMore(q, b) ==
  LET rest == Keep(q, {k \in ToSet(q) : ~(b.mask \subseteq k.mask) \/ k.on # b.on})
  IN  IF b.cmd = "unmap" THEN rest ELSE Append(rest, b)

\* The part that conf_bind_kbd and conf_bind_mouse share
Bind(q, b) ==
  LET rest == Unbind(q, b) IN IF b.cmd = "unmap" THEN rest ELSE Append(rest, b)

\* XStringToKeysym
IsKeysym(name) == name # "NoSymbol"

\* conf_bind_kbd.  A command that is no function is one to execute.
BindKbd(q, b) == IF IsKeysym(b.on) THEN Bind(q, b) ELSE q

\* strtonum(button, Button1, Button5)
IsButton(b) == b.on \in 1..5

\* conf_bind_mouse compares every tag, the last one is NULL
MouseCrashes(b) == IsButton(b) /\ b.cmd \notin NameToFunc \cup {"unmap"}

BindMouse(q, b) == IF IsButton(b) THEN Bind(q, b) ELSE q

\* conf_cmd_add: an entry replaces the one of its name
CmdAdd(q, item) ==
  IF item.cmd \in TooLong THEN q
  ELSE Append(Keep(q, {c \in ToSet(q) : c.entry # item.entry}), item)

\* The keycode of a keysym: the keys that carry it unshifted come first
CodeOf(map, sym) ==
  LET With(level) == {c \in Codes : map[c][level] = sym}
  IN  IF With(1) # {} THEN Min(With(1))
      ELSE IF With(2) # {} THEN Min(With(2)) ELSE NoCode

\* Mutant of KeyGrab: Shift is not asked for
KeyGrabNoShift(map, b) ==
  LET code == CodeOf(map, b.on)
  IN  {<<b.mask \cup ign, c>> : ign \in SUBSET Ignorable,
                                c \in IF code = NoCode THEN Codes ELSE {code}}

\* xu_key_grab, with every combination of the locks
KeyGrab(map, b) ==
  LET code  == CodeOf(map, b.on)
      shift == IF code # NoCode /\ map[code][1] # b.on THEN {"Shift"} ELSE {}
  IN  {<<b.mask \cup shift \cup ign, c>> :
          ign \in SUBSET Ignorable, c \in IF code = NoCode THEN Codes ELSE {code}}

\* conf_grab_kbd
GrabKbd(q, map) == UNION {KeyGrab(map, b) : b \in ToSet(q)}

\* conf_grab_mouse
GrabMouse(q) ==
  {<<b.mask \cup ign, b.on>> : ign \in SUBSET Ignorable,
                               b \in {m \in ToSet(q) : m.cmd \in WinCommands}}

-----------------------------------------------------------------------------
(* rule.c *)

RulesFor(q, class, event) == {i \in DOMAIN q : q[i].class = class /\ q[i].event = event}

\* Mutant of RuleConfig: the rule of the event is taken whatever its class
RuleConfigAnyClass(q, class, event, action) ==
  LET rules == {i \in DOMAIN q : q[i].event = event}
  IN  IF action \notin NameToFunc THEN q
      ELSE IF rules = {}
      THEN Append(q, [class |-> class, event |-> event, items |-> <<action>>])
      ELSE [q EXCEPT ![Min(rules)].items = Append(@, action)]

\* rule_config, rule_make_binding
RuleConfig(q, class, event, action) ==
  LET rules == RulesFor(q, class, event)
  IN  IF action \notin NameToFunc THEN q
      ELSE IF rules = {}
      THEN Append(q, [class |-> class, event |-> event, items |-> <<action>>])
      ELSE [q EXCEPT ![Min(rules)].items = Append(@, action)]

\* A line of the file
RuleLine(q, l) == RuleConfig(q, l.class, l.event, l.action)

\* rule_apply: the commands it runs, in order
RuleApply(q, class, event) ==
  FlattenSeq([i \in DOMAIN q |->
                IF i \in RulesFor(q, class, event) THEN q[i].items ELSE <<>>])

-----------------------------------------------------------------------------
(* config_parse.c *)

\* The sections of one kind, in the order of the file
Sections(f, kind) == Keep(f, {s \in ToSet(f) : s.kind = kind})

\* What the sections of one kind hold under one name, section after section
Items(f, kind, name) ==
  LET q == Sections(f, kind) IN FlattenSeq([i \in DOMAIN q |-> q[i][name]])

ClientsOf(f) == Items(f, "clients", "clients")
KeysOf(f)    == Items(f, "bindings", "keys")
MiceOf(f)    == Items(f, "bindings", "mice")
MenuOf(f)    == Items(f, "menu", "items")

\* config_intern_menu
InternMenu(c, f) == [c EXCEPT !.cmds = FoldLeft(CmdAdd, @, MenuOf(f))]

\* config_intern_bindings
InternBindings(c, f) ==
  [c EXCEPT !.keys = FoldLeft(BindKbd, @, KeysOf(f)),
            !.mice = FoldLeft(BindMouse, @, MiceOf(f))]

\* A client's autogroup; what is no group is logged and used as 0
GroupNumber(g) == IF g \in Groups THEN g ELSE 0

\* The rules of a client section are kept under its name if it has one
RuleKey(cl) == IF cl.name # None THEN cl.name ELSE cl.class

\* The lines "rule ... {command = ...}" of a client section with a valid title;
\* class is what they are kept under
RuleLines(cl) ==
  FlattenSeq([r \in DOMAIN cl.rules |->
    IF cl.rules[r].event \notin RuleTitles THEN <<>>
    ELSE [i \in DOMAIN cl.rules[r].commands |->
            [client |-> cl, class |-> RuleKey(cl), event |-> cl.rules[r].event,
             action |-> cl.rules[r].commands[i]]]])

RuleLinesOf(f) ==
  LET q == ClientsOf(f) IN FlattenSeq([i \in DOMAIN q |-> RuleLines(q[i])])

\* The autogroup directives of client sections
AutogroupsOf(f) ==
  LET q == Keep(ClientsOf(f), {cl \in ToSet(ClientsOf(f)) : cl.autogroup # None})
  IN  [i \in DOMAIN q |->
         [name |-> q[i].name, class |-> q[i].class, num |-> GroupNumber(q[i].autogroup)]]

\* config_intern_clients.  A client fills three lists that know nothing of one
\* another.
InternClients(c, f) ==
  [c EXCEPT !.autogroups = @ \o AutogroupsOf(f),
            !.ignored = @ \cup {cl.class : cl \in {d \in ToSet(ClientsOf(f)) : d.ignore}},
            !.rules = FoldLeft(RuleLine, @, RuleLinesOf(f))]

\* The outputs of the title of a screen section, the groups of a group's title
TitleOutputs(s) == IF s.titles = {All} THEN Outputs ELSE s.titles \cap Outputs
TitleGroups(g)  == IF g.titles = {All} THEN Groups ELSE g.titles \cap Groups

\* config_intern_group writes every option of a group, the ones the section
\* leaves to their defaults too
InternGroup(style, g) ==
  [n \in Groups |-> IF n \in TitleGroups(g) THEN g.style ELSE style[n]]

\* config_internalise_groups
InternGroups(style, s) == FoldLeft(InternGroup, style, s.groups)

InternStyle(style, s) ==
  [o \in Outputs |-> IF o \in TitleOutputs(s) THEN InternGroups(style[o], s) ELSE style[o]]

\* Mutant of InternLook: the first section of an output is the one kept
InternLookFirst(look, s) ==
  [o \in Outputs |->
     IF o \in TitleOutputs(s) /\ look[o] \in {NotSet, Default} THEN s.look ELSE look[o]]

\* config_intern_screen, for the outputs of a title
InternLook(look, s) ==
  [o \in Outputs |-> IF o \in TitleOutputs(s) THEN s.look ELSE look[o]]

\* config_internalise
Internalise(c, f) ==
  [c EXCEPT !.look  = FoldLeft(InternLook, @, Sections(f, "screen")),
            !.style = FoldLeft(InternStyle, @, Sections(f, "screen"))]

\* DEFAULT_CONFIG_SCR for one output, DEFAULT_CONFIG_REST
DefaultScreen(o) ==
  [kind |-> "screen", titles |-> {o}, look |-> Default,
   groups |-> SetToSeq({[titles |-> {g}, style |-> Default] : g \in Groups})]

DefaultRest ==
  <<[kind |-> "menu", items |-> DefaultMenu],
    [kind |-> "bindings", keys |-> DefaultKeys, mice |-> DefaultMice]>>

\* config_parse: the user's file is used if it has a section for a screen
Applies(f) == f # None /\ Sections(f, "screen") # <<>>

-----------------------------------------------------------------------------
(* What an event, and a client, look up *)

\* xev_handle_keypress: the binding a key is looked up to, as a set
Lookup(q, map, code, state) ==
  LET sym   == map[code][1]
      shsym == map[code][2]
      Match(b) ==
        LET shift == IF sym # b.on /\ shsym = b.on THEN {"Shift"} ELSE {}
        IN  /\ b.mask \cup shift = state \ Ignorable
            /\ b.on = (IF shift = {} THEN sym ELSE shsym)
      found == {i \in DOMAIN q : Match(q[i])}
  IN  IF found = {} THEN {} ELSE {q[Min(found)]}

\* Mutant of AutogroupNum: a later directive for the class alone wins
AutogroupNumLast(q, name, class) ==
  FoldLeft(LAMBDA num, aw :
             IF aw.class = class /\ aw.name \in {None, name} THEN aw.num ELSE num,
           None, q)

\* group_autogroup, the loop over autogroupq and one turn of it
AutogroupStep(acc, aw, name, class) ==
  IF aw.class # class THEN acc
  ELSE IF aw.name = name THEN [num |-> aw.num, both |-> TRUE]
  ELSE IF aw.name = None /\ ~acc.both THEN [acc EXCEPT !.num = aw.num]
  ELSE acc

AutogroupNum(q, name, class) ==
  FoldLeft(LAMBDA acc, aw : AutogroupStep(acc, aw, name, class),
           [num |-> None, both |-> FALSE], q).num

\* conf_client: a name of ignoreq is compared with the title of the window
IsIgnored(ignored, title) == title \in ignored

-----------------------------------------------------------------------------
Init ==
  /\ phase = "screens"
  /\ file \in Files \cup {None}
  /\ conf = [keys |-> <<>>, mice |-> <<>>, cmds |-> <<>>, autogroups |-> <<>>,
             ignored |-> {}, rules |-> <<>>, look |-> [o \in Outputs |-> NotSet],
             style |-> [o \in Outputs |-> [g \in Groups |-> NotSet]]]
  /\ keymap \in Keymaps
  /\ grabs = {}
  /\ unread = <<>>
  /\ pressed = 0
  /\ ran = <<>>
  /\ client = None

Parse(from, to, c) ==
  /\ phase = from
  /\ phase' = to
  /\ conf' = c
  /\ UNCHANGED <<file, keymap, grabs, unread, pressed, ran, client>>

\* config_default, CFG_DEF_SCR, of one output after the other
ScreenDefaults ==
  Parse("screens", "rest",
        Internalise(conf, SetToSeq({DefaultScreen(o) : o \in Outputs})))

\* config_default, CFG_DEF_REST
RestDefaults ==
  Parse("rest", IF Applies(file) THEN "clients" ELSE "apply",
        InternMenu(InternBindings(InternClients(conf, DefaultRest), DefaultRest), DefaultRest))

\* config_default, CFG_DEF_USER, one kind of section after the other
UserClients == Parse("clients", "bindings", InternClients(conf, file))

UserBindings ==
  Parse("bindings",
        IF \E i \in DOMAIN MiceOf(file) : MouseCrashes(MiceOf(file)[i])
        THEN "crashed" ELSE "internalise",
        InternBindings(conf, file))

UserScreens == Parse("internalise", "menu", Internalise(conf, file))

UserMenu == Parse("menu", "apply", InternMenu(conf, file))

\* config_apply: every output has the same root window
Apply ==
  /\ phase = "apply"
  /\ phase' = "running"
  /\ grabs' = GrabKbd(conf.keys, keymap)
  /\ UNCHANGED <<file, conf, keymap, unread, pressed, ran, client>>

-----------------------------------------------------------------------------
\* The user presses a key; the server keeps it for cwm if it is grabbed
PressKey(code, state) ==
  /\ phase = "running" /\ pressed < MaxKeys
  /\ <<state, code>> \in grabs
  /\ unread' = Append(unread, [type |-> "KeyPress", code |-> code, state |-> state])
  /\ pressed' = pressed + 1
  /\ UNCHANGED <<phase, file, conf, keymap, grabs, ran, client>>

\* The keyboard changes
ChangeKeymap ==
  /\ phase = "running" /\ pressed < MaxKeys
  /\ keymap' \in Keymaps \ {keymap}
  /\ unread' = Append(unread, [type |-> "MappingNotify"])
  /\ pressed' = pressed + 1
  /\ UNCHANGED <<phase, file, conf, grabs, ran, client>>

Reading(type) ==
  /\ phase = "running" /\ unread # <<>> /\ Head(unread).type = type
  /\ unread' = Tail(unread)
  /\ UNCHANGED <<phase, file, conf, keymap, pressed, client>>

\* Mutant of HandleMappingNotify: the keys grabbed before are kept
HandleMappingNotifyKeep ==
  /\ Reading("MappingNotify")
  /\ grabs' = grabs \cup GrabKbd(conf.keys, keymap)
  /\ UNCHANGED ran

\* xev_handle_mappingnotify, MappingKeyboard: Xlib fetches the keymap anew
HandleMappingNotify ==
  /\ Reading("MappingNotify")
  /\ grabs' = GrabKbd(conf.keys, keymap)
  /\ UNCHANGED ran

Changing(q) == \E i \in DOMAIN q : q[i].type = "MappingNotify"

\* xev_handle_keypress.  Xlib may have the keymap of before a change, or has
\* fetched the new one when it saw the MappingNotify arrive.
HandleKeyPress ==
  /\ Reading("KeyPress")
  /\ \E map \in {keymap} \cup (IF Changing(Tail(unread)) THEN Keymaps ELSE {}) :
       LET e == Head(unread) IN
       ran' = SetToSeq({b.cmd : b \in Lookup(conf.keys, map, e.code, e.state)})
  /\ UNCHANGED grabs

\* client_init of a new window: its group, whether it is ignored, the keys of
\* the mouse grabbed on it, and what its on-map rules run
Appear(name, class, title) ==
  /\ phase = "running" /\ client = None
  /\ client' = [name |-> name, class |-> class, title |-> title,
                num |-> AutogroupNum(conf.autogroups, name, class),
                ignored |-> IsIgnored(conf.ignored, title),
                buttons |-> GrabMouse(conf.mice)]
  /\ ran' = RuleApply(conf.rules, class, "on-map")
  /\ UNCHANGED <<phase, file, conf, keymap, grabs, unread, pressed>>

\* x_teardown and conf_clear, which leaves the rules and what the screens keep
Clear ==
  /\ phase = "running"
  /\ phase' = "stopped"
  /\ conf' = [conf EXCEPT !.keys = <<>>, !.mice = <<>>, !.cmds = <<>>,
                          !.autogroups = <<>>, !.ignored = {}]
  /\ grabs' = {}
  /\ UNCHANGED <<file, keymap, unread, pressed, ran, client>>

Next ==
  \/ ScreenDefaults \/ RestDefaults
  \/ UserClients \/ UserBindings \/ UserScreens \/ UserMenu
  \/ Apply
  \/ \E code \in Codes, state \in SUBSET Modifiers : PressKey(code, state)
  \/ ChangeKeymap
  \/ HandleMappingNotify
  \/ HandleKeyPress
  \/ \E n \in Names, c \in Classes, t \in Titles : Appear(n, c, t)
  \/ Clear

Spec == Init /\ [][Next]_vars

-----------------------------------------------------------------------------
(* Properties.  The file is read here by the line, not by the queue: a line *)
(* is in force if no later line is for the same thing.                     *)

InForce(lines, Valid(_), Same(_, _)) ==
  Pick(lines, {i \in DOMAIN lines :
    /\ Valid(lines[i])
    /\ \A j \in DOMAIN lines : j > i /\ Valid(lines[j]) => ~Same(lines[i], lines[j])})

SameBinding(b, d) == b.mask = d.mask /\ b.on = d.on
SameEntry(m, n)   == m.entry = n.entry
NotUnmap(lines)   == Keep(lines, {b \in ToSet(lines) : b.cmd # "unmap"})

UserFile == IF Applies(file) THEN file ELSE <<>>

\* Once the configuration is read, a key, a button and a name of the menu has
\* what its last line gives it, "unmap" nothing, and once only, in the order
\* of those lines, which is the order bindings are searched and items shown
\* (conf_bind_kbd, conf_bind_mouse, conf_cmd_add).
BindingsAsWritten ==
  phase = "running" =>
    /\ conf.keys = NotUnmap(InForce(DefaultKeys \o KeysOf(UserFile),
                                    LAMBDA b : IsKeysym(b.on), SameBinding))
    /\ conf.mice = NotUnmap(InForce(DefaultMice \o MiceOf(UserFile), IsButton, SameBinding))
    /\ conf.cmds = InForce(DefaultMenu \o MenuOf(UserFile),
                           LAMBDA m : m.cmd \notin TooLong, SameEntry)

\* With every MappingNotify handled, a key that is kept from the applications
\* runs a command, with any lock, and every binding has a key that is kept
\* (xu_key_grab against xev_handle_keypress).  The keysyms of all bindings
\* must be on the keyboard: one that is not grabs every key.
GrabbedIsBound ==
  phase = "running" /\ ~Changing(unread)
  /\ (\A b \in ToSet(conf.keys) : CodeOf(keymap, b.on) # NoCode) =>
    /\ \A g \in grabs : Lookup(conf.keys, keymap, g[2], g[1]) # {}
    /\ \A b \in ToSet(conf.keys) : \E g \in grabs : Lookup(<<b>>, keymap, g[2], g[1]) # {}

\* A client goes to the group of the last directive for its name and class,
\* and failing one to that of the last for its class alone ("The more specific
\* last match wins.", the manual on group_autogroup).
MostSpecificWins ==
  client # None =>
    LET lines == Keep(ClientsOf(UserFile), {l \in ToSet(ClientsOf(UserFile)) :
                        l.autogroup # None /\ l.class = client.class})
        Of(name) == Keep(lines, {l \in ToSet(lines) : l.name = name})
        LastOf(q) == GroupNumber(Last(q).autogroup)
    IN  client.num = IF Of(client.name) # <<>> THEN LastOf(Of(client.name))
                     ELSE IF Of(None) # <<>> THEN LastOf(Of(None)) ELSE None

\* A section is for the clients of its class, and if it gives a name for those
\* of that name only (the manual on clients).
Matches(cl, name, class) == cl.class = class /\ cl.name \in {None, name}

\* The rules of some section with a name are for clients of this class, or are
\* kept as if they were for a class of that name
NamedRules(class) ==
  \E l \in ToSet(RuleLinesOf(UserFile)) :
    l.client.name # None /\ class \in {l.client.name, l.client.class}

\* A client runs each command of the rules of the sections that match it once,
\* in the order of the file, though a rule is found again for every command and
\* rules of several classes and sections are read in turn (rule_config,
\* rule_apply).  Classes that a section with a name mixes up with others are
\* left out: NamedRulesRun is about them.
RulesAsWritten ==
  phase = "running" =>
    LET all == RuleLinesOf(UserFile)
        Of(name, class, event) ==
          Keep(all, {l \in ToSet(all) :
                       /\ Matches(l.client, name, class)
                       /\ l.event = event /\ l.action \in NameToFunc})
    IN  \A name \in Names, class \in Classes, event \in RuleTitles :
          LET lines == Of(name, class, event)
          IN  NamedRules(class) \/ RuleApply(conf.rules, class, event)
                                     = [j \in DOMAIN lines |-> lines[j].action]

\* "if their name and class properties match windowname and windowclass": the
\* rules of the only section with a name run for the clients it matches.
NamedRulesRun ==
  phase = "running" =>
    \A l \in ToSet(RuleLinesOf(UserFile)), name \in Names, class \in Classes :
      /\ l.client.name # None /\ Matches(l.client, name, class)
      /\ l.action \in NameToFunc
      /\ \A cl \in ToSet(ClientsOf(UserFile)) : cl.name # None => cl = l.client
      => l.action \in ToSet(RuleApply(conf.rules, class, l.event))

\* Every output and group has the settings of the last section for it, the
\* section's defaults for the options it leaves out, or else the defaults of
\* the program (config_internalise over the defaults and the user's sections).
ScreensAsWritten ==
  phase = "running" =>
    \A o \in Outputs :
      LET all  == Sections(UserFile, "screen")
          mine == Keep(all, {s \in ToSet(all) : o \in TitleOutputs(s)})
          groups == FlattenSeq([i \in DOMAIN mine |-> mine[i].groups])
          Of(g) == Keep(groups, {l \in ToSet(groups) : g \in TitleGroups(l)})
      IN  /\ conf.look[o] = IF mine = <<>> THEN Default ELSE Last(mine).look
          /\ \A g \in Groups :
               conf.style[o][g] = IF Of(g) = <<>> THEN Default ELSE Last(Of(g)).style

=============================================================================
