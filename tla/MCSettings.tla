----------------------------- MODULE MCSettings -----------------------------
(* A small instance of Settings: three files of each kind of section, combined *)
(* so that sections override one another, are misspelt, or are cut off.        *)
EXTENDS Settings

Key(mask, on, cmd) == [mask |-> mask, on |-> on, cmd |-> cmd]
Client(name, class, group, ignore, rules) ==
  [name |-> name, class |-> class, autogroup |-> group, ignore |-> ignore, rules |-> rules]
Rule(event, commands) == [event |-> event, commands |-> commands]
Group(titles, style) == [titles |-> titles, style |-> style]
Item(entry, cmd) == [entry |-> entry, cmd |-> cmd]

Ctrl == {"Ctrl"}
CtrlShift == {"Ctrl", "Shift"}

MCDefaultKeys == <<Key(Ctrl, "H", "hide"), Key(Ctrl, "h", "lower"), Key({}, "x", "exec")>>
MCDefaultMice == <<Key({}, 1, "exec"), Key(Ctrl, 1, "hide")>>
MCDefaultMenu == <<Item("term", "xterm"), Item("lock", "lock")>>

MCKeymaps == {<<<<"h", "H">>, <<"x", "X">>>>, <<<<"x", "X">>, <<"h", "H">>>>,
              <<<<"h", "H">>, <<"y", "x">>>>, <<<<"y", "Y">>, <<"h", "H">>>>}

Bind1 == [kind |-> "bindings",
          keys |-> <<Key(Ctrl, "h", "unmap"), Key(CtrlShift, "h", "xclock"), Key({}, "NoSymbol", "hide")>>,
          mice |-> <<Key(Ctrl, 1, "lower"), Key({}, 6, "hide")>>]
Bind2 == [kind |-> "bindings",
          keys |-> <<Key(Ctrl, "h", "xterm"), Key(CtrlShift, "h", "lower")>>,
          mice |-> <<Key({}, 1, "unmap"), Key(CtrlShift, 1, "hide")>>]
Bind3 == [kind |-> "bindings", keys |-> <<Key({}, "x", "unmap")>>, mice |-> <<Key({}, 2, "xterm")>>]

Screen1 == [kind |-> "screen", titles |-> {All}, look |-> 2, groups |-> <<Group({All}, 2), Group({1}, 3)>>]
Screen2 == [kind |-> "screen", titles |-> {"dvi", "nosuch"}, look |-> Default,
            groups |-> <<Group({0, 7}, Default)>>]

Clients1 == [kind |-> "clients", clients |->
  <<Client("xterm", "Term", 1, TRUE, <<Rule("on-map", <<"hide", "nosuch">>)>>),
    Client(None, "Term", 0, FALSE, <<Rule("on-map", <<"nosuch", "lower">>), Rule("map", <<"exec">>)>>)>>]
Clients2 == [kind |-> "clients", clients |->
  <<Client(None, "Web", 42, FALSE, <<Rule("on-map", <<"exec", "hide">>)>>),
    Client(None, "Term", None, TRUE, <<Rule("on-map", <<"exec">>), Rule("on-focus", <<"hide">>)>>),
    Client("xterm", "Web", 1, FALSE, <<>>)>>]
Clients3 == [kind |-> "clients", clients |->
  <<Client(None, "Term", None, FALSE, <<Rule("on-map", <<"lower", "exec">>)>>),
    Client(None, "Web", None, FALSE, <<Rule("on-map", <<"lower">>)>>)>>]

Menu1 == [kind |-> "menu", items |-> <<Item("term", "urxvt"), Item("lock", "long")>>]
Menu2 == [kind |-> "menu", items |-> <<Item("web", "firefox"), Item("term", "xterm")>>]

\* Orders within a kind, and files cut off before their section for a screen
MCFiles ==
  {b \o s : b \in {<<>>, <<Bind1>>, <<Bind2>>, <<Bind1, Bind2>>, <<Bind2, Bind1>>, <<Bind1, Bind3>>},
            s \in {<<>>, <<Screen1>>, <<Screen1, Screen2>>, <<Screen2, Screen1>>}}
  \cup {c \o m \o <<Screen2>> : c \in {<<>>, <<Clients1>>, <<Clients1, Clients2>>, <<Clients2, Clients1>>,
                                                      <<Clients2, Clients3>>},
                              m \in {<<>>, <<Menu1>>, <<Menu1, Menu2>>, <<Menu2, Menu1>>}}
=============================================================================
