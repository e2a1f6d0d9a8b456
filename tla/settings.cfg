CONSTANTS
  Outputs = {"vga", "dvi"}
  Groups = {0, 1}
  WinCommands = {"lower", "hide"}
  RootCommands = {"exec"}
  Modifiers = {"Ctrl", "Shift", "Lock"}
  Ignorable = {"Lock"}
  Codes = {1, 2}
  Keymaps <- MCKeymaps
  DefaultKeys <- MCDefaultKeys
  DefaultMice <- MCDefaultMice
  DefaultMenu <- MCDefaultMenu
  TooLong = {"long"}
  Files <- MCFiles
  Names = {"xterm", "other"}
  Classes = {"Term", "Web", "xterm"}
  Titles = {"Term", "shell"}
  None = None
  All = All
  MaxKeys = 2
SPECIFICATION Spec
CHECK_DEADLOCK FALSE
INVARIANTS
  BindingsAsWritten
  GrabbedIsBound
  MostSpecificWins
  RulesAsWritten
  ScreensAsWritten
