CONSTANTS
  Windows <- MCWindows
  Paths <- MCPaths
  Executable <- MCExecutable
  Letters = {1, 2}
  MaxEntry = 2
  Current = "w1"
  Entries <- MCEntries
  Top = 1
  Bottom = 4
  Rows = {0, 2, 4}
  MaxOpened = 2
SPECIFICATION Spec
CHECK_DEADLOCK FALSE
PROPERTY ArrowsNavigate
