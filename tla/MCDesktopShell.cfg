SPECIFICATION FairShellSpec
CONSTANTS
  MaxRetries = 3
  Nothing = Nothing
INVARIANTS
  ShellTypeOK
  NoOrphan
  ProbesBounded
  OneWindow
PROPERTIES
  StartEnds
  QuitEnds
