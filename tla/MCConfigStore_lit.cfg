SPECIFICATION Spec
CONSTANTS
  standard = standard
  chosen = chosen
  other = other
  Options <- MCOptions
  Default = standard
  Levels <- MCLevels
INVARIANTS
  DisplayIsLit
