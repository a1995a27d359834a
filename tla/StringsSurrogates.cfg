\* All strings of at most two units from both sides of every boundary.
SPECIFICATION Spec
CONSTANTS
  MaxLength = 2
  Strings <- BoundaryStrings
INVARIANTS
  PassedIsUtf8
