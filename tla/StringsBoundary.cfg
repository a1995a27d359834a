\* All strings of at most four units from both sides of every boundary.
SPECIFICATION Spec
CONSTANTS
  MaxLength = 4
  Strings <- BoundaryStrings
INVARIANTS
  TypeOK
  ViewLargeEnough
  PassedIsWtf8
  RoundTrip
PROPERTIES
  LoopsAdvance
