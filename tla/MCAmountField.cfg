SPECIFICATION Spec
CONSTANTS
  Digit = {"1", "2"}
  Typed = {"1", "2", "."}
  MaxLength = 9
  MaxAlone = 3
  MaxEdits = 2
INVARIANTS TypeOK MatchesPattern
PROPERTIES WholeAmountKept CaretKeepsPlace
