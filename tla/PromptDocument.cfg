\* two edits, of any kind and at any caret or selection, on documents with lists and chips
CONSTANTS
  Radix = 2
  Position <- Triggers
  ResolvesOnSpace = {"@"}
  Launches = {"/"}
  Typed = {"a", " ", "*", "@"}
  Suggested <- MCSuggested
  Texts <- MCTexts
  Values <- MCValues
  Foreign <- MCForeign
  Documents <- MCDocuments
  MaxLength = 13
  MaxSpan = 2
  MaxUndo = 1
  MaxEdits = 2
  MaxMoves = 1
  Cap = 14
SPECIFICATION Spec
INVARIANTS
  TypeOK
  TakenBack
PROPERTIES
  NumberedByPosition
  CaretKeepsPlace
  EditsInPlace
  UndoMovesAlong
CHECK_DEADLOCK FALSE
