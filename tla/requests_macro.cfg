SPECIFICATION RequestsSpec
CONSTANTS
  MaxLines = 1
  MaxStrokes = 4
  Strokes <- AllStrokes
INVARIANT MacroOffered
