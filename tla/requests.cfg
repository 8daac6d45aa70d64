SPECIFICATION RequestsSpec
CONSTANTS
  MaxLines = 3
  MaxStrokes = 4
  Strokes <- AllStrokes
INVARIANTS
  RequestsTypeOK
  OneMainOutput
  MessageFits
  GraphsInOrder
  CompletionFits
  InspectionRight
  RunCompletes
PROPERTY StaysOffered
