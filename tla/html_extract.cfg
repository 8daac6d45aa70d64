SPECIFICATION ExtractSpec
CONSTANT Outputs <- AllOutputs
CHECK_DEADLOCK FALSE
INVARIANTS
  ExtractTypeOK
  ContentKept
  NestingKept
  ColgroupsEndFound
  Simplified
PROPERTIES
  ExtractionAdvances
  ExtractionEnds
