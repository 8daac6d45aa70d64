SPECIFICATION ExtractSpec
CONSTANT Outputs <- OnlyTwoTables
CHECK_DEADLOCK FALSE
INVARIANT ContentShown
