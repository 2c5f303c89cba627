SPECIFICATION FairSpec
CONSTANTS
  None = None
  Kind = {"pdr", "far", "qer", "urr", "bar"}
  Rule = {1, 2, 3}
  Name <- MCName
  Size = 2
  KeyHash <- MCKeyHash
  Fits = 1
CHECK_DEADLOCK FALSE
INVARIANTS TypeOK HashExact SafeMemory DumpExact
PROPERTIES RequestEnds DumpEnds
CONSTRAINT KindHasItsRules
