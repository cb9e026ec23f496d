\* Every function on small inputs.
SPECIFICATION Spec
CONSTANTS
  Inputs <- AllInputs
  Meaning <- Grammar
  MaxInt = 1000
INVARIANTS
  CalculatorIsRight
  ChunksCarryDocument
  RulesHold
  MaskingHolds
  SchemaIsHonoured
  ConfigurationHolds
  EdgeHolds
PROPERTY EveryCallEnds
\* A behaviour ends when its function has returned.
CHECK_DEADLOCK FALSE
