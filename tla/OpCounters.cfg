SPECIFICATION Spec
CONSTANTS
  Inputs <- SmallInputs
  MaxTurns = 6
INVARIANTS TypeOK StackIsNest TotalsExact NeverOvercounts DynamicExact ReportExact
CHECK_DEADLOCK FALSE
