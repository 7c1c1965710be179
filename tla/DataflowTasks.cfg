SPECIFICATION Spec
CONSTANTS
  Cases <- AllCases
INVARIANTS Verifies SameBehaviour PortsExact
CHECK_DEADLOCK FALSE
