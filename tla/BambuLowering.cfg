SPECIFICATION Spec
CONSTANTS
  Designs <- SmallDesigns
  Options <- AllOptions
INVARIANTS BundlesAgree ChannelsLive SymbolsDefined FailsUntouched
CHECK_DEADLOCK FALSE
