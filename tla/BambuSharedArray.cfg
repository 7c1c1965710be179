SPECIFICATION Spec
CONSTANTS
  Designs <- SharedArray
  Options <- GoodOptions
INVARIANT BundlesAgree
CHECK_DEADLOCK FALSE
