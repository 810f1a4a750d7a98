SPECIFICATION Spec
CONSTANTS
  MaxTouches = 2
INVARIANTS CheckedBoardIsDesign FreshBoardPasses CutLoadsNothing RatsnestSpans
CHECK_DEADLOCK FALSE
