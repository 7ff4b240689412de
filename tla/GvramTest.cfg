CONSTANTS
  linear_vector <- MCVector
  fill_table <- MCFills
  arc_table <- MCArcs
  Leftovers <- MCLeftovers
SPECIFICATION TestSpec
CHECK_DEADLOCK FALSE
INVARIANTS PassThrough ArcsAreDrawn
