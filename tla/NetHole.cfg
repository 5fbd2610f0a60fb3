CONSTANT
  Parts = {"fragments"}
SPECIFICATION Spec
INVARIANT
  ReassembledWhole
CHECK_DEADLOCK FALSE
