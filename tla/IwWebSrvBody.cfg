SPECIFICATION SrvSpec
CONSTANTS
  Requests <- Form
  LengthOf <- Lengths
  EscapeOf <- Escapes
  BadEscapes = {"%zz"}
  BUFF_SIZE = 20
  MaxSize = 200
  Garbage = {"NUL", "old"}
INVARIANT CompleteHasArrived
CHECK_DEADLOCK FALSE
