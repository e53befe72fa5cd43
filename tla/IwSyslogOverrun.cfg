SPECIFICATION Spec
CONSTANTS
  BuffSizes = {14}
  TextLens <- AnyText
  TvLen = 1
  MaxMsgs = 4
INVARIANT WriteInBuffer
