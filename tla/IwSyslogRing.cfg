SPECIFICATION SpareSpec
CONSTANTS
  BuffSizes <- RingSizes
  TextLens <- RingTexts
  TvLen = 1
  MaxMsgs = 6
INVARIANTS
  SyslogTypeOK
  DisplayIsRecent
  NothingDroppedEarly
PROPERTIES
  AllOrNothing
