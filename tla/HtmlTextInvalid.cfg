SPECIFICATION Spec
CONSTANTS
  Workers = {w1}
  MaxRecordSize = 3
  MaxText = 2
  MCRunes = {"ascii", "invalid"}
  Runes = {"ascii", "invalid"}
  SrcBytes <- MCSrcBytes
  OutLen <- MCOutLen
  BookTexts <- MCBookTexts
  Compressions = {"PalmDoc"}
  Strategies = {"CompressFast"}
INVARIANT TextLengthExact
