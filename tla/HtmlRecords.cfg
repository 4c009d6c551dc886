SPECIFICATION Spec
CONSTANTS
  Workers = {w1, w2}
  MaxRecordSize = 3
  MaxText = 4
  MCRunes = {"ascii", "two", "four"}
  Runes = {"ascii", "two", "four"}
  SrcBytes <- MCSrcBytes
  OutLen <- MCOutLen
  BookTexts <- MCBookTexts
  Compressions = {"None", "PalmDoc"}
  Strategies = {"CompressFast", "CompressLowMemory"}
INVARIANTS IndInv WaitedForAll EachChunkOnce RecordSizes TextLengthExact
PROPERTIES WrittenOnce Terminates ImplementsOrdered
