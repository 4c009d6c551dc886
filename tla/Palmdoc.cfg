SPECIFICATION Spec
CONSTANTS
  Window = 5
  MaxChunk = 4
  Letters = {97, 98}
  MaxLong = 13
  Kinds = {0, 8, 9, 32, 64, 127, 128}
  MaxShort = 4
  Inputs <- MCInputs
INVARIANTS IndInv DecodesToPrefix Restored SelfDelimiting SlicesInBounds LongestMatch
PROPERTIES Terminates
