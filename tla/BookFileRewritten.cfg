SPECIFICATION ReaderSpec
CONSTANTS
  TextLens <- MCTextLens
  IndexLens <- MCIndexLens
  TitleLens = {5}
  ImageLens = {7}
  ValueLens = {1}
  Word = 65536
  Reserve = 10240
  Failures = {"never"}
  MaxImages = 0
  MaxExth = 0
  MaxWrites = 2
INVARIANT TextIsText
