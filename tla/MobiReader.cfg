SPECIFICATION ReaderSpec
CONSTANTS
  TextLens <- MCTextLens
  IndexLens <- MCIndexLens
  TitleLens = {9769, 10383}
  ImageLens = {7}
  ValueLens = {2}
  Word = 256
  Reserve = 10240
  Failures = {"never", "once", "for good"}
  MaxImages = 2
  MaxExth = 1
  MaxWrites = 2
INVARIANTS ReaderIndInv IndexFound CutsOfBook OffsetsTrue NameFound NumbersName CoversFound TextIsTextOnce CountsWholeFile FailureReported NeverOverstated
