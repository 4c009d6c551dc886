SPECIFICATION ReaderSpec
CONSTANTS
  Sizes = {2}
  HeadLen = 127
  LinkLen = 2
  MaxChapters = 1
  MaxSubs = 0
  MaxWrites = 1
  TitleLen = 60
  Word = 65536
  Uint32 = 16777216
INVARIANT NilMeansRead
