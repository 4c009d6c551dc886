SPECIFICATION ReaderSpec
CONSTANTS
  Sizes = {1, 2}
  HeadLen = 2097151
  LinkLen = 2
  MaxChapters = 3
  MaxSubs = 2
  MaxWrites = 2
  TitleLen = 60
  Word = 256
  Uint32 = 16777216
INVARIANTS IndInv IndexIndInv HandlesAttached IdsUnique LinksResolve RangesTile TreeConsistent LabelsAreNumbers EntriesRead RewrittenTail CutsOfIndex
