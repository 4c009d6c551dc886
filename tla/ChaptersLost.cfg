SPECIFICATION Spec
CONSTANTS
  Sizes = {2}
  HeadLen = 3
  LinkLen = 2
  MaxChapters = 2
  MaxSubs = 2
  MaxWrites = 0
INVARIANT NothingLost
