SPECIFICATION Spec
CONSTANTS
  Calls <- MCCalls
  Slices = {"buf"}
  Contents <- MCContents
  Uint32 = 16777216
  MaxAdds = 3
  MaxImages = 1
  MaxWrites = 2
INVARIANTS ExthIndInv ReadBack ValuesKept
