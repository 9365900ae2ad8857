CONSTANTS
  k1 = k1
  k2 = k2
  k4 = k4
  k5 = k5
  Keys <- SmallKeys
  NoKey = NoKey
  Pointers = {p, q}
  Null = Null
  HashOf <- SmallHashOf
  MinRehash = 2
  MaxLoad = 1
  Growth = 1
  MinBuckets = 2
  MaxElems = 3
SPECIFICATION Spec
INVARIANTS ListsAreSound DictionaryUntilDangling
