CONSTANTS
  Seller = {s1, s2}
  Order = {o1}
  Product = {p1, p2}
  Caller = {c1, c2}
  Worker = {w1, w2}
  NoSeller = NoSeller
  NoWorker = NoWorker
  DailyLimit = 1
  MaxDay = 1
  MaxBookings = 1
  MaxCount = 2
  MaxAttempts = 1
  MaxCode = 2
  Category = {k1}
  Shelf = {f1}
  Item = {i1}
  User = {u1}
  MaxImages = 3
  MaxNamed = 1
SPECIFICATION StoreSpec
INVARIANTS StoreTypeOK StockTakenOnce HolderIsCounted PaidWasVerified ShownImageExists
PROPERTY SettledCountKeeps
SYMMETRY Symmetry
