CONSTANTS
  Request = {r1, r2}
  Customer = {u1, u2}
  Helper = {h1}
  Caller = {c1, c2}
  NoHelper = NoHelper
SYMMETRY DispatchSymmetry
SPECIFICATION Spec
INVARIANTS
  TypeOK
  OneLiveJobPerHelper
  BookedRequestIsSettled
PROPERTIES
  ImplementsOffer
