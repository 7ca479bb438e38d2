SPECIFICATION ProxySpec
CONSTANTS
  m1 = m1
  m2 = m2
  w = w
  Clients = {c1}
  BadWords = {m1, m2}
  Requests <- AllKinds
  Framings = {"chunked", "length"}
  Cuts = {"fin", "rst"}
  MaxEvents = 3
  Block = 2
  MaxRequests = 2
  MaxDowns = 1
INVARIANTS Masked OthersVerbatim RefusedNeverRan
