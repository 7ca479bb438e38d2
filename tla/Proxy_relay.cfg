SPECIFICATION ProxySpec
CONSTANTS
  m1 = m1
  m2 = m2
  w = w
  Clients = {c1, c2}
  BadWords = {m1, m2}
  Requests <- KeepOrClose
  Framings = {"chunked"}
  Cuts = {"fin"}
  MaxEvents = 2
  Block = 2
  MaxRequests = 1
  MaxDowns = 1
INVARIANTS
  CompleteIsWhole
PROPERTIES
  EveryRequestEnds
  HangUpFreesEngine
