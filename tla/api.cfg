SPECIFICATION Spec
CONSTANTS
  t1 = t1  t2 = t2  t3 = t3
  s1 = s1  s2 = s2
  h1 = h1  h2 = h2
  Client <- MCClient
  SessionId <- MCSessionId
  Hash <- MCHash
INVARIANTS
  ApiTypeOK
  SessionsAccounted
PROPERTIES
  SessionsPersist
  EveryRequestEnds
  ApiImplementsRegistry
