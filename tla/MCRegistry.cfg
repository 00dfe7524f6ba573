SPECIFICATION Spec
CONSTANTS
  p1 = p1 p2 = p2 p3 = p3 n1 = n1 m1 = m1 m2 = m2 i1 = i1
  None = None
  Proxies = {p1, p2}
  Nodes = {n1}
  Methods = {m1}
  Identifiers = {i1}
  Owner <- MCOwner
  Provides <- MCProvides
  RegistersAt <- AnyHome
  LocalTTL = 2
  RemoteTTL = 1
  ExchangePeriod = 1
  MaxDelay = 1
  HWM = 1
INVARIANTS TypeOK RoutesFresh
PROPERTIES ImplementsPromise
