SPECIFICATION Spec
CONSTANTS
  p1 = p1 p2 = p2 n1 = n1 n2 = n2 m1 = m1 m2 = m2 i1 = i1 i2 = i2 c1 = c1 c2 = c2
  None = None
  Proxies = {p1, p2}
  Nodes = {n1, n2}
  Methods = {m1}
  Identifiers = {i1, i2}
  Calls = {c1}
  Caller <- MCCaller
  Wants <- MCWants
  Owner <- MCOwner
  Provides <- MCProvides
  NodeCmds = {"INVOKE"}
  HWM = 1
  CallbackTTL = 1
  CleanUpPeriod = 2
  CleanUpBatch = 1
PROPERTIES OnlyDeadCallbacksPurged
