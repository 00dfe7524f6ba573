SPECIFICATION Spec
CONSTANTS
  Proxies = {"p1", "p2"}
  Nodes = {"n1"}
  Channels <- PrefixedChannels
  MaxPublications = 1
  HWM = 2
  Tab = "tab"
INVARIANTS OnlySubscribedHeard
