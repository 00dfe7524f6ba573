SPECIFICATION Spec
CONSTANTS
  Proxies = {"p1", "p2"}
  Nodes = {"n1"}
  Channels <- OneChannel
  MaxPublications = 2
  HWM = 2
  Tab = "tab"
INVARIANTS TypeOK ChannelsCovered RepublishedOnce DueIsWaiting
