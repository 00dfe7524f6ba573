SPECIFICATION Spec
CONSTANTS
  g1 = g1 g2 = g2 g3 = g3 n1 = n1
  r1 = r1 r2 = r2 b1 = b1 b2 = b2 b3 = b3
  None = None
  Guids = {g1, g2, g3}
  Nodes = {n1}
  RespAddr <- RestartResp
  PubAddr <- MovedPub
  NodeConn <- FormerPort
  MayFail = TRUE
  Mortal = {g1}
  Quiets = FALSE
  Prompt = FALSE
INVARIANTS TypeOK OneSubscriberPerPublisher HelloAnswersMatch NoSelfConnection
CHECK_DEADLOCK FALSE
