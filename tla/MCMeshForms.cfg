SPECIFICATION FairSpec
CONSTANTS
  g1 = g1 g2 = g2 g3 = g3 n1 = n1
  r1 = r1 r2 = r2 b1 = b1 b2 = b2 b3 = b3
  None = None
  Guids = {g1, g2, g3}
  Nodes = {}
  RespAddr <- RestartResp
  PubAddr <- RestartPub
  NodeConn <- FormerPort
  MayFail = FALSE
  Mortal = {g1, g3}
  Quiets = TRUE
  Prompt = TRUE
PROPERTIES MeshForms WaitsEnd DeadEntriesLeave
CHECK_DEADLOCK FALSE
