SPECIFICATION FlowSpec
CONSTANTS
  Endpoint = {1, 2, 3}
  Proto = {6, 17}
  Name = {n1, n2}
  Layer = {"tcp", "udp", "tls", "http", "dns"}
  Packets <- MCPackets
  MaxFlows = 2
  MaxPackets = 4
INVARIANTS
  IdsInOrder
  OneFlowPerConversation
  FlowIsItsHistory
  HandshakeByAddressOrder
PROPERTIES
  StateAdvances
CHECK_DEADLOCK FALSE
