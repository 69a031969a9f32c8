SPECIFICATION Spec
CONSTANTS
  LinkTypes = {"ethernet", "raw_ip", "null", "radiotap"}
  EtherTypes = {"ipv4", "ipv6", "vlan", "lldp"}
  IpProtos = {"tcp", "udp", "sctp", "icmp", "pim", "gre", "ipip"}
  UdpTunnels = {"vxlan", "gtp"}
  MaxDepth = 2
  MaxHeaders = 5
INVARIANTS
  OuterIsOutermost
  FlowKeyMatchesColumns
  FragDescribesHeader
  DepthIsOnStack
  GuessLeavesNoLayer
CHECK_DEADLOCK FALSE
