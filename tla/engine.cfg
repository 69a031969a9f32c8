SPECIFICATION EngineSpec
CONSTANTS
  Frames <- MCFrames
  Ids = {1}
  HdrLen <- MCHdrLen
  Known = {10, 11}
  FragKeys <- MCFragKeys
  FragByte <- MCByte
  FragPayloads <- MCFragPayloads
  Offsets = {0, 1, 3}
  MaxSets = 1
  MaxFragBytes = 5
  MaxFragments = 4
  StreamKeys <- Directions
  Byte <- MCByte
  SegPayloads <- MCSegPayloads
  SeqSpace = 16
  MaxStreams = 1
  MaxStreamBytes = 4
  MaxPending = 2
  MaxSegments = 4
  Endpoint = {1, 2, 3, 4}
  Proto = {6, 17}
  Name = {}
  Layer <- MCLayer
  Packets <- FlowPackets
  MaxFlows = 2
  MaxPackets = 4
INVARIANTS
  FragmentsJoinTheirFlow
  LayersOnce
  StreamIsFromFirsts
CHECK_DEADLOCK FALSE
