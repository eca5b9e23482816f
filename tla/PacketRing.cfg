SPECIFICATION PathSpec
CONSTANTS
  a = a
  b = b
  rx = rx
  rxFault = rxFault
  process = process
  Packets <- TwoPackets
  Producers <- Receivers
  Consumers <- RunThread
  Capacity = 3
  Setups <- AllSetups
  RingRoom = 1
  SocketRoom = 2
  PacketParts = 2
  TcpRoom = 7
  TcpReserve = 3
  QueueRoom = 2
  OneRead = 3
  SerialRoom = 6
  MaxLost = 3
  PcapRoom = 4
  PcapReserve = 2
  MaxReplayed = 10
  CacheRoom = 2
  BufferRoom = 2
  MaxPackets = 2
  MaxCalls = 3
INVARIANTS SourceKept RecordingComplete
PROPERTIES FifoSpec WaitersWake ReceptionGoesOn
CHECK_DEADLOCK FALSE
