\* MCServices: the file system, the routing hosts and the host with sockets.
\* Their calls are bounded, threads may wait for ever for a packet, and a
\* behaviour of the routes ends with the use of freed memory: hence
\* CHECK_DEADLOCK FALSE.
SPECIFICATION Spec
CONSTANTS
  Users = {"s", "t"}
  Names = {"a", "b"}
  NumInodes = 5
  NumData = 7
  Bits = 8
  TABLE_SIZE = 3
  BLOCK = 5
  ENTRY = 2
  Lengths = {3, 7}
  MaxCalls = 4
  MaxCrashes = 1
  Hosts = {"A", "B", "C"}
  Senders = {"s", "t"}
  HostOf <- OnA
  Targets <- FirstToBoth
  Topology <- Line
  UnstableLinks <- BtoC
  Residues = {"nowhere", "A"}
  MAX_ROUTE_LENGTH = 4
  MaxEvents = 3
  Threads = {"s", "t"}
  Programs <- OneServes
  TCP_MINIMUM_CLIENT = 1
  TCP_MAXIMUM_CLIENT = 2
  MaxTries = 2
  Fragments = {2}
  Garbage = {"none", "ack"}
  Arrivals <- FewArrivals
  MaxWork = 3
INVARIANTS
  BlocksDisjoint
  RefsCoverUses
  TreeIsRooted
  ReaderHasItsBlock
  DiskAlwaysSound
  FaultIsExplained
  OneDiscovery
  NoMisdelivery
  MutexCountsAcks
  NoPacketStranded
  PortsAllTried
PROPERTIES
  CallEnds
  WaiterWoken
  TransmitEnds
CHECK_DEADLOCK FALSE
