\* Three browsers, two of them behind one address; two may create a room and two may join one, all
\* under the same code.
CONSTANTS
  A = A
  B = B
  C = C
  here = here
  there = there
  code = code
  NONE = NONE
  Connection <- AllConnections
  Address = {here, there}
  AddressOf <- TwoBehindOneAddress
  Code = {code}
  StreamId = {9, 10, 11}
  Body <- Chunk
  MAX_MEMBERS = 2
  MAX_CONNECTIONS = 3
  MAX_CONNECTIONS_PER_IP = 2
  MAX_ROOMS = 1
  MAX_ROOMS_PER_IP = 1
  MAX_STREAMS_PER_ROOM = 1
  MAX_BUFFERED = 2
  MAX_TOTAL_BUFFERED = 3
  Hosts = {A, B}
  Guests = {B, C}
  SequenceSpan = 4
  MaxCalls <- CallsOfGuests
  MaxChunks = 3
  MaxUnderway = 1
  MayBeThrottled = {C}
  MayAnswerLate = {C}
SPECIFICATION FairNetSpec
INVARIANTS NetTypeOK MembersAreThere RoomsHaveTheirCreator StreamsJoinMembers FramesStayInTheRoom ConnectionsAreCounted StreamsDeliverInOrder NoHalfOpenStreams EngineFramesAccepted
PROPERTY ClosedRoomsEmpty
CHECK_DEADLOCK FALSE
