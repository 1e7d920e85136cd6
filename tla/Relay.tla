------------------------------- MODULE Relay -------------------------------
(***************************************************************************)
(* The relay server of the browser build (wasm/relay/server.js): it puts   *)
(* WebSocket connections into rooms and forwards datagrams and streams     *)
(* between the members of a room.  The server is one thread that runs one  *)
(* handler at a time, so each handler is one action.                       *)
(*                                                                         *)
(* A connection is used once: a browser that comes back has a new one.  A  *)
(* room object is named by the connection that created it, which creates   *)
(* no other.  A socket that has been told to close (or was terminated)     *)
(* stays a member, and its messages are still handled, until its close     *)
(* event: these are the sockets that are "closing".                        *)
(*                                                                         *)
(* Abstracted: payloads (a value that names the sender's chunk), JSON      *)
(* metadata, bytes on the wire (a frame each), lengths of time (a timer    *)
(* may fire whenever it is set), the traffic windows (a frame may find     *)
(* them used up at any time), the log.                                     *)
(***************************************************************************)
EXTENDS Integers, Sequences, FiniteSets

CONSTANTS
  Connection,              \* WebSocket connections
  Address,                 \* IP addresses
  AddressOf,               \* ws.relayIp
  Code,                    \* well-formed room codes
  StreamId,                \* stream identifiers, without the 0 that is never one
  Body,                    \* what datagrams and stream data may hold
  MAX_MEMBERS, MAX_CONNECTIONS, MAX_CONNECTIONS_PER_IP, MAX_ROOMS, MAX_ROOMS_PER_IP,
  MAX_STREAMS_PER_ROOM,
  MAX_BUFFERED,            \* MAX_BUFFERED_BYTES, in frames
  MAX_TOTAL_BUFFERED,      \* MAX_TOTAL_BUFFERED_BYTES, in frames
  NONE                     \* null, undefined

ASSUME RelayConstants ==
  /\ IsFiniteSet(Connection) /\ IsFiniteSet(Code) /\ IsFiniteSet(StreamId)
  /\ AddressOf \in [Connection -> Address]
  /\ StreamId \subseteq Nat \ {0}
  /\ NONE \notin Connection \cup Code
  /\ MAX_MEMBERS \in Nat \ {0}
  /\ {MAX_CONNECTIONS, MAX_CONNECTIONS_PER_IP, MAX_ROOMS, MAX_ROOMS_PER_IP,
      MAX_STREAMS_PER_ROOM, MAX_BUFFERED, MAX_TOTAL_BUFFERED} \subseteq Nat
  /\ MAX_ROOMS <= Cardinality(Code)

Member == 1 .. MAX_MEMBERS
NoPair == [a |-> 0, b |-> 0]
Pair   == [a : Member, b : Member]

VARIABLES
  socket,                  \* ws.readyState here: none, open, closing, closed
  room,                    \* the handlers' variable room
  myId,                    \* the handlers' variable myId, 0 before HELLO
  rooms,                   \* the map of open rooms
  codeOf,                  \* room.code
  members,                 \* room.members
  streams,                 \* room.streams
  closed,                  \* rooms with room.closed
  listed,                  \* rooms with room.public, and with room.metadata
  connectionsByIp,
  shuttingDown,
  down,                    \* frames on their way to each client
  hungUp                   \* clients that have left or that the network has cut off

roomVars  == <<room, myId, rooms, codeOf, members, closed>>
relayVars == <<socket, roomVars, streams, listed, connectionsByIp, shuttingDown, down, hungUp>>

Present(c) == socket[c] \in {"open", "closing"}

\* The addresses' count of connections, wss.clients.size and rooms.size.
Clients   == {c \in Connection : Present(c)}
OpenRooms == {k \in Code : rooms[k] # NONE}

-----------------------------------------------------------------------------
(* Frames.  Every frame has all the fields, so that sets of them are easy   *)
(* to write; from is no part of the frame, it remembers whose data it is.   *)

HelloFrame(create, code) == [kind |-> "HELLO", create |-> create, code |-> code]
ToMember(kind, dest, stream, body) ==
  [kind |-> kind, dest |-> dest, stream |-> stream, body |-> body]

\* What a client may send: BAD stands for every frame that is malformed, an ill-formed room code
\* included.
UpFrame ==
  [kind : {"HELLO"}, create : BOOLEAN, code : Code \cup {NONE}]
    \cup [kind : {"DGRAM", "OPEN", "DATA", "CLOSE"}, dest : Member \cup {0},
          stream : StreamId \cup {0}, body : Body \cup {NONE}]
    \cup [kind : {"PUBLISH", "UNLIST", "BAD"}]

ToClient(kind, member, stream, from, body) ==
  [kind |-> kind, member |-> member, stream |-> stream, from |-> from, body |-> body]

DownFrame ==
  [kind : {"WELCOME", "DGRAM", "OPEN", "DATA", "CLOSE", "PEER_LEFT", "ERROR"},
   member : Nat, stream : StreamId \cup {0}, from : Connection \cup {NONE},
   body : Body \cup {NONE}]

\* safeSend and closeWithDeadline.  A handler sends at most one frame to each socket: frames
\* maps the recipients to theirs.  A socket is closed instead when its own buffer is full or those
\* of all clients together are (as the handler finds them: what it sends to several recipients is
\* not counted one by one).  What is sent to a client that has hung up is lost, but nobody has
\* noticed yet.
TotalBuffered == Cardinality(UNION {{c} \X DOMAIN down[c] : c \in Clients})

Fits(c) == Len(down[c]) < MAX_BUFFERED /\ TotalBuffered < MAX_TOTAL_BUFFERED

DownAfter(frames) ==
  [c \in Connection |-> IF c \in DOMAIN frames \ hungUp /\ socket[c] = "open" /\ Fits(c)
                        THEN Append(down[c], frames[c])
                        ELSE down[c]]

\* A full buffer only costs the frame.
FaultySocketsAfter(frames, closing) ==
  [c \in Connection |-> IF socket[c] = "open" /\ c \in closing THEN "closing" ELSE socket[c]]

SocketsAfter(frames, closing) ==
  [c \in Connection |->
     IF socket[c] = "open" /\ (c \in closing \/ (c \in DOMAIN frames /\ ~Fits(c)))
     THEN "closing"
     ELSE socket[c]]

Post(frames, closing) ==
  /\ down' = DownAfter(frames)
  /\ socket' = SocketsAfter(frames, closing)

Only(c, frame) == [x \in {c} |-> frame]
Nothing        == [x \in {} |-> NONE]

\* sendError: the error, and the connection is closed.
SendError(c, code) == Post(Only(c, ToClient("ERROR", code, 0, NONE, NONE)), {c})

-----------------------------------------------------------------------------
(* Connections come.                                                        *)

RelayInit ==
  /\ socket = [c \in Connection |-> "none"]
  /\ room = [c \in Connection |-> NONE]
  /\ myId = [c \in Connection |-> 0]
  /\ rooms = [k \in Code |-> NONE]
  /\ codeOf = [c \in Connection |-> NONE]
  /\ members = [r \in Connection |-> [i \in Member |-> NONE]]
  /\ streams = [r \in Connection |-> [s \in StreamId |-> NoPair]]
  /\ closed = {}
  /\ listed = {}
  /\ connectionsByIp = [ip \in Address |-> 0]
  /\ shuttingDown = FALSE
  /\ down = [c \in Connection |-> <<>>]
  /\ hungUp = {}

\* server.on('upgrade') that is let through, and wss.on('connection').
Upgrade(c) ==
  /\ socket[c] = "none"
  /\ ~shuttingDown
  /\ Cardinality(Clients) < MAX_CONNECTIONS
  /\ connectionsByIp[AddressOf[c]] < MAX_CONNECTIONS_PER_IP
  /\ socket' = [socket EXCEPT ![c] = "open"]
  /\ connectionsByIp' = [connectionsByIp EXCEPT ![AddressOf[c]] = @ + 1]
  /\ UNCHANGED <<roomVars, streams, listed, shuttingDown, down, hungUp>>

\* The timer set for a connection that has not said HELLO.
HelloTimeout(c) ==
  /\ Present(c) /\ room[c] = NONE
  /\ Post(Nothing, {c})
  /\ UNCHANGED <<roomVars, streams, listed, connectionsByIp, shuttingDown, hungUp>>

-----------------------------------------------------------------------------
(* HELLO                                                                    *)

RoomsOf(ip) == {k \in OpenRooms : AddressOf[rooms[k]] = ip}

MayCreate(c) ==
  /\ Cardinality(OpenRooms) < MAX_ROOMS
  /\ Cardinality(RoomsOf(AddressOf[c])) < MAX_ROOMS_PER_IP

\* The code of a new room: the one asked for, or any that is free (makeRoomCode).
NewCodes(code) == (IF code = NONE THEN Code ELSE {code}) \ OpenRooms

\* One member too many.
FaultyFreeIds(r) == {i \in 1 .. MAX_MEMBERS + 1 : i \in Member => members[r][i] = NONE}

FreeIds(r) == {i \in Member : members[r][i] = NONE}

\* while (room.members.has(myId)) myId++
FreeId(r) == CHOOSE i \in FreeIds(r) : \A j \in FreeIds(r) : i <= j

Join(c, r, code) ==
  /\ room' = [room EXCEPT ![c] = r]
  /\ myId' = [myId EXCEPT ![c] = FreeId(r)]
  /\ members' = [members EXCEPT ![r][FreeId(r)] = c]
  /\ Post(Only(c, ToClient("WELCOME", FreeId(r), 0, NONE, NONE)), {})

CreateRoom(c, f) ==
  /\ f.create /\ MayCreate(c)
  /\ \E code \in NewCodes(f.code) :
       /\ rooms' = [rooms EXCEPT ![code] = c]
       /\ codeOf' = [codeOf EXCEPT ![c] = code]
       /\ Join(c, c, code)
  /\ UNCHANGED <<closed, streams, listed>>

JoinRoom(c, f) ==
  /\ ~f.create
  /\ f.code \in OpenRooms
  /\ rooms[f.code] \notin closed
  /\ FreeIds(rooms[f.code]) # {}
  /\ Join(c, rooms[f.code], f.code)
  /\ UNCHANGED <<rooms, codeOf, closed, streams, listed>>

\* Errors 1 (no such room) and 2 (too many rooms, code in use, room full).
TurnAway(c, f) ==
  /\ \/ /\ f.create
        /\ ~MayCreate(c) \/ NewCodes(f.code) = {}
        /\ SendError(c, 2)
     \/ /\ ~f.create
        /\ f.code \notin OpenRooms \/ rooms[f.code] \in closed
        /\ SendError(c, 1)
     \/ /\ ~f.create
        /\ f.code \in OpenRooms /\ rooms[f.code] \notin closed
        /\ FreeIds(rooms[f.code]) = {}
        /\ SendError(c, 2)
  /\ UNCHANGED <<roomVars, streams, listed>>

Hello(c, f) == CreateRoom(c, f) \/ JoinRoom(c, f) \/ TurnAway(c, f)

-----------------------------------------------------------------------------
(* Frames of members                                                        *)

\* The room is looked up by its code.
FaultyPeerOf(r, i) ==
  IF i \in Member /\ rooms[codeOf[r]] # NONE THEN members[rooms[codeOf[r]]][i] ELSE NONE

PeerOf(r, i) == IF i \in Member THEN members[r][i] ELSE NONE

\* Which frames are met with badFrame.
Acceptable(c, f) ==
  \/ f.kind = "HELLO" /\ room[c] = NONE
  \/ /\ room[c] # NONE
     /\ \/ f.kind = "DGRAM"
        \/ /\ f.kind = "OPEN"
           /\ f.stream # 0 /\ streams[room[c]][f.stream] = NoPair
           /\ f.dest # myId[c]
        \/ /\ f.kind \in {"DATA", "CLOSE"}
           /\ f.stream # 0 /\ streams[room[c]][f.stream] # NoPair =>
                myId[c] \in {streams[room[c]][f.stream].a, streams[room[c]][f.stream].b}
        \/ f.kind \in {"PUBLISH", "UNLIST"} /\ myId[c] = 1

BadFrame(c) ==
  /\ SendError(c, 3)
  /\ UNCHANGED <<roomVars, streams, listed>>

Dgram(c, f) ==
  LET dest == PeerOf(room[c], f.dest)
  IN  /\ Post(IF dest = NONE THEN Nothing
              ELSE Only(dest, ToClient("DGRAM", myId[c], 0, c, f.body)), {})
      /\ UNCHANGED <<roomVars, streams, listed>>

OpenStream(c, f) ==
  LET r    == room[c]
      dest == PeerOf(r, f.dest)
  IN  /\ \/ /\ Cardinality({s \in StreamId : streams[r][s] # NoPair}) >= MAX_STREAMS_PER_ROOM
            /\ Post(Nothing, {c})
            /\ UNCHANGED streams
         \/ /\ Cardinality({s \in StreamId : streams[r][s] # NoPair}) < MAX_STREAMS_PER_ROOM
            /\ \/ /\ dest = NONE
                  /\ Post(Only(c, ToClient("CLOSE", 0, f.stream, NONE, NONE)), {})
                  /\ UNCHANGED streams
               \/ /\ dest # NONE
                  /\ streams' = [streams EXCEPT ![r][f.stream] = [a |-> myId[c], b |-> f.dest]]
                  /\ Post(Only(dest, ToClient("OPEN", myId[c], f.stream, c, f.body)), {})
      /\ UNCHANGED <<roomVars, listed>>

OtherId(pair, i) == IF pair.a = i THEN pair.b ELSE pair.a

\* DATA and CLOSE.  The other end is always there: a member's streams go when he does.
StreamFrame(c, f) ==
  LET r     == room[c]
      pair  == IF f.stream = 0 THEN NoPair ELSE streams[r][f.stream]
      other == PeerOf(r, OtherId(pair, myId[c]))
  IN  /\ \/ /\ pair = NoPair
            /\ Post(Nothing, {})
            /\ UNCHANGED streams
         \/ /\ pair # NoPair
            /\ streams' = IF f.kind = "CLOSE" \/ other = NONE
                          THEN [streams EXCEPT ![r][f.stream] = NoPair]
                          ELSE streams
            /\ Post(IF other = NONE THEN Nothing
                    ELSE Only(other, ToClient(f.kind, 0, f.stream, c, f.body)), {})
      /\ UNCHANGED <<roomVars, listed>>

Publish(c, f) ==
  /\ listed' = IF f.kind = "PUBLISH" THEN listed \cup {room[c]} ELSE listed \ {room[c]}
  /\ UNCHANGED <<socket, down, roomVars, streams>>

\* ws.on('message')
Receive(c, f) ==
  /\ Present(c)
  /\ \/ ~Acceptable(c, f) /\ BadFrame(c)
     \/ /\ Acceptable(c, f)
        /\ \/ f.kind = "HELLO" /\ Hello(c, f)
           \/ f.kind = "DGRAM" /\ Dgram(c, f)
           \/ f.kind = "OPEN" /\ OpenStream(c, f)
           \/ f.kind \in {"DATA", "CLOSE"} /\ StreamFrame(c, f)
           \/ f.kind \in {"PUBLISH", "UNLIST"} /\ Publish(c, f)
  /\ UNCHANGED <<connectionsByIp, shuttingDown, hungUp>>

\* withinTrafficLimit is false: the frame is dropped and the connection closed.
Throttle(c) ==
  /\ Present(c)
  /\ Post(Nothing, {c})
  /\ UNCHANGED <<roomVars, streams, listed, connectionsByIp, shuttingDown, hungUp>>

-----------------------------------------------------------------------------
(* Connections go.                                                          *)

\* Only the streams that others have opened to the member who left.
FaultyStreamsWithout(r, i) ==
  [s \in StreamId |-> IF i = streams[r][s].b THEN NoPair ELSE streams[r][s]]

StreamsWithout(r, i) ==
  [s \in StreamId |-> IF i \in {streams[r][s].a, streams[r][s].b} THEN NoPair ELSE streams[r][s]]

\* Nothing is done for a room that is closed.
FaultyMembersWithout(r, i) == IF r \in closed THEN members ELSE [members EXCEPT ![r][i] = NONE]

MembersWithout(r, i) == [members EXCEPT ![r][i] = NONE]

MembersOf(r) == {members[r][i] : i \in Member} \ {NONE}

\* The address of somebody who was never in a room is forgotten about.
FaultyUncounted(c) ==
  IF room[c] = NONE THEN connectionsByIp ELSE [connectionsByIp EXCEPT ![AddressOf[c]] = @ - 1]

Uncounted(c) == [connectionsByIp EXCEPT ![AddressOf[c]] = @ - 1]

\* The last one to leave a closed room takes the code with him.
FaultyRoomsWithout(c) ==
  IF myId[c] = 1 \/ MembersOf(room[c]) = {c} THEN [rooms EXCEPT ![codeOf[room[c]]] = NONE] ELSE rooms

\* The creator's leaving closes the room.  That somebody else is the last to leave an open room
\* (the end of the code's cleanup) does not happen: the creator is there as long as it is open.
RoomsWithout(c) ==
  IF myId[c] = 1 THEN [rooms EXCEPT ![codeOf[room[c]]] = NONE] ELSE rooms

\* The others find out by themselves.
FaultyThrownOut(c) == {}

\* Whom the leaving of c costs the connection.
ThrownOut(c) == IF myId[c] = 1 THEN MembersOf(room[c]) \ {c} ELSE {}

\* cleanup, on the close event.
SocketCloses(c) ==
  LET r    == room[c]
      gone == [x \in MembersOf(r) \ {c} |-> ToClient("PEER_LEFT", myId[c], 0, NONE, NONE)]
  IN  /\ socket[c] = "closing" \/ (socket[c] = "open" /\ c \in hungUp)
      /\ connectionsByIp' = Uncounted(c)
      /\ \/ /\ r = NONE
            /\ socket' = [socket EXCEPT ![c] = "closed"]
            /\ UNCHANGED <<down, roomVars, streams, listed>>
         \/ /\ r # NONE
            /\ members' = MembersWithout(r, myId[c])
            /\ streams' = [streams EXCEPT ![r] = StreamsWithout(r, myId[c])]
            /\ rooms' = RoomsWithout(c)
            /\ \/ /\ r \in closed
                  /\ socket' = [socket EXCEPT ![c] = "closed"]
                  /\ UNCHANGED <<down, closed, listed>>
               \/ /\ r \notin closed
                  /\ down' = DownAfter(gone)
                  /\ socket' = [SocketsAfter(gone, ThrownOut(c)) EXCEPT ![c] = "closed"]
                  /\ closed' = IF myId[c] = 1 THEN closed \cup {r} ELSE closed
                  /\ listed' = IF myId[c] = 1 THEN listed \ {r} ELSE listed
            /\ UNCHANGED <<room, myId, codeOf>>
      /\ UNCHANGED <<shuttingDown, hungUp>>

\* The interval timer: who has not answered the last ping is terminated.  Whether the answer came
\* in time is left open.
HeartbeatTimeout(c) ==
  /\ ~shuttingDown
  /\ Present(c)
  /\ Post(Nothing, {c})
  /\ UNCHANGED <<roomVars, streams, listed, connectionsByIp, shuttingDown, hungUp>>

\* SIGTERM, SIGINT
Shutdown ==
  /\ ~shuttingDown
  /\ shuttingDown' = TRUE
  /\ Post(Nothing, Connection)
  /\ UNCHANGED <<roomVars, streams, listed, connectionsByIp, hungUp>>

\* The network hands the next frame to a client.
TakeFrame(c) ==
  /\ down[c] # <<>>
  /\ down' = [down EXCEPT ![c] = Tail(@)]
  /\ UNCHANGED <<socket, roomVars, streams, listed, connectionsByIp, shuttingDown, hungUp>>

\* A client leaves, or is cut off; what is on its way to it is lost.
HangUp(c) ==
  /\ c \notin hungUp
  /\ hungUp' = hungUp \cup {c}
  /\ down' = [down EXCEPT ![c] = <<>>]
  /\ UNCHANGED <<socket, roomVars, streams, listed, connectionsByIp, shuttingDown>>

RelayNext ==
  \/ \E c \in Connection :
       \/ Upgrade(c) \/ HelloTimeout(c) \/ Throttle(c) \/ HeartbeatTimeout(c)
       \/ SocketCloses(c) \/ TakeFrame(c) \/ HangUp(c)
       \/ \E f \in UpFrame : Receive(c, f)
  \/ Shutdown

RelaySpec == RelayInit /\ [][RelayNext]_relayVars

-----------------------------------------------------------------------------
(* Properties                                                               *)

RelayTypeOK ==
  /\ socket \in [Connection -> {"none", "open", "closing", "closed"}]
  /\ room \in [Connection -> Connection \cup {NONE}]
  /\ myId \in [Connection -> Member \cup {0}]
  /\ rooms \in [Code -> Connection \cup {NONE}]
  /\ codeOf \in [Connection -> Code \cup {NONE}]
  /\ members \in [Connection -> [Member -> Connection \cup {NONE}]]
  /\ streams \in [Connection -> [StreamId -> Pair \cup {NoPair}]]
  /\ closed \subseteq Connection
  /\ listed \subseteq Connection
  /\ connectionsByIp \in [Address -> Nat]
  /\ shuttingDown \in BOOLEAN
  /\ down \in [Connection -> Seq(DownFrame)]
  /\ hungUp \subseteq Connection

\* The handlers of a connection and its room agree: a member is a connection that is there and has
\* this room and number; a connection that is there is the member it was told to be.  A closing socket
\* whose HELLO is still answered, and two joins for the same free number, are what could break it.
MembersAreThere ==
  /\ \A r \in Connection, i \in Member :
       members[r][i] # NONE =>
         Present(members[r][i]) /\ room[members[r][i]] = r /\ myId[members[r][i]] = i
  /\ \A c \in Connection :
       Present(c) /\ room[c] # NONE => myId[c] \in Member /\ members[room[c]][myId[c]] = c

\* A code leads to a room exactly as long as its creator is in it: no room is lost because somebody
\* leaves a room that had the code before, none stays when its creator has gone, and only such
\* rooms are offered in the public list.
RoomsHaveTheirCreator ==
  /\ \A k \in Code, r \in Connection :
       rooms[k] = r <=> (codeOf[r] = k /\ members[r][1] = r)
  /\ \A r \in Connection : r \in closed => members[r][1] = NONE
  /\ \A r \in listed : members[r][1] = r

\* A stream joins two different members that are both there: none outlives one of its ends, so a
\* number that is given out again does not inherit any.
StreamsJoinMembers ==
  \A r \in Connection, s \in StreamId :
    streams[r][s] # NoPair =>
      /\ streams[r][s].a # streams[r][s].b
      /\ members[r][streams[r][s].a] # NONE /\ members[r][streams[r][s].b] # NONE

\* What a client gets comes from a member of its own room, past or present.
FramesStayInTheRoom ==
  \A c \in Connection : \A k \in DOMAIN down[c] :
    down[c][k].from # NONE => room[c] # NONE /\ room[down[c][k].from] = room[c]

\* The count of connections of an address, by which newcomers are turned away, is right.
ConnectionsAreCounted ==
  \A ip \in Address :
    connectionsByIp[ip] = Cardinality({c \in Clients : AddressOf[c] = ip})
=============================================================================
