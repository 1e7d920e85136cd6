--------------------------- MODULE RelayNetProofs ----------------------------
(***************************************************************************)
(* The relay server and the browsers, for any connections, addresses,      *)
(* codes, stream ids, payloads, limits and bounds.  The first part is      *)
(* about Relay alone, whatever its clients send: rooms, members, streams   *)
(* and counts agree.  The rest is about RelayNet: what its pages send are  *)
(* steps of that relay and accepted, and streams deliver everything in     *)
(* order and end at both ends.                                             *)
(*                                                                         *)
(* That proof has two invariants.  NetInv says that pages, relay and frames *)
(* agree about numbers and connections.  StreamsInv adds what they know of *)
(* one stream, and is kept by each step separately: steps that the stream  *)
(* hears nothing of, the calls of its ends, the frames that the relay and  *)
(* the pages take, and members that come and leave.                        *)
(***************************************************************************)
EXTENDS RelayNet, WellFoundedInduction, FiniteSetTheorems, TLAPS

-----------------------------------------------------------------------------
(* The inductive invariant.                                                 *)

\* The handlers' variables, and what has become of the creator of a room.
HandlersAgree ==
  /\ \A c \in Connection :
       /\ room[c] = NONE <=> myId[c] = 0
       /\ socket[c] = "none" => room[c] = NONE
       /\ codeOf[c] # NONE => room[c] = c
       /\ room[c] # NONE => codeOf[room[c]] # NONE
       /\ room[c] # NONE => (myId[c] = 1 <=> room[c] = c)
  /\ \A r \in closed : codeOf[r] # NONE
  /\ \A r \in Connection : codeOf[r] # NONE /\ r \notin closed => members[r][1] = r

RelayInv ==
  /\ RelayTypeOK
  /\ HandlersAgree
  /\ MembersAreThere
  /\ RoomsHaveTheirCreator
  /\ StreamsJoinMembers
  /\ FramesStayInTheRoom
  /\ ConnectionsAreCounted

-----------------------------------------------------------------------------
(* Sending, and the least free number.                                      *)

LEMMA Constants ==
  /\ 1 \in Member /\ Member \subseteq Nat \ {0} /\ 0 \notin Member
  /\ NONE \notin Connection /\ NONE \notin Code /\ 0 \notin StreamId
  /\ NoPair \notin Pair
  /\ AddressOf \in [Connection -> Address]
BY RelayConstants DEF Member, NoPair, Pair

\* What is under way to x after an action: what was, or that and one frame of frames.
Grown(x, frames) ==
  \/ down'[x] = down[x]
  \/ x \in DOMAIN frames /\ down'[x] = Append(down[x], frames[x])

\* safeSend and closeWithDeadline: nobody comes or goes, and at most one frame goes to each recipient.
LEMMA Posting ==
  ASSUME RelayTypeOK, NEW frames, NEW closing, Post(frames, closing),
         \A x \in Connection : x \in DOMAIN frames => frames[x] \in DownFrame
  PROVE  /\ down' \in [Connection -> Seq(DownFrame)]
         /\ socket' \in [Connection -> {"none", "open", "closing", "closed"}]
         /\ \A x \in Connection : socket'[x] = socket[x] \/ (Present(x) /\ socket'[x] = "closing")
         /\ \A x \in Connection : Grown(x, frames)
<1> USE DEF RelayTypeOK
<1>1. \A x \in Connection : Grown(x, frames) /\ down'[x] \in Seq(DownFrame)
  BY DEF Post, DownAfter, Grown
<1>2. down' \in [Connection -> Seq(DownFrame)]
  BY <1>1 DEF Post, DownAfter
<1>3. \A x \in Connection : socket'[x] = socket[x] \/ (Present(x) /\ socket'[x] = "closing")
  BY DEF Post, SocketsAfter, Present
<1>4. socket' \in [Connection -> {"none", "open", "closing", "closed"}]
  BY DEF Post, SocketsAfter
<1> QED BY <1>1, <1>2, <1>3, <1>4

\* A frame on its way.
LEMMA FrameInSeq ==
  ASSUME NEW s \in Seq(DownFrame), NEW k \in DOMAIN s
  PROVE  s[k] \in DownFrame /\ s[k].from \in Connection \cup {NONE}
<1>1. s[k] \in DownFrame
  OBVIOUS
<1>2. \A f \in DownFrame : f.from \in Connection \cup {NONE}
  BY DEF DownFrame
<1> QED BY <1>1, <1>2

\* The frames of a relay that stays as it is otherwise.
LEMMA GrownFramesStay ==
  ASSUME RelayTypeOK, FramesStayInTheRoom, NEW frames,
         down' \in [Connection -> Seq(DownFrame)],
         \A x \in Connection : Grown(x, frames),
         \A x \in Connection : x \in DOMAIN frames =>
           /\ frames[x] \in DownFrame
           /\ frames[x].from # NONE => room'[x] # NONE /\ room'[frames[x].from] = room'[x],
         \A x \in Connection : room[x] # NONE => room'[x] = room[x]
  PROVE  FramesStayInTheRoom'
<1> SUFFICES ASSUME NEW x \in Connection, NEW k \in DOMAIN down'[x], down'[x][k].from # NONE
             PROVE  room'[x] # NONE /\ room'[down'[x][k].from] = room'[x]
  BY DEF FramesStayInTheRoom
<1>1. CASE down'[x] = down[x]
  <2>1. room[x] # NONE /\ room[down[x][k].from] = room[x]
    BY <1>1 DEF FramesStayInTheRoom
  <2>2. down[x] \in Seq(DownFrame)
    BY DEF RelayTypeOK
  <2>3. down[x][k].from \in Connection
    BY <1>1, <2>2, FrameInSeq
  <2> QED BY <1>1, <2>1, <2>3
<1>2. CASE x \in DOMAIN frames /\ down'[x] = Append(down[x], frames[x])
  <2>1. down[x] \in Seq(DownFrame)
    BY DEF RelayTypeOK
  <2>2. CASE k = Len(down[x]) + 1
    <3>1. down'[x][k] = frames[x]
      BY <1>2, <2>1, <2>2
    <3> QED BY <1>2, <3>1
  <2>3. CASE k # Len(down[x]) + 1
    <3>1. k \in DOMAIN down[x] /\ down'[x][k] = down[x][k]
      BY <1>2, <2>1, <2>3
    <3>2. room[x] # NONE /\ room[down[x][k].from] = room[x]
      BY <3>1 DEF FramesStayInTheRoom
    <3>3. down[x][k].from \in Connection
      BY <1>2, <2>1, <3>1, FrameInSeq
    <3> QED BY <3>1, <3>2, <3>3
  <2> QED BY <2>2, <2>3
<1> QED BY <1>1, <1>2 DEF Grown

\* A frame of the relay's own, to one of its clients.
LEMMA WelcomesStay ==
  ASSUME RelayTypeOK, FramesStayInTheRoom, NEW c \in Connection, NEW out \in DownFrame,
         out.from = NONE, DOMAIN Only(c, out) = {c}, Only(c, out)[c] = out,
         down' \in [Connection -> Seq(DownFrame)],
         \A x \in Connection : Grown(x, Only(c, out)),
         \A x \in Connection : room[x] # NONE => room'[x] = room[x]
  PROVE  FramesStayInTheRoom'
<1>1. \A x \in Connection : x \in DOMAIN Only(c, out) =>
        /\ Only(c, out)[x] \in DownFrame
        /\ Only(c, out)[x].from # NONE =>
             room'[x] # NONE /\ room'[Only(c, out)[x].from] = room'[x]
  OBVIOUS
<1> QED BY <1>1, GrownFramesStay

\* while (room.members.has(myId)) myId++ finds a number that is free; in a new room it is 1.
LEMMA FreeIdIsFree ==
  ASSUME RelayTypeOK, NEW r \in Connection, FreeIds(r) # {}
  PROVE  /\ FreeId(r) \in Member /\ members[r][FreeId(r)] = NONE
         /\ members[r][1] = NONE => FreeId(r) = 1
<1> DEFINE F == FreeIds(r)
<1>1. F \in SUBSET Nat /\ F # {}
  BY Constants DEF FreeIds
<1>2. \E i \in F : \A j \in F : i <= j
  <2> HIDE DEF F
  <2>1. \E i \in F : \A j \in F : <<j, i>> \notin OpToRel(<, Nat)
    BY <1>1, NatLessThanWellFounded, WFMin
  <2>2. PICK i \in F : \A j \in F : <<j, i>> \notin OpToRel(<, Nat)
    BY <2>1
  <2>3. ASSUME NEW j \in F PROVE i <= j
    <3>1. <<j, i>> \in Nat \X Nat
      BY <1>1
    <3>2. ~ (j < i)
      BY <2>2, <3>1 DEF OpToRel
    <3> QED BY <3>1, <3>2
  <2> QED BY <2>2, <2>3
<1>3. FreeId(r) \in F /\ \A j \in F : FreeId(r) <= j
  BY <1>2 DEF FreeId
<1>4. members[r][1] = NONE => FreeId(r) = 1
  <2> SUFFICES ASSUME members[r][1] = NONE PROVE FreeId(r) = 1
    OBVIOUS
  <2>1. 1 \in F
    BY Constants DEF FreeIds
  <2>2. FreeId(r) <= 1 /\ FreeId(r) \in Nat \ {0}
    BY <1>1, <1>3, <2>1, Constants DEF FreeIds
  <2> QED BY <2>2
<1> QED BY <1>3, <1>4 DEF FreeIds
-----------------------------------------------------------------------------
(* The count of connections.                                                *)

\* Nobody comes or goes: the counts stay right.
LEMMA CountsStay ==
  ASSUME ConnectionsAreCounted, connectionsByIp' = connectionsByIp,
         \A x \in Connection : Present(x)' <=> Present(x)
  PROVE  ConnectionsAreCounted'
<1>1. Clients' = Clients
  BY DEF Clients
<1> QED BY <1>1 DEF ConnectionsAreCounted

\* One comes.
LEMMA CountUp ==
  ASSUME RelayTypeOK, ConnectionsAreCounted, NEW c \in Connection, ~Present(c), Present(c)',
         connectionsByIp' = [connectionsByIp EXCEPT ![AddressOf[c]] = @ + 1],
         \A x \in Connection : x # c => (Present(x)' <=> Present(x))
  PROVE  ConnectionsAreCounted' /\ connectionsByIp' \in [Address -> Nat]
<1> DEFINE At(ip) == {x \in Clients : AddressOf[x] = ip}
<1>1. SUFFICES ASSUME NEW ip \in Address
               PROVE  connectionsByIp'[ip] = Cardinality({x \in Clients : AddressOf[x] = ip}')
  BY RelayConstants DEF RelayTypeOK, ConnectionsAreCounted
<1>2. IsFiniteSet(At(ip))
  BY RelayConstants, FS_Subset DEF Clients
<1>3. connectionsByIp[ip] = Cardinality(At(ip)) /\ connectionsByIp \in [Address -> Nat]
  BY DEF ConnectionsAreCounted, RelayTypeOK
<1>4. CASE AddressOf[c] = ip
  <2>1. {x \in Clients : AddressOf[x] = ip}' = At(ip) \cup {c} /\ c \notin At(ip)
    BY <1>4 DEF Clients
  <2>2. Cardinality(At(ip) \cup {c}) = Cardinality(At(ip)) + 1
    <3> HIDE DEF At
    <3> QED BY <1>2, <2>1, FS_AddElement
  <2> QED BY <1>3, <1>4, <2>1, <2>2
<1>5. CASE AddressOf[c] # ip
  <2>1. {x \in Clients : AddressOf[x] = ip}' = At(ip)
    BY <1>5 DEF Clients
  <2> QED BY <1>3, <1>5, <2>1
<1> QED BY <1>4, <1>5

\* One goes: he was counted, so the count does not become negative.
LEMMA CountDown ==
  ASSUME RelayTypeOK, ConnectionsAreCounted, NEW c \in Connection, Present(c), ~(Present(c)'),
         connectionsByIp' = Uncounted(c),
         \A x \in Connection : x # c => (Present(x)' <=> Present(x))
  PROVE  ConnectionsAreCounted' /\ connectionsByIp' \in [Address -> Nat]
<1> DEFINE At(ip) == {x \in Clients : AddressOf[x] = ip}
<1>1. ASSUME NEW ip \in Address
      PROVE  /\ connectionsByIp'[ip] = Cardinality({x \in Clients : AddressOf[x] = ip}')
             /\ connectionsByIp'[ip] \in Nat
  <2>2. IsFiniteSet(At(ip))
    BY RelayConstants, FS_Subset DEF Clients
  <2>3. connectionsByIp[ip] = Cardinality(At(ip)) /\ connectionsByIp \in [Address -> Nat]
    BY DEF ConnectionsAreCounted, RelayTypeOK
  <2>4. CASE AddressOf[c] = ip
    <3>1. {x \in Clients : AddressOf[x] = ip}' = At(ip) \ {c} /\ c \in At(ip)
      BY <2>4 DEF Clients
    <3>2. Cardinality(At(ip) \ {c}) = Cardinality(At(ip)) - 1 /\ Cardinality(At(ip) \ {c}) \in Nat
      <4>1. IsFiniteSet(At(ip) \ {c})
        BY <2>2, FS_Subset
      <4> HIDE DEF At
      <4> QED BY <2>2, <3>1, <4>1, FS_RemoveElement, FS_CardinalityType
    <3> QED BY <2>3, <2>4, <3>1, <3>2 DEF Uncounted
  <2>5. CASE AddressOf[c] # ip
    <3>1. {x \in Clients : AddressOf[x] = ip}' = At(ip)
      BY <2>5 DEF Clients
    <3> QED BY <2>3, <2>5, <3>1 DEF Uncounted
  <2> QED BY <2>4, <2>5
<1>2. connectionsByIp' \in [Address -> Nat]
  BY <1>1 DEF Uncounted, RelayTypeOK
<1> QED BY <1>1, <1>2 DEF ConnectionsAreCounted

-----------------------------------------------------------------------------
(* Steps in which nobody comes, goes or joins.                              *)

\* What is left to show of a step that leaves the rooms alone.
LEMMA RoomsAlone ==
  ASSUME RelayInv, UNCHANGED <<roomVars, connectionsByIp>>,
         streams' \in [Connection -> [StreamId -> Pair \cup {NoPair}]],
         StreamsJoinMembers',
         listed' \subseteq Connection,
         \A r \in listed' : members[r][1] = r,
         shuttingDown' \in BOOLEAN, hungUp' \subseteq Connection,
         down' \in [Connection -> Seq(DownFrame)],
         FramesStayInTheRoom',
         socket' \in [Connection -> {"none", "open", "closing", "closed"}],
         \A x \in Connection : socket'[x] = socket[x] \/ (Present(x) /\ socket'[x] = "closing")
  PROVE  RelayInv'
<1> USE DEF RelayInv, roomVars
<1>1. RelayTypeOK'
  BY DEF RelayTypeOK
<1>2. \A x \in Connection : Present(x)' <=> Present(x)
  BY DEF Present
<1>3. HandlersAgree'
  BY DEF HandlersAgree, Present
<1>4. MembersAreThere'
  <2>1. \A r \in Connection, i \in Member : members[r][i] # NONE => members[r][i] \in Connection
    BY DEF RelayTypeOK
  <2> QED BY <1>2, <2>1 DEF MembersAreThere
<1>5. RoomsHaveTheirCreator'
  BY DEF RoomsHaveTheirCreator
<1>6. ConnectionsAreCounted'
  BY <1>2, CountsStay
<1> QED BY <1>1, <1>3, <1>4, <1>5, <1>6

\* A step that only sends and closes.
LEMMA OnlyPosts ==
  ASSUME RelayInv, UNCHANGED <<roomVars, streams, listed, connectionsByIp>>,
         shuttingDown' \in BOOLEAN, hungUp' = hungUp,
         NEW frames, NEW closing, Post(frames, closing),
         \A x \in Connection : x \in DOMAIN frames =>
           /\ frames[x] \in DownFrame
           /\ frames[x].from # NONE => room[x] # NONE /\ room[frames[x].from] = room[x]
  PROVE  RelayInv'
<1>1. /\ down' \in [Connection -> Seq(DownFrame)]
      /\ socket' \in [Connection -> {"none", "open", "closing", "closed"}]
      /\ \A x \in Connection : socket'[x] = socket[x] \/ (Present(x) /\ socket'[x] = "closing")
      /\ \A x \in Connection : Grown(x, frames)
  BY Posting DEF RelayInv
<1>2. room' = room /\ members' = members
  BY DEF roomVars
<1>3. FramesStayInTheRoom'
  BY <1>1, <1>2, GrownFramesStay DEF RelayInv
<1>4. StreamsJoinMembers'
  BY <1>2 DEF RelayInv, StreamsJoinMembers
<1> QED BY <1>1, <1>2, <1>3, <1>4, RoomsAlone DEF RelayInv, RelayTypeOK, RoomsHaveTheirCreator

LEMMA FrameTypes ==
  ASSUME NEW kind \in {"WELCOME", "DGRAM", "OPEN", "DATA", "CLOSE", "PEER_LEFT", "ERROR"},
         NEW m \in Nat, NEW s \in StreamId \cup {0}, NEW from \in Connection \cup {NONE},
         NEW body \in Body \cup {NONE}
  PROVE  /\ ToClient(kind, m, s, from, body) \in DownFrame
         /\ ToClient(kind, m, s, from, body).from = from
BY DEF ToClient, DownFrame

\* Post(Nothing, closing)
LEMMA OnlyCloses ==
  ASSUME RelayInv, UNCHANGED <<roomVars, streams, listed, connectionsByIp>>,
         shuttingDown' \in BOOLEAN, hungUp' = hungUp, NEW closing, Post(Nothing, closing)
  PROVE  RelayInv'
<1>1. \A x : x \notin DOMAIN Nothing
  BY DEF Nothing
<1> HIDE DEF Nothing
<1> QED BY <1>1, OnlyPosts

\* A frame of somebody's to one recipient in his room, or one of nobody's.
LEMMA PostsOne ==
  ASSUME RelayInv, UNCHANGED <<roomVars, streams, listed, connectionsByIp>>,
         shuttingDown' \in BOOLEAN, hungUp' = hungUp,
         NEW c \in Connection, NEW f \in DownFrame, NEW closing, Post(Only(c, f), closing),
         f.from # NONE => room[c] # NONE /\ room[f.from] = room[c]
  PROVE  RelayInv'
<1>1. DOMAIN Only(c, f) = {c} /\ Only(c, f)[c] = f
  BY DEF Only
<1> HIDE DEF Only
<1>2. \A x \in Connection : x \in DOMAIN Only(c, f) =>
        /\ Only(c, f)[x] \in DownFrame
        /\ Only(c, f)[x].from # NONE => room[x] # NONE /\ room[Only(c, f)[x].from] = room[x]
  BY <1>1
<1> QED BY <1>2, OnlyPosts

\* sendError
LEMMA ErrorKeeps ==
  ASSUME RelayInv, UNCHANGED <<roomVars, streams, listed, connectionsByIp, shuttingDown, hungUp>>,
         NEW c \in Connection, NEW code \in Nat, SendError(c, code)
  PROVE  RelayInv'
<1> DEFINE f == ToClient("ERROR", code, 0, NONE, NONE)
<1>1. f \in DownFrame /\ f.from = NONE
  BY FrameTypes
<1>2. Post(Only(c, f), {c})
  BY DEF SendError
<1>3. shuttingDown' \in BOOLEAN
  BY DEF RelayInv, RelayTypeOK
<1> HIDE DEF f
<1> QED BY <1>1, <1>2, <1>3, PostsOne
-----------------------------------------------------------------------------
(* Frames of members.                                                       *)

LEMMA FrameFields ==
  ASSUME NEW f \in UpFrame
  PROVE  /\ f.kind \in {"DGRAM", "OPEN", "DATA", "CLOSE"} =>
              /\ f.stream \in StreamId \cup {0}
              /\ f.body \in Body \cup {NONE}
         /\ f.kind = "HELLO" => f.create \in BOOLEAN /\ f.code \in Code \cup {NONE}
BY DEF UpFrame

\* Who is found in a room is in it, and who is in a room is found there.
LEMMA Peers ==
  ASSUME RelayInv, NEW r \in Connection, NEW i
  PROVE  PeerOf(r, i) # NONE =>
           /\ i \in Member /\ PeerOf(r, i) = members[r][i]
           /\ PeerOf(r, i) \in Connection /\ room[PeerOf(r, i)] = r
BY DEF PeerOf, RelayInv, RelayTypeOK, MembersAreThere

LEMMA MembersFound ==
  ASSUME RelayInv, NEW c \in Connection, Present(c), room[c] # NONE
  PROVE  /\ room[c] \in Connection /\ myId[c] \in Member /\ members[room[c]][myId[c]] = c
BY DEF RelayInv, RelayTypeOK, MembersAreThere

LEMMA DgramKeeps ==
  ASSUME RelayInv, NEW c \in Connection, Present(c), room[c] # NONE,
         NEW f \in UpFrame, f.kind = "DGRAM", Dgram(c, f),
         UNCHANGED <<connectionsByIp, shuttingDown, hungUp>>
  PROVE  RelayInv'
<1> DEFINE dest == PeerOf(room[c], f.dest)
           out  == ToClient("DGRAM", myId[c], 0, c, f.body)
<1>1. room[c] \in Connection /\ myId[c] \in Nat /\ shuttingDown' \in BOOLEAN
  BY MembersFound, Constants DEF RelayInv, RelayTypeOK
<1>2. CASE dest = NONE
  BY <1>1, <1>2, OnlyCloses DEF Dgram
<1>3. CASE dest # NONE
  <2>1. dest \in Connection /\ room[dest] = room[c]
    BY <1>1, <1>3, Peers
  <2>2. out \in DownFrame /\ out.from = c
    <3>1. f.body \in Body \cup {NONE}
      BY FrameFields
    <3> QED BY <1>1, <3>1 DEF ToClient, DownFrame
  <2>3. Post(Only(dest, out), {}) /\ UNCHANGED <<roomVars, streams, listed>>
    BY <1>3 DEF Dgram
  <2> HIDE DEF dest, out
  <2> QED BY <1>1, <2>1, <2>2, <2>3, PostsOne
<1> QED BY <1>2, <1>3

\* A frame and a change of streams that joins nobody who is not there.
LEMMA StreamsChange ==
  ASSUME RelayInv, UNCHANGED <<roomVars, listed, connectionsByIp, shuttingDown, hungUp>>,
         streams' \in [Connection -> [StreamId -> Pair \cup {NoPair}]], StreamsJoinMembers',
         NEW frames, Post(frames, {}),
         \A x \in Connection : x \in DOMAIN frames =>
           /\ frames[x] \in DownFrame
           /\ frames[x].from # NONE => room[x] # NONE /\ room[frames[x].from] = room[x]
  PROVE  RelayInv'
<1>1. /\ down' \in [Connection -> Seq(DownFrame)]
      /\ socket' \in [Connection -> {"none", "open", "closing", "closed"}]
      /\ \A x \in Connection : socket'[x] = socket[x] \/ (Present(x) /\ socket'[x] = "closing")
      /\ \A x \in Connection : Grown(x, frames)
  BY Posting DEF RelayInv
<1>2. room' = room
  BY DEF roomVars
<1>3. FramesStayInTheRoom'
  BY <1>1, <1>2, GrownFramesStay DEF RelayInv
<1> QED BY <1>1, <1>3, RoomsAlone DEF RelayInv, RelayTypeOK, RoomsHaveTheirCreator

LEMMA OpenStreamKeeps ==
  ASSUME RelayInv, NEW c \in Connection, Present(c), room[c] # NONE,
         NEW f \in UpFrame, f.kind = "OPEN", Acceptable(c, f), OpenStream(c, f),
         UNCHANGED <<connectionsByIp, shuttingDown, hungUp>>
  PROVE  RelayInv'
<1> DEFINE r    == room[c]
           dest == PeerOf(r, f.dest)
           back == ToClient("CLOSE", 0, f.stream, NONE, NONE)
           out  == ToClient("OPEN", myId[c], f.stream, c, f.body)
<1>1. r \in Connection /\ myId[c] \in Member /\ members[r][myId[c]] = c /\ shuttingDown \in BOOLEAN
  BY MembersFound DEF RelayInv, RelayTypeOK
<1>2. f.stream \in StreamId /\ f.dest # myId[c] /\ f.body \in Body \cup {NONE}
  BY FrameFields DEF Acceptable
<1>3. CASE Post(Nothing, {c}) /\ UNCHANGED streams
  BY <1>1, <1>3, OnlyCloses DEF OpenStream
<1>4. CASE dest = NONE /\ Post(Only(c, back), {}) /\ UNCHANGED streams
  <2>1. back \in DownFrame /\ back.from = NONE
    BY <1>2 DEF ToClient, DownFrame
  <2>2. UNCHANGED <<roomVars, listed>>
    BY DEF OpenStream
  <2> HIDE DEF back
  <2> QED BY <1>1, <1>4, <2>1, <2>2, PostsOne
<1>5. CASE /\ dest # NONE
           /\ streams' = [streams EXCEPT ![r][f.stream] = [a |-> myId[c], b |-> f.dest]]
           /\ Post(Only(dest, out), {})
  <2>1. dest \in Connection /\ room[dest] = r /\ f.dest \in Member /\ members[r][f.dest] = dest
    BY <1>1, <1>5, Peers
  <2>2. out \in DownFrame /\ out.from = c
    BY <1>1, <1>2, Constants DEF ToClient, DownFrame
  <2>3. streams' \in [Connection -> [StreamId -> Pair \cup {NoPair}]]
    BY <1>1, <1>2, <1>5, <2>1 DEF RelayInv, RelayTypeOK, Pair
  <2>4. UNCHANGED <<roomVars, listed>>
    BY DEF OpenStream
  <2>5. StreamsJoinMembers'
    <3> SUFFICES ASSUME NEW q \in Connection, NEW s \in StreamId, streams'[q][s] # NoPair
                 PROVE  /\ streams'[q][s].a # streams'[q][s].b
                        /\ members[q][streams'[q][s].a] # NONE
                        /\ members[q][streams'[q][s].b] # NONE
      BY <2>4 DEF StreamsJoinMembers, roomVars
    <3>1. CASE q = r /\ s = f.stream
      <4>1. streams'[q][s] = [a |-> myId[c], b |-> f.dest]
        BY <1>1, <1>2, <1>5, <3>1 DEF RelayInv, RelayTypeOK
      <4>2. dest # NONE /\ c # NONE
        BY <1>5, Constants
      <4> QED BY <1>1, <1>2, <2>1, <3>1, <4>1, <4>2
    <3>2. CASE ~(q = r /\ s = f.stream)
      <4>1. streams'[q][s] = streams[q][s]
        BY <1>1, <1>2, <1>5, <3>2 DEF RelayInv, RelayTypeOK
      <4> QED BY <4>1 DEF RelayInv, StreamsJoinMembers
    <3> QED BY <3>1, <3>2
  <2>6. DOMAIN Only(dest, out) = {dest} /\ Only(dest, out)[dest] = out
    BY DEF Only
  <2>7. \A x \in Connection : x \in DOMAIN Only(dest, out) =>
          /\ Only(dest, out)[x] \in DownFrame
          /\ Only(dest, out)[x].from # NONE =>
               room[x] # NONE /\ room[Only(dest, out)[x].from] = room[x]
    <3> HIDE DEF dest, out
    <3> QED BY <1>1, <2>1, <2>2, <2>6, Constants
  <2> HIDE DEF dest, out
  <2> QED BY <1>5, <2>3, <2>4, <2>5, <2>7, StreamsChange
<1> QED
  <2>1. \/ Post(Nothing, {c}) /\ UNCHANGED streams
        \/ dest = NONE /\ Post(Only(c, back), {}) /\ UNCHANGED streams
        \/ /\ dest # NONE
           /\ streams' = [streams EXCEPT ![r][f.stream] = [a |-> myId[c], b |-> f.dest]]
           /\ Post(Only(dest, out), {})
    BY DEF OpenStream
  <2> QED BY <1>3, <1>4, <1>5, <2>1

LEMMA StreamFrameKeeps ==
  ASSUME RelayInv, NEW c \in Connection, Present(c), room[c] # NONE,
         NEW f \in UpFrame, f.kind \in {"DATA", "CLOSE"}, StreamFrame(c, f),
         UNCHANGED <<connectionsByIp, shuttingDown, hungUp>>
  PROVE  RelayInv'
<1> DEFINE r     == room[c]
           pair  == IF f.stream = 0 THEN NoPair ELSE streams[r][f.stream]
           other == PeerOf(r, OtherId(pair, myId[c]))
           out   == ToClient(f.kind, 0, f.stream, c, f.body)
           posts == IF other = NONE THEN Nothing ELSE Only(other, out)
<1>1. r \in Connection /\ shuttingDown \in BOOLEAN
  BY MembersFound DEF RelayInv, RelayTypeOK
<1>2. f.stream \in StreamId \cup {0} /\ f.body \in Body \cup {NONE}
  BY FrameFields
<1>3. UNCHANGED <<roomVars, listed>>
  BY DEF StreamFrame
<1>4. CASE Post(Nothing, {}) /\ UNCHANGED streams
  BY <1>1, <1>3, <1>4, OnlyCloses
<1>5. CASE /\ pair # NoPair /\ Post(posts, {})
           /\ streams' = IF f.kind = "CLOSE" \/ other = NONE
                         THEN [streams EXCEPT ![r][f.stream] = NoPair] ELSE streams
  <2>1. out \in DownFrame /\ out.from = c
    BY <1>2 DEF ToClient, DownFrame
  <2>2. \A x \in Connection : x \in DOMAIN posts =>
          /\ posts[x] \in DownFrame
          /\ posts[x].from # NONE => room[x] # NONE /\ room[posts[x].from] = room[x]
    <3>1. CASE other = NONE
      BY <3>1 DEF Nothing
    <3>2. CASE other # NONE
      <4>1. room[other] = r /\ other \in Connection
        BY <1>1, <3>2, Peers
      <4>2. posts = Only(other, out)
        BY <3>2
      <4>3. DOMAIN Only(other, out) = {other} /\ Only(other, out)[other] = out
        BY DEF Only
      <4> HIDE DEF other, out, posts
      <4> QED BY <1>1, <2>1, <4>1, <4>2, <4>3, Constants
    <3> QED BY <3>1, <3>2
  <2>3. \/ streams' = [streams EXCEPT ![r][f.stream] = NoPair]
        \/ streams' = streams
    BY <1>5
  <2>0. f.stream \in StreamId
    BY <1>2, <1>5
  <2>4. streams \in [Connection -> [StreamId -> Pair \cup {NoPair}]]
    BY DEF RelayInv, RelayTypeOK
  <2>5. /\ \A q \in Connection, s \in StreamId :
             streams'[q][s] = streams[q][s] \/ streams'[q][s] = NoPair
        /\ streams' \in [Connection -> [StreamId -> Pair \cup {NoPair}]]
    <3>1. CASE streams' = streams
      BY <2>4, <3>1
    <3>2. CASE streams' = [streams EXCEPT ![r][f.stream] = NoPair]
      <4> HIDE DEF r
      <4> QED BY <1>1, <2>0, <2>4, <3>2
    <3> QED BY <2>3, <3>1, <3>2
  <2>6. StreamsJoinMembers'
    BY <1>3, <2>5 DEF RelayInv, StreamsJoinMembers, roomVars
  <2> HIDE DEF posts
  <2> QED BY <1>3, <1>5, <2>2, <2>5, <2>6, StreamsChange
<1> QED
  <2>1. \/ Post(Nothing, {}) /\ UNCHANGED streams
        \/ /\ pair # NoPair /\ Post(posts, {})
           /\ streams' = IF f.kind = "CLOSE" \/ other = NONE
                         THEN [streams EXCEPT ![r][f.stream] = NoPair] ELSE streams
    BY DEF StreamFrame
  <2> QED BY <1>4, <1>5, <2>1
-----------------------------------------------------------------------------
(* HELLO                                                                    *)

\* c takes the free number of a room whose code is known, as its creator or after him.
LEMMA JoinKeeps ==
  ASSUME RelayInv, NEW c \in Connection, Present(c), room[c] = NONE,
         NEW r \in Connection, NEW code, FreeIds(r) # {}, Join(c, r, code),
         UNCHANGED <<closed, streams, listed, connectionsByIp, shuttingDown, hungUp>>,
         rooms' \in [Code -> Connection \cup {NONE}],
         codeOf' \in [Connection -> Code \cup {NONE}],
         codeOf'[r] # NONE, r \notin closed,
         \A d \in Connection : codeOf'[d] = codeOf[d] \/ (d = c /\ r = c),
         FreeId(r) = 1 <=> r = c,
         \A k \in Code, d \in Connection :
           rooms'[k] = d <=> (codeOf'[d] = k /\ members'[d][1] = d)
  PROVE  RelayInv'
<1> DEFINE out == ToClient("WELCOME", FreeId(r), 0, NONE, NONE)
<1>1. FreeId(r) \in Member /\ members[r][FreeId(r)] = NONE
  BY FreeIdIsFree DEF RelayInv
<1>2. /\ room' = [room EXCEPT ![c] = r]
      /\ myId' = [myId EXCEPT ![c] = FreeId(r)]
      /\ members' = [members EXCEPT ![r][FreeId(r)] = c]
      /\ Post(Only(c, out), {})
  BY DEF Join
<1>3. out \in DownFrame /\ out.from = NONE /\ DOMAIN Only(c, out) = {c} /\ Only(c, out)[c] = out
  BY <1>1, Constants DEF ToClient, DownFrame, Only
<1> HIDE DEF out
<1>4. \A x \in Connection : x \in DOMAIN Only(c, out) =>
        /\ Only(c, out)[x] \in DownFrame
        /\ Only(c, out)[x].from # NONE =>
             room'[x] # NONE /\ room'[Only(c, out)[x].from] = room'[x]
  BY <1>3
<1>5. /\ down' \in [Connection -> Seq(DownFrame)]
      /\ socket' \in [Connection -> {"none", "open", "closing", "closed"}]
      /\ \A x \in Connection : socket'[x] = socket[x] \/ (Present(x) /\ socket'[x] = "closing")
      /\ \A x \in Connection : Grown(x, Only(c, out))
  BY <1>2, <1>4, Posting DEF RelayInv
<1>6. \A x \in Connection : Present(x)' <=> Present(x)
  BY <1>5 DEF Present
<1>7. /\ room \in [Connection -> Connection \cup {NONE}]
      /\ myId \in [Connection -> Member \cup {0}]
      /\ members \in [Connection -> [Member -> Connection \cup {NONE}]]
  BY DEF RelayInv, RelayTypeOK
<1>8. /\ room'[c] = r /\ myId'[c] = FreeId(r) /\ members'[r][FreeId(r)] = c
      /\ \A x \in Connection : x # c => room'[x] = room[x] /\ myId'[x] = myId[x]
      /\ \A q \in Connection, i \in Member :
           ~(q = r /\ i = FreeId(r)) => members'[q][i] = members[q][i]
  BY <1>1, <1>2, <1>7
<1>9. RelayTypeOK'
  BY <1>1, <1>2, <1>5, <1>7 DEF RelayInv, RelayTypeOK
<1>10. HandlersAgree'
  <2>0. ASSUME NEW d \in Connection
        PROVE  /\ room'[d] = NONE <=> myId'[d] = 0
               /\ socket'[d] = "none" => room'[d] = NONE
               /\ codeOf'[d] # NONE => room'[d] = d
               /\ room'[d] # NONE => codeOf'[room'[d]] # NONE
               /\ room'[d] # NONE => (myId'[d] = 1 <=> room'[d] = d)
    <3>1. /\ room[d] = NONE <=> myId[d] = 0
          /\ socket[d] = "none" => room[d] = NONE
          /\ codeOf[d] # NONE => room[d] = d
          /\ room[d] # NONE => codeOf[room[d]] # NONE
          /\ room[d] # NONE => (myId[d] = 1 <=> room[d] = d)
      BY DEF RelayInv, HandlersAgree
    <3>2. /\ r # NONE /\ FreeId(r) # 0
          /\ room[d] # NONE => room[d] \in Connection /\ codeOf'[room[d]] = codeOf[room[d]]
          /\ socket'[d] = "none" => socket[d] = "none"
          /\ codeOf[c] = NONE
      <4>1. r # NONE /\ FreeId(r) # 0
        BY <1>1, Constants
      <4>2. socket'[d] = "none" => socket[d] = "none"
        BY <1>5
      <4>3. room[d] # NONE => room[d] \in Connection
        BY <1>7
      <4>4. codeOf[c] = NONE
        BY Constants DEF RelayInv, HandlersAgree
      <4>5. room[d] # NONE => codeOf'[room[d]] = codeOf[room[d]]
        <5>1. room[d] # NONE => room[d] # c
          BY <3>1, <4>4
        <5> QED BY <4>3, <5>1
      <4> QED BY <4>1, <4>2, <4>3, <4>4, <4>5
    <3>3. CASE d = c
      <4>1. socket[c] # "none"
        BY DEF Present
      <4> QED BY <1>8, <3>2, <3>3, <4>1
    <3>4. CASE d # c
      BY <1>8, <3>1, <3>2, <3>4
    <3> QED BY <3>3, <3>4
  <2>5. \A q \in closed' : codeOf'[q] # NONE
    BY <1>8 DEF RelayInv, RelayTypeOK, HandlersAgree
  <2>6. \A q \in Connection : codeOf'[q] # NONE /\ q \notin closed' => members'[q][1] = q
    <3> SUFFICES ASSUME NEW q \in Connection, codeOf'[q] # NONE, q \notin closed
                 PROVE  members'[q][1] = q
      OBVIOUS
    <3>1. CASE q = r /\ r = c
      BY <1>8, <3>1
    <3>2. CASE ~(q = r /\ r = c)
      <4>1. codeOf[q] # NONE
        <5>1. CASE q = r
          BY <3>2, <5>1
        <5>2. CASE q # r
          BY <5>2
        <5> QED BY <5>1, <5>2
      <4>2. members[q][1] = q
        BY <4>1 DEF RelayInv, HandlersAgree
      <4> QED BY <1>1, <1>8, <4>2, Constants
    <3> QED BY <3>1, <3>2
  <2> QED BY <2>0, <2>5, <2>6 DEF HandlersAgree
<1>11. MembersAreThere'
  <2>1. ASSUME NEW q \in Connection, NEW i \in Member, members'[q][i] # NONE
        PROVE  /\ socket'[members'[q][i]] \in {"open", "closing"}
               /\ room'[members'[q][i]] = q
               /\ myId'[members'[q][i]] = i
    <3>1. CASE q = r /\ i = FreeId(r)
      <4>1. members'[q][i] = c /\ socket'[c] \in {"open", "closing"}
        BY <1>6, <1>8, <3>1 DEF Present
      <4> QED BY <1>8, <3>1, <4>1
    <3>2. CASE ~(q = r /\ i = FreeId(r))
      <4>1. members'[q][i] = members[q][i] /\ members[q][i] \in Connection
        BY <1>7, <1>8, <2>1, <3>2
      <4>2. /\ Present(members[q][i]) /\ room[members[q][i]] = q /\ myId[members[q][i]] = i
        BY <2>1, <4>1 DEF RelayInv, MembersAreThere
      <4>3. members[q][i] # c
        BY <4>2, Constants
      <4>4. socket'[members[q][i]] \in {"open", "closing"}
        BY <1>6, <4>1, <4>2 DEF Present
      <4> QED BY <1>8, <4>1, <4>2, <4>3, <4>4
    <3> QED BY <3>1, <3>2
  <2>2. ASSUME NEW d \in Connection, Present(d)', room'[d] # NONE
        PROVE  myId'[d] \in Member /\ members'[room'[d]][myId'[d]] = d
    <3>1. CASE d = c
      BY <1>1, <1>8, <3>1
    <3>2. CASE d # c
      <4>1. room'[d] = room[d] /\ myId'[d] = myId[d] /\ Present(d)
        BY <1>6, <1>8, <2>2, <3>2
      <4>2. myId[d] \in Member /\ members[room[d]][myId[d]] = d /\ room[d] \in Connection
        BY <1>7, <2>2, <4>1 DEF RelayInv, MembersAreThere
      <4>3. ~(room[d] = r /\ myId[d] = FreeId(r))
        BY <1>1, <4>2, Constants
      <4> QED BY <1>8, <4>1, <4>2, <4>3
    <3> QED BY <3>1, <3>2
  <2> QED BY <2>1, <2>2 DEF MembersAreThere, Present
<1>12. RoomsHaveTheirCreator'
  <2>1. \A q \in Connection : q \in closed => members'[q][1] = NONE
    BY <1>8, Constants DEF RelayInv, RoomsHaveTheirCreator
  <2>2. \A q \in listed : members'[q][1] = q
    <3> SUFFICES ASSUME NEW q \in listed PROVE members'[q][1] = q
      OBVIOUS
    <3>1. q \in Connection /\ members[q][1] = q
      BY DEF RelayInv, RelayTypeOK, RoomsHaveTheirCreator
    <3>2. ~(q = r /\ 1 = FreeId(r))
      BY <1>1, <3>1, Constants
    <3> QED BY <1>8, <3>1, <3>2, Constants
  <2> QED BY <2>1, <2>2 DEF RoomsHaveTheirCreator
<1>13. StreamsJoinMembers'
  <2> SUFFICES ASSUME NEW q \in Connection, NEW s \in StreamId, streams[q][s] # NoPair
               PROVE  /\ streams[q][s].a # streams[q][s].b
                      /\ members'[q][streams[q][s].a] # NONE
                      /\ members'[q][streams[q][s].b] # NONE
    BY DEF StreamsJoinMembers
  <2>1. streams[q][s] \in Pair
    BY DEF RelayInv, RelayTypeOK
  <2>2. streams[q][s].a \in Member /\ streams[q][s].b \in Member
    BY <2>1 DEF Pair
  <2>3. /\ streams[q][s].a # streams[q][s].b
        /\ members[q][streams[q][s].a] # NONE
        /\ members[q][streams[q][s].b] # NONE
    BY DEF RelayInv, StreamsJoinMembers
  <2>4. \A i \in Member : members[q][i] # NONE => members'[q][i] # NONE
    BY <1>1, <1>8, Constants
  <2> QED BY <2>2, <2>3, <2>4
<1>14. FramesStayInTheRoom'
  <2>1. \A x \in Connection : room[x] # NONE => room'[x] = room[x]
    BY <1>8
  <2>2. RelayTypeOK /\ FramesStayInTheRoom
    BY DEF RelayInv
  <2> QED BY <1>3, <1>5, <2>1, <2>2, WelcomesStay
<1>15. ConnectionsAreCounted'
  BY <1>6, CountsStay DEF RelayInv
<1> QED BY <1>9, <1>10, <1>11, <1>12, <1>13, <1>14, <1>15 DEF RelayInv

LEMMA CreateRoomKeeps ==
  ASSUME RelayInv, NEW c \in Connection, Present(c), room[c] = NONE, NEW f \in UpFrame,
         f.kind = "HELLO", CreateRoom(c, f), UNCHANGED <<connectionsByIp, shuttingDown, hungUp>>
  PROVE  RelayInv'
<1>1. PICK code \in NewCodes(f.code) : /\ rooms' = [rooms EXCEPT ![code] = c]
                                       /\ codeOf' = [codeOf EXCEPT ![c] = code]
                                       /\ Join(c, c, code)
  BY DEF CreateRoom
<1>2. code \in Code /\ rooms[code] = NONE
  BY FrameFields DEF NewCodes, OpenRooms
<1>3. codeOf[c] = NONE /\ c \notin closed
  BY Constants DEF RelayInv, HandlersAgree
<1>4. \A i \in Member : members[c][i] = NONE
  <2> SUFFICES ASSUME NEW i \in Member, members[c][i] # NONE PROVE FALSE
    OBVIOUS
  <2>1. members[c][i] \in Connection /\ room[members[c][i]] = c
    BY DEF RelayInv, RelayTypeOK, MembersAreThere
  <2>2. codeOf[c] # NONE
    BY <2>1, Constants DEF RelayInv, HandlersAgree
  <2> QED BY <1>3, <2>2
<1>5. FreeIds(c) # {} /\ FreeId(c) = 1
  BY <1>4, Constants, FreeIdIsFree DEF FreeIds, RelayInv
<1>6. /\ rooms' \in [Code -> Connection \cup {NONE}]
      /\ codeOf' \in [Connection -> Code \cup {NONE}]
      /\ codeOf'[c] = code
      /\ \A d \in Connection : d # c => codeOf'[d] = codeOf[d]
  BY <1>1, <1>2 DEF RelayInv, RelayTypeOK
<1>7. members'[c][1] = c /\ \A d \in Connection : d # c => members'[d][1] = members[d][1]
  BY <1>1, <1>5, Constants DEF Join, RelayInv, RelayTypeOK
<1>8. \A k \in Code, d \in Connection :
        rooms'[k] = d <=> (codeOf'[d] = k /\ members'[d][1] = d)
  <2> SUFFICES ASSUME NEW k \in Code, NEW d \in Connection
               PROVE  rooms'[k] = d <=> (codeOf'[d] = k /\ members'[d][1] = d)
    OBVIOUS
  <2>1. rooms[k] = d <=> (codeOf[d] = k /\ members[d][1] = d)
    BY DEF RelayInv, RoomsHaveTheirCreator
  <2>2. rooms'[k] = IF k = code THEN c ELSE rooms[k]
    BY <1>1, <1>2 DEF RelayInv, RelayTypeOK
  <2>3. CASE d = c
    BY <1>3, <1>6, <1>7, <2>1, <2>2, <2>3, Constants
  <2>4. CASE d # c
    BY <1>2, <1>6, <1>7, <2>1, <2>2, <2>4, Constants
  <2> QED BY <2>3, <2>4
<1>9. UNCHANGED <<closed, streams, listed>> /\ codeOf'[c] # NONE
  BY <1>2, <1>6, Constants DEF CreateRoom
<1>10. \A d \in Connection : codeOf'[d] = codeOf[d] \/ (d = c /\ c = c)
  BY <1>6
<1> QED BY <1>1, <1>3, <1>5, <1>6, <1>8, <1>9, <1>10, JoinKeeps

LEMMA JoinRoomKeeps ==
  ASSUME RelayInv, NEW c \in Connection, Present(c), room[c] = NONE, NEW f \in UpFrame,
         f.kind = "HELLO", JoinRoom(c, f), UNCHANGED <<connectionsByIp, shuttingDown, hungUp>>
  PROVE  RelayInv'
<1> DEFINE r == rooms[f.code]
<1>1. /\ f.code \in Code /\ r # NONE /\ r \notin closed /\ FreeIds(r) # {} /\ Join(c, r, f.code)
      /\ UNCHANGED <<rooms, codeOf, closed, streams, listed>>
  BY DEF JoinRoom, OpenRooms
<1>2. r \in Connection /\ codeOf[r] = f.code /\ members[r][1] = r
  BY <1>1 DEF RelayInv, RelayTypeOK, RoomsHaveTheirCreator
<1>3. codeOf[r] # NONE /\ r # c
  BY <1>1, <1>2, Constants DEF RelayInv, HandlersAgree
<1>4. FreeId(r) # 1 /\ FreeId(r) \in Member
  <2> HIDE DEF r
  <2> QED BY <1>1, <1>2, Constants, FreeIdIsFree DEF RelayInv
<1>5. \A d \in Connection : members'[d][1] = members[d][1]
  <2> HIDE DEF r
  <2> QED BY <1>1, <1>2, <1>4, Constants DEF Join, RelayInv, RelayTypeOK
<1>6. \A k \in Code, d \in Connection :
        rooms'[k] = d <=> (codeOf'[d] = k /\ members'[d][1] = d)
  BY <1>1, <1>5 DEF RelayInv, RoomsHaveTheirCreator
<1>7. /\ rooms' \in [Code -> Connection \cup {NONE}] /\ codeOf' \in [Connection -> Code \cup {NONE}]
      /\ codeOf'[r] # NONE /\ \A d \in Connection : codeOf'[d] = codeOf[d] \/ (d = c /\ r = c)
  BY <1>1, <1>3 DEF RelayInv, RelayTypeOK
<1> HIDE DEF r
<1> QED BY <1>1, <1>2, <1>3, <1>4, <1>6, <1>7, JoinKeeps

LEMMA TurnAwayKeeps ==
  ASSUME RelayInv, NEW c \in Connection, NEW f \in UpFrame, TurnAway(c, f),
         UNCHANGED <<connectionsByIp, shuttingDown, hungUp>>
  PROVE  RelayInv'
<1>1. \E code \in Nat : SendError(c, code)
  BY DEF TurnAway
<1> QED BY <1>1, ErrorKeeps DEF TurnAway
-----------------------------------------------------------------------------
(* Connections come and go.                                                 *)

LEMMA UpgradeKeeps ==
  ASSUME RelayInv, NEW c \in Connection, Upgrade(c)
  PROVE  RelayInv'
<1>1. /\ socket[c] = "none" /\ socket' = [socket EXCEPT ![c] = "open"]
      /\ connectionsByIp' = [connectionsByIp EXCEPT ![AddressOf[c]] = @ + 1]
      /\ UNCHANGED <<roomVars, streams, listed, shuttingDown, down, hungUp>>
  BY DEF Upgrade
<1>2. /\ socket'[c] = "open" /\ \A x \in Connection : x # c => socket'[x] = socket[x]
      /\ socket' \in [Connection -> {"none", "open", "closing", "closed"}]
  BY <1>1 DEF RelayInv, RelayTypeOK
<1>3. /\ ~Present(c) /\ Present(c)' /\ room[c] = NONE
      /\ \A x \in Connection : x # c => (Present(x)' <=> Present(x))
  BY <1>1, <1>2 DEF Present, RelayInv, HandlersAgree
<1>4. ConnectionsAreCounted' /\ connectionsByIp' \in [Address -> Nat]
  BY <1>1, <1>3, CountUp DEF RelayInv
<1>5. RelayTypeOK'
  BY <1>1, <1>2, <1>4 DEF RelayInv, RelayTypeOK, roomVars
<1>6. HandlersAgree'
  <2>1. \A x \in Connection : socket'[x] = "none" => socket[x] = "none"
    BY <1>2
  <2> QED BY <1>1, <2>1 DEF RelayInv, HandlersAgree, roomVars
<1>7. MembersAreThere'
  <2>1. \A r \in Connection, i \in Member : members[r][i] # NONE =>
          /\ members[r][i] \in Connection /\ Present(members[r][i])
          /\ room[members[r][i]] = r /\ myId[members[r][i]] = i
    BY DEF RelayInv, RelayTypeOK, MembersAreThere
  <2>2. \A x \in Connection : Present(x) => Present(x)'
    BY <1>3
  <2>3. \A x \in Connection : Present(x)' /\ room[x] # NONE =>
          myId[x] \in Member /\ members[room[x]][myId[x]] = x
    BY <1>3 DEF RelayInv, MembersAreThere
  <2> QED BY <1>1, <2>1, <2>2, <2>3 DEF MembersAreThere, roomVars
<1>8. RoomsHaveTheirCreator' /\ StreamsJoinMembers' /\ FramesStayInTheRoom'
  BY <1>1 DEF RelayInv, RoomsHaveTheirCreator, StreamsJoinMembers, FramesStayInTheRoom, roomVars
<1> QED BY <1>4, <1>5, <1>6, <1>7, <1>8 DEF RelayInv

\* The close event of somebody who is in no room.
LEMMA StrangerClosesKeeps ==
  ASSUME RelayInv, NEW c \in Connection, room[c] = NONE, SocketCloses(c)
  PROVE  RelayInv'
<1>1. /\ Present(c) /\ socket' = [socket EXCEPT ![c] = "closed"]
      /\ connectionsByIp' = Uncounted(c)
      /\ UNCHANGED <<down, roomVars, streams, listed, shuttingDown, hungUp>>
  BY DEF SocketCloses, Present
<1>2. /\ socket'[c] = "closed" /\ \A x \in Connection : x # c => socket'[x] = socket[x]
      /\ socket' \in [Connection -> {"none", "open", "closing", "closed"}]
  BY <1>1 DEF RelayInv, RelayTypeOK
<1>3. ~(Present(c)') /\ \A x \in Connection : x # c => (Present(x)' <=> Present(x))
  BY <1>2 DEF Present
<1>4. ConnectionsAreCounted' /\ connectionsByIp' \in [Address -> Nat]
  BY <1>1, <1>3, CountDown DEF RelayInv
<1>5. RelayTypeOK'
  BY <1>1, <1>2, <1>4 DEF RelayInv, RelayTypeOK, roomVars
<1>6. HandlersAgree'
  <2>1. \A x \in Connection : socket'[x] = "none" => socket[x] = "none"
    BY <1>2
  <2> QED BY <1>1, <2>1 DEF RelayInv, HandlersAgree, roomVars
<1>7. MembersAreThere'
  <2>1. \A r \in Connection, i \in Member : members[r][i] # NONE =>
          /\ members[r][i] \in Connection /\ Present(members[r][i])
          /\ room[members[r][i]] = r /\ myId[members[r][i]] = i
    BY DEF RelayInv, RelayTypeOK, MembersAreThere
  <2>2. \A r \in Connection, i \in Member : members[r][i] # NONE => members[r][i] # c
    BY <2>1, Constants
  <2>3. \A x \in Connection : Present(x)' /\ room[x] # NONE =>
          myId[x] \in Member /\ members[room[x]][myId[x]] = x
    BY <1>3 DEF RelayInv, MembersAreThere
  <2> QED BY <1>1, <1>3, <2>1, <2>2, <2>3 DEF MembersAreThere, roomVars
<1>8. RoomsHaveTheirCreator' /\ StreamsJoinMembers' /\ FramesStayInTheRoom'
  BY <1>1 DEF RelayInv, RoomsHaveTheirCreator, StreamsJoinMembers, FramesStayInTheRoom, roomVars
<1> QED BY <1>4, <1>5, <1>6, <1>7, <1>8 DEF RelayInv

\* cleanup's news to the others, whom the creator's leaving may cost the connection.
LEMMA Farewell ==
  ASSUME RelayInv, NEW c \in Connection, NEW out \in DownFrame, NEW thrown,
         NEW gone, \A x \in DOMAIN gone : gone[x] = out,
         down' = DownAfter(gone), socket' = [SocketsAfter(gone, thrown) EXCEPT ![c] = "closed"]
  PROVE  /\ down' \in [Connection -> Seq(DownFrame)]
         /\ socket' \in [Connection -> {"none", "open", "closing", "closed"}]
         /\ socket'[c] = "closed"
         /\ \A x \in Connection : x # c =>
              socket'[x] = socket[x] \/ (Present(x) /\ socket'[x] = "closing")
         /\ \A x \in Connection : Grown(x, gone)
<1>1. \A x \in Connection : Grown(x, gone) /\ down'[x] \in Seq(DownFrame)
  BY DEF DownAfter, Grown, RelayInv, RelayTypeOK
<1>2. down' \in [Connection -> Seq(DownFrame)]
  BY <1>1 DEF DownAfter
<1>3. /\ SocketsAfter(gone, thrown) \in [Connection -> {"none", "open", "closing", "closed"}]
      /\ \A x \in Connection : \/ SocketsAfter(gone, thrown)[x] = socket[x]
                               \/ Present(x) /\ SocketsAfter(gone, thrown)[x] = "closing"
  BY DEF SocketsAfter, RelayInv, RelayTypeOK, Present
<1> QED BY <1>1, <1>2, <1>3

\* The close event of a member.
LEMMA MemberClosesKeeps ==
  ASSUME RelayInv, NEW c \in Connection, room[c] # NONE, SocketCloses(c)
  PROVE  RelayInv'
<1> DEFINE r    == room[c]
           i    == myId[c]
           out  == ToClient("PEER_LEFT", i, 0, NONE, NONE)
           gone == [x \in MembersOf(r) \ {c} |-> out]
<1>1. Present(c)
  BY DEF SocketCloses, Present
<1>2. r \in Connection /\ i \in Member /\ members[r][i] = c
  BY <1>1, MembersFound
<1>3. /\ connectionsByIp' = Uncounted(c)
      /\ members' = MembersWithout(r, i)
      /\ streams' = [streams EXCEPT ![r] = StreamsWithout(r, i)]
      /\ rooms' = RoomsWithout(c)
      /\ UNCHANGED <<room, myId, codeOf, shuttingDown, hungUp>>
  BY DEF SocketCloses
<1>4. \/ /\ r \in closed
         /\ socket' = [socket EXCEPT ![c] = "closed"]
         /\ UNCHANGED <<down, closed, listed>>
      \/ /\ r \notin closed
         /\ down' = DownAfter(gone)
         /\ socket' = [SocketsAfter(gone, ThrownOut(c)) EXCEPT ![c] = "closed"]
         /\ closed' = IF i = 1 THEN closed \cup {r} ELSE closed
         /\ listed' = IF i = 1 THEN listed \ {r} ELSE listed
  BY DEF SocketCloses
<1>5. /\ i = 1 <=> r = c
      /\ i = 1 => r \notin closed
      /\ codeOf[r] # NONE
  BY <1>2, Constants DEF RelayInv, HandlersAgree, RoomsHaveTheirCreator
<1>6. /\ socket' \in [Connection -> {"none", "open", "closing", "closed"}]
      /\ socket'[c] = "closed"
      /\ \A x \in Connection : x # c =>
           socket'[x] = socket[x] \/ (Present(x) /\ socket'[x] = "closing")
      /\ down' \in [Connection -> Seq(DownFrame)]
      /\ FramesStayInTheRoom'
  <2>1. CASE r \in closed
    <3>1. down' = down /\ socket' = [socket EXCEPT ![c] = "closed"]
      BY <1>4, <2>1
    <3> QED BY <1>3, <3>1 DEF RelayInv, RelayTypeOK, FramesStayInTheRoom
  <2>2. CASE r \notin closed
    <3>1. down' = DownAfter(gone) /\ socket' = [SocketsAfter(gone, ThrownOut(c)) EXCEPT ![c] = "closed"]
      BY <1>4, <2>2
    <3>2. out \in DownFrame /\ out.from = NONE
      BY <1>2, Constants DEF ToClient, DownFrame
    <3> DEFINE g == gone
    <3>3. \A x \in DOMAIN g : g[x] = out
      OBVIOUS
    <3>6. down' = DownAfter(g) /\ socket' = [SocketsAfter(g, ThrownOut(c)) EXCEPT ![c] = "closed"]
      BY <3>1
    <3> HIDE DEF out, g
    <3>4. /\ down' \in [Connection -> Seq(DownFrame)]
          /\ socket' \in [Connection -> {"none", "open", "closing", "closed"}]
          /\ socket'[c] = "closed"
          /\ \A x \in Connection : x # c =>
               socket'[x] = socket[x] \/ (Present(x) /\ socket'[x] = "closing")
          /\ \A x \in Connection : Grown(x, g)
      BY <1>2, <3>2, <3>3, <3>6, Farewell
    <3>5. FramesStayInTheRoom'
      BY <1>3, <3>2, <3>3, <3>4, GrownFramesStay DEF RelayInv
    <3> QED BY <3>4, <3>5
  <2> QED BY <2>1, <2>2
<1>7. ~(Present(c)') /\ \A x \in Connection : x # c => (Present(x)' <=> Present(x))
  BY <1>6 DEF Present
<1>8. ConnectionsAreCounted' /\ connectionsByIp' \in [Address -> Nat]
  BY <1>1, <1>3, <1>7, CountDown DEF RelayInv
<1>9. /\ members \in [Connection -> [Member -> Connection \cup {NONE}]]
      /\ streams \in [Connection -> [StreamId -> Pair \cup {NoPair}]]
      /\ codeOf \in [Connection -> Code \cup {NONE}]
      /\ rooms \in [Code -> Connection \cup {NONE}]
  BY DEF RelayInv, RelayTypeOK
<1>10. /\ members' \in [Connection -> [Member -> Connection \cup {NONE}]]
       /\ members'[r][i] = NONE
       /\ \A q \in Connection, j \in Member :
            ~(q = r /\ j = i) => members'[q][j] = members[q][j]
  BY <1>2, <1>3, <1>9 DEF MembersWithout
<1>11. /\ streams' \in [Connection -> [StreamId -> Pair \cup {NoPair}]]
       /\ \A q \in Connection, s \in StreamId : streams'[q][s] # NoPair =>
            /\ streams'[q][s] = streams[q][s]
            /\ q = r => streams[q][s].a # i /\ streams[q][s].b # i
  <2>1. StreamsWithout(r, i) \in [StreamId -> Pair \cup {NoPair}]
    BY <1>2, <1>9 DEF StreamsWithout
  <2>2. \A s \in StreamId : StreamsWithout(r, i)[s] # NoPair =>
          StreamsWithout(r, i)[s] = streams[r][s] /\ streams[r][s].a # i /\ streams[r][s].b # i
    BY DEF StreamsWithout
  <2> HIDE DEF r, i
  <2> QED BY <1>2, <1>3, <1>9, <2>1, <2>2
<1>12. /\ rooms' \in [Code -> Connection \cup {NONE}]
       /\ \A k \in Code : rooms'[k] = IF i = 1 /\ k = codeOf[r] THEN NONE ELSE rooms[k]
  BY <1>3, <1>9 DEF RoomsWithout
<1>13. /\ closed' \subseteq Connection /\ listed' \subseteq listed
       /\ closed \subseteq closed' /\ closed' \subseteq closed \cup {r}
       /\ i # 1 => closed' = closed
       /\ i = 1 => r \in closed' /\ r \notin listed'
  <2>1. closed \subseteq Connection
    BY DEF RelayInv, RelayTypeOK
  <2> HIDE DEF r, i, gone
  <2> QED BY <1>2, <1>4, <1>5, <2>1
<1> HIDE DEF r, i, gone
<1>14. RelayTypeOK'
  BY <1>3, <1>6, <1>8, <1>10, <1>11, <1>12, <1>13 DEF RelayInv, RelayTypeOK
<1>15. HandlersAgree'
  <2>1. \A x \in Connection : socket'[x] = "none" => socket[x] = "none"
    BY <1>6
  <2>2. \A q \in closed' : codeOf[q] # NONE
    BY <1>5, <1>13 DEF RelayInv, HandlersAgree
  <2>3. \A q \in Connection : codeOf[q] # NONE /\ q \notin closed' => members'[q][1] = q
    BY <1>10, <1>13, Constants DEF RelayInv, HandlersAgree
  <2> QED BY <1>3, <2>1, <2>2, <2>3 DEF RelayInv, HandlersAgree
<1>16. MembersAreThere'
  <2>1. ASSUME NEW q \in Connection, NEW j \in Member, members'[q][j] # NONE
        PROVE  /\ socket'[members'[q][j]] \in {"open", "closing"}
               /\ room[members'[q][j]] = q /\ myId[members'[q][j]] = j
    <3>1. ~(q = r /\ j = i) /\ members'[q][j] = members[q][j] /\ members[q][j] \in Connection
      BY <1>9, <1>10, <2>1
    <3>2. Present(members[q][j]) /\ room[members[q][j]] = q /\ myId[members[q][j]] = j
      BY <2>1, <3>1 DEF RelayInv, MembersAreThere
    <3>3. members[q][j] # c
      BY <3>1, <3>2 DEF r, i
    <3>4. socket'[members[q][j]] \in {"open", "closing"}
      BY <1>6, <3>1, <3>2, <3>3 DEF Present
    <3> QED BY <3>1, <3>2, <3>4
  <2>2. ASSUME NEW d \in Connection, Present(d)', room[d] # NONE
        PROVE  myId[d] \in Member /\ members'[room[d]][myId[d]] = d
    <3>1. d # c /\ Present(d)
      BY <1>7, <2>2
    <3>2. room[d] \in Connection /\ myId[d] \in Member /\ members[room[d]][myId[d]] = d
      BY <2>2, <3>1, MembersFound
    <3>3. ~(room[d] = r /\ myId[d] = i)
      BY <1>2, <3>1, <3>2
    <3> QED BY <1>10, <3>2, <3>3
  <2> QED BY <1>3, <2>1, <2>2 DEF MembersAreThere, Present
<1>17. RoomsHaveTheirCreator'
  <2>1. ASSUME NEW k \in Code, NEW q \in Connection
        PROVE  rooms'[k] = q <=> (codeOf[q] = k /\ members'[q][1] = q)
    <3>0. /\ rooms[k] = q <=> (codeOf[q] = k /\ members[q][1] = q)
          /\ rooms[k] = r <=> (codeOf[r] = k /\ members[r][1] = r)
      BY <1>2 DEF RelayInv, RoomsHaveTheirCreator
    <3>5. i = 1 => members[r][1] = r
      BY <1>2, <1>5
    <3>1. /\ rooms[k] = q <=> (codeOf[q] = k /\ members[q][1] = q)
          /\ codeOf[r] = k /\ i = 1 => rooms[k] = r
      BY <3>0, <3>5
    <3>2. CASE i = 1 /\ q = r
      <4>1. members'[q][1] = NONE /\ q # NONE
        BY <1>2, <1>10, <3>2, Constants
      <4>2. rooms'[k] # q
        BY <1>12, <3>1, <3>2, <4>1
      <4> QED BY <4>1, <4>2
    <3>4. CASE i = 1 /\ q # r
      <4>1. members'[q][1] = members[q][1]
        BY <1>10, <3>4, Constants
      <4>2. rooms'[k] = q <=> rooms[k] = q
        BY <1>12, <3>1, <3>4, Constants
      <4> QED BY <3>1, <4>1, <4>2
    <3>3. CASE i # 1
      BY <1>10, <1>12, <3>1, <3>3, Constants
    <3> QED BY <3>2, <3>3, <3>4
  <2>2. \A q \in Connection : q \in closed' => members'[q][1] = NONE
    BY <1>10, <1>13, Constants DEF RelayInv, RoomsHaveTheirCreator
  <2>3. \A q \in listed' : members'[q][1] = q
    <3> SUFFICES ASSUME NEW q \in listed' PROVE members'[q][1] = q
      OBVIOUS
    <3>1. q \in Connection /\ members[q][1] = q
      BY <1>13 DEF RelayInv, RelayTypeOK, RoomsHaveTheirCreator
    <3> QED BY <1>10, <1>13, <3>1, Constants
  <2> QED BY <1>3, <2>1, <2>2, <2>3 DEF RoomsHaveTheirCreator
<1>18. StreamsJoinMembers'
  <2> SUFFICES ASSUME NEW q \in Connection, NEW s \in StreamId, streams'[q][s] # NoPair
               PROVE  /\ streams'[q][s].a # streams'[q][s].b
                      /\ members'[q][streams'[q][s].a] # NONE
                      /\ members'[q][streams'[q][s].b] # NONE
    BY DEF StreamsJoinMembers
  <2>1. streams'[q][s] = streams[q][s] /\ (q = r => streams[q][s].a # i /\ streams[q][s].b # i)
    BY <1>11
  <2>2. streams[q][s] \in Pair
    BY <1>9, <2>1
  <2>3. streams[q][s].a \in Member /\ streams[q][s].b \in Member
    BY <2>2 DEF Pair
  <2>4. /\ streams[q][s].a # streams[q][s].b
        /\ members[q][streams[q][s].a] # NONE /\ members[q][streams[q][s].b] # NONE
    BY <2>1 DEF RelayInv, StreamsJoinMembers
  <2> QED BY <1>10, <2>1, <2>3, <2>4
<1> QED BY <1>6, <1>8, <1>14, <1>15, <1>16, <1>17, <1>18 DEF RelayInv
-----------------------------------------------------------------------------
(* The whole relay.                                                         *)

LEMMA InitKeeps == RelayInit => RelayInv
<1> SUFFICES ASSUME RelayInit PROVE RelayInv
  OBVIOUS
<1> USE DEF RelayInit
<1>1. RelayTypeOK
  <2>1. /\ members \in [Connection -> [Member -> Connection \cup {NONE}]]
        /\ streams \in [Connection -> [StreamId -> Pair \cup {NoPair}]]
    OBVIOUS
  <2>2. /\ down \in [Connection -> Seq(DownFrame)]
        /\ connectionsByIp \in [Address -> Nat]
    OBVIOUS
  <2> QED BY <2>1, <2>2 DEF RelayTypeOK
<1>2. HandlersAgree
  BY Constants DEF HandlersAgree
<1>3. MembersAreThere /\ StreamsJoinMembers /\ FramesStayInTheRoom
  BY Constants DEF MembersAreThere, StreamsJoinMembers, FramesStayInTheRoom, Present
<1>4. RoomsHaveTheirCreator
  BY Constants DEF RoomsHaveTheirCreator
<1>5. ConnectionsAreCounted
  <2>1. Clients = {}
    BY DEF Clients, Present
  <2>2. \A ip \in Address : {c \in Clients : AddressOf[c] = ip} = {}
    BY <2>1
  <2> QED BY <2>2, FS_EmptySet DEF ConnectionsAreCounted
<1> QED BY <1>1, <1>2, <1>3, <1>4, <1>5 DEF RelayInv

LEMMA ReceiveKeeps ==
  ASSUME RelayInv, NEW c \in Connection, NEW f \in UpFrame, Receive(c, f)
  PROVE  RelayInv'
<1>1. Present(c) /\ UNCHANGED <<connectionsByIp, shuttingDown, hungUp>>
  BY DEF Receive
<1>2. CASE BadFrame(c)
  BY <1>1, <1>2, ErrorKeeps DEF BadFrame
<1>3. CASE Acceptable(c, f) /\ f.kind = "HELLO" /\ Hello(c, f)
  <2>1. room[c] = NONE
    BY <1>3 DEF Acceptable
  <2> QED BY <1>1, <1>3, <2>1, CreateRoomKeeps, JoinRoomKeeps, TurnAwayKeeps DEF Hello
<1>4. CASE Acceptable(c, f) /\ f.kind = "DGRAM" /\ Dgram(c, f)
  <2>1. room[c] # NONE
    BY <1>4 DEF Acceptable
  <2> QED BY <1>1, <1>4, <2>1, DgramKeeps
<1>5. CASE Acceptable(c, f) /\ f.kind = "OPEN" /\ OpenStream(c, f)
  <2>1. room[c] # NONE
    BY <1>5 DEF Acceptable
  <2> QED BY <1>1, <1>5, <2>1, OpenStreamKeeps
<1>6. CASE Acceptable(c, f) /\ f.kind \in {"DATA", "CLOSE"} /\ StreamFrame(c, f)
  <2>1. room[c] # NONE
    BY <1>6 DEF Acceptable
  <2> QED BY <1>1, <1>6, <2>1, StreamFrameKeeps
<1>7. CASE Acceptable(c, f) /\ f.kind \in {"PUBLISH", "UNLIST"} /\ Publish(c, f)
  <2>1. room[c] # NONE /\ myId[c] = 1
    BY <1>7 DEF Acceptable
  <2>2. room[c] \in Connection /\ members[room[c]][1] = c /\ room[c] = c
    BY <1>1, <2>1, MembersFound DEF RelayInv, HandlersAgree
  <2>3. /\ listed' \subseteq listed \cup {room[c]}
        /\ UNCHANGED <<socket, down, roomVars, streams>>
    BY <1>7 DEF Publish
  <2>4. listed' \subseteq Connection /\ \A r \in listed' : members[r][1] = r
    BY <2>2, <2>3 DEF RelayInv, RelayTypeOK, RoomsHaveTheirCreator
  <2>5. FramesStayInTheRoom' /\ StreamsJoinMembers'
    BY <2>3 DEF RelayInv, FramesStayInTheRoom, StreamsJoinMembers, roomVars
  <2>6. shuttingDown \in BOOLEAN /\ hungUp \subseteq Connection
        /\ down \in [Connection -> Seq(DownFrame)]
        /\ socket \in [Connection -> {"none", "open", "closing", "closed"}]
        /\ streams \in [Connection -> [StreamId -> Pair \cup {NoPair}]]
    BY DEF RelayInv, RelayTypeOK
  <2> QED BY <1>1, <2>3, <2>4, <2>5, <2>6, RoomsAlone
<1> QED BY <1>2, <1>3, <1>4, <1>5, <1>6, <1>7 DEF Receive

\* TakeFrame and HangUp: only what is on its way gets less.
LEMMA WireKeeps ==
  ASSUME RelayInv, NEW c \in Connection, TakeFrame(c) \/ HangUp(c)
  PROVE  RelayInv'
<1>1. /\ UNCHANGED <<socket, roomVars, streams, listed, connectionsByIp, shuttingDown>>
      /\ hungUp' \subseteq Connection
  BY DEF TakeFrame, HangUp, RelayInv, RelayTypeOK
<1>2. /\ down \in [Connection -> Seq(DownFrame)]
      /\ shuttingDown \in BOOLEAN
      /\ socket \in [Connection -> {"none", "open", "closing", "closed"}]
      /\ streams \in [Connection -> [StreamId -> Pair \cup {NoPair}]]
      /\ listed \subseteq Connection
  BY DEF RelayInv, RelayTypeOK
<1>3. /\ down' \in [Connection -> Seq(DownFrame)]
      /\ \A x \in Connection : \A k \in DOMAIN down'[x] : \E j \in DOMAIN down[x] : down'[x][k] = down[x][j]
  <2>1. CASE TakeFrame(c)
    <3>1. down[c] # <<>> /\ down' = [down EXCEPT ![c] = Tail(@)] /\ down[c] \in Seq(DownFrame)
      BY <1>2, <2>1 DEF TakeFrame
    <3>2. /\ Tail(down[c]) \in Seq(DownFrame)
          /\ \A k \in DOMAIN Tail(down[c]) : k + 1 \in DOMAIN down[c] /\ Tail(down[c])[k] = down[c][k + 1]
      BY <3>1
    <3> QED BY <1>2, <3>1, <3>2
  <2>2. CASE HangUp(c)
    <3>1. down' = [down EXCEPT ![c] = <<>>] /\ DOMAIN <<>> = {} /\ <<>> \in Seq(DownFrame)
      BY <2>2 DEF HangUp
    <3> QED BY <1>2, <3>1
  <2> QED BY <2>1, <2>2
<1>4. FramesStayInTheRoom'
  <2> SUFFICES ASSUME NEW x \in Connection, NEW k \in DOMAIN down'[x], down'[x][k].from # NONE
               PROVE  room[x] # NONE /\ room[down'[x][k].from] = room[x]
    BY <1>1 DEF FramesStayInTheRoom, roomVars
  <2>1. PICK j \in DOMAIN down[x] : down'[x][k] = down[x][j]
    BY <1>3
  <2> QED BY <2>1 DEF RelayInv, FramesStayInTheRoom
<1>5. StreamsJoinMembers' /\ \A r \in listed' : members[r][1] = r
  BY <1>1 DEF RelayInv, StreamsJoinMembers, RoomsHaveTheirCreator, roomVars
<1> QED BY <1>1, <1>2, <1>3, <1>4, <1>5, RoomsAlone

LEMMA StepKeeps == RelayInv /\ [RelayNext]_relayVars => RelayInv'
<1> SUFFICES ASSUME RelayInv, [RelayNext]_relayVars PROVE RelayInv'
  OBVIOUS
<1>0. shuttingDown \in BOOLEAN
  BY DEF RelayInv, RelayTypeOK
<1>1. ASSUME NEW c \in Connection, Upgrade(c) PROVE RelayInv'
  BY <1>1, UpgradeKeeps
<1>2. ASSUME NEW c \in Connection, HelloTimeout(c) \/ Throttle(c) \/ HeartbeatTimeout(c)
      PROVE  RelayInv'
  BY <1>0, <1>2, OnlyCloses DEF HelloTimeout, Throttle, HeartbeatTimeout
<1>3. ASSUME NEW c \in Connection, SocketCloses(c) PROVE RelayInv'
  BY <1>3, StrangerClosesKeeps, MemberClosesKeeps
<1>4. ASSUME NEW c \in Connection, TakeFrame(c) \/ HangUp(c) PROVE RelayInv'
  BY <1>4, WireKeeps
<1>5. ASSUME NEW c \in Connection, NEW f \in UpFrame, Receive(c, f) PROVE RelayInv'
  BY <1>5, ReceiveKeeps
<1>6. CASE Shutdown
  <2>1. shuttingDown' \in BOOLEAN
    BY <1>6 DEF Shutdown
  <2> QED BY <1>6, <2>1, OnlyCloses DEF Shutdown
<1>7. CASE UNCHANGED relayVars
  BY <1>7 DEF relayVars, roomVars, RelayInv, RelayTypeOK, HandlersAgree, MembersAreThere, Present,
              RoomsHaveTheirCreator, StreamsJoinMembers, FramesStayInTheRoom,
              ConnectionsAreCounted, Clients
<1> QED BY <1>1, <1>2, <1>3, <1>4, <1>5, <1>6, <1>7 DEF RelayNext

\* The server's handlers, rooms, streams, frames and counts always agree, whatever its clients send and
\* whoever is cut off when.
THEOREM RelayAgrees == RelaySpec => []RelayInv
<1>1. RelayInit => RelayInv
  BY InitKeeps
<1>2. RelayInv /\ [RelayNext]_relayVars => RelayInv'
  BY StepKeeps
<1> QED BY <1>1, <1>2, PTL DEF RelaySpec

\* The members of a room are the connections whose handlers say so, closing ones included.
THEOREM MembersAlwaysThere == RelaySpec => []MembersAreThere
<1>1. RelayInv => MembersAreThere
  BY DEF RelayInv
<1> QED BY <1>1, RelayAgrees, PTL

\* A room code leads to its creator's room as long as he is in it.
THEOREM RoomsAlwaysHaveTheirCreator == RelaySpec => []RoomsHaveTheirCreator
<1>1. RelayInv => RoomsHaveTheirCreator
  BY DEF RelayInv
<1> QED BY <1>1, RelayAgrees, PTL

\* No stream outlives one of its ends.
THEOREM StreamsAlwaysJoinMembers == RelaySpec => []StreamsJoinMembers
<1>1. RelayInv => StreamsJoinMembers
  BY DEF RelayInv
<1> QED BY <1>1, RelayAgrees, PTL

\* Nothing is forwarded out of a room.
THEOREM FramesAlwaysStayInTheRoom == RelaySpec => []FramesStayInTheRoom
<1>1. RelayInv => FramesStayInTheRoom
  BY DEF RelayInv
<1> QED BY <1>1, RelayAgrees, PTL

\* The count of connections of each address is right.
THEOREM ConnectionsAlwaysCounted == RelaySpec => []ConnectionsAreCounted
<1>1. RelayInv => ConnectionsAreCounted
  BY DEF RelayInv
<1> QED BY <1>1, RelayAgrees, PTL

-----------------------------------------------------------------------------
(* Wires.                                                                    *)

\* A frame that is sent.
LEMMA Appended ==
  ASSUME NEW T, NEW wire \in Seq(T), NEW f
  PROVE  /\ DOMAIN Append(wire, f) = DOMAIN wire \cup {Len(wire) + 1}
         /\ Len(wire) + 1 \notin DOMAIN wire
         /\ \A k \in DOMAIN wire : Append(wire, f)[k] = wire[k]
         /\ Append(wire, f)[Len(wire) + 1] = f
OBVIOUS

\* A frame that is taken.
LEMMA Taken ==
  ASSUME NEW T, NEW wire \in Seq(T), wire # << >>
  PROVE  /\ Tail(wire) \in Seq(T) /\ Len(Tail(wire)) = Len(wire) - 1
         /\ 1 \in DOMAIN wire /\ Head(wire) = wire[1]
         /\ \A k \in DOMAIN Tail(wire) : k \in Nat \ {0} /\ k + 1 \in DOMAIN wire /\ Tail(wire)[k] = wire[k + 1]
         /\ \A k \in DOMAIN wire : k \in Nat \ {0} /\ (k # 1 => k - 1 \in DOMAIN Tail(wire) /\ Tail(wire)[k - 1] = wire[k])
OBVIOUS

LEMMA UnderwaySent ==
  ASSUME NEW T, NEW wire \in Seq(T), NEW f, NEW kinds, NEW s
  PROVE  Underway(Append(wire, f), kinds, s) <=> Underway(wire, kinds, s) \/ (f.kind \in kinds /\ f.stream = s)
<1> DEFINE w == Append(wire, f)
           n == Len(wire) + 1
<1>1. /\ DOMAIN w = DOMAIN wire \cup {n}
      /\ \A k \in DOMAIN wire : w[k] = wire[k]
      /\ w[n] = f
  BY Appended
<1> HIDE DEF w, n
<1>2. Underway(w, kinds, s) <=> Underway(wire, kinds, s) \/ (f.kind \in kinds /\ f.stream = s)
  BY <1>1 DEF Underway
<1> QED BY <1>2 DEF w

LEMMA UnderwayTaken ==
  ASSUME NEW T, NEW wire \in Seq(T), wire # << >>, NEW kinds, NEW s
  PROVE  Underway(wire, kinds, s) <=>
           Underway(Tail(wire), kinds, s) \/ (Head(wire).kind \in kinds /\ Head(wire).stream = s)
<1> DEFINE w == Tail(wire)
<1>1. /\ 1 \in DOMAIN wire /\ Head(wire) = wire[1]
      /\ \A k \in DOMAIN w : k \in Nat \ {0} /\ k + 1 \in DOMAIN wire /\ w[k] = wire[k + 1]
      /\ \A k \in DOMAIN wire : k \in Nat \ {0} /\ (k # 1 => k - 1 \in DOMAIN w /\ w[k - 1] = wire[k])
  BY Taken
<1> HIDE DEF w
<1>2. ASSUME Underway(wire, kinds, s) PROVE Underway(w, kinds, s) \/ (Head(wire).kind \in kinds /\ Head(wire).stream = s)
  BY <1>1, <1>2 DEF Underway
<1>3. ASSUME Underway(w, kinds, s) PROVE Underway(wire, kinds, s)
  BY <1>1, <1>3 DEF Underway
<1>4. ASSUME Head(wire).kind \in kinds, Head(wire).stream = s PROVE Underway(wire, kinds, s)
  BY <1>1, <1>4 DEF Underway
<1>5. Underway(wire, kinds, s) <=> Underway(w, kinds, s) \/ (Head(wire).kind \in kinds /\ Head(wire).stream = s)
  BY <1>2, <1>3, <1>4
<1> QED BY <1>5 DEF w

LEMMA NothingUnderway ==
  ASSUME NEW kinds, NEW s
  PROVE  ~Underway(<< >>, kinds, s)
BY DEF Underway

OfStream == {"OPEN", "DATA", "CLOSE"}

IsData(f, s) == f.kind = "DATA" /\ f.stream = s

\* The chunks of a stream of o's that are on the wire are those from low + 1 to high, in order.
Carries(wire, s, o, low, high) ==
  /\ low <= high
  /\ \A k \in DOMAIN wire : IsData(wire[k], s) =>
       wire[k].body = [opener |-> o, n |-> wire[k].body.n] /\ wire[k].body.n \in low + 1 .. high
  /\ \A j, k \in DOMAIN wire : IsData(wire[j], s) /\ IsData(wire[k], s) /\ j < k => wire[j].body.n < wire[k].body.n
  /\ \A n \in low + 1 .. high : \E k \in DOMAIN wire : IsData(wire[k], s) /\ wire[k].body.n = n

LEMMA CarriesSent ==
  ASSUME NEW T, NEW wire \in Seq(T), NEW f, NEW s, NEW o, NEW l, NEW h,
         ~IsData(f, s), Carries(wire, s, o, l, h)
  PROVE  Carries(Append(wire, f), s, o, l, h)
<1> DEFINE w == Append(wire, f)
           n == Len(wire) + 1
<1>1. /\ DOMAIN w = DOMAIN wire \cup {n}
      /\ \A k \in DOMAIN wire : w[k] = wire[k]
      /\ w[n] = f
  BY Appended
<1> HIDE DEF w, n
<1>2. Carries(w, s, o, l, h)
  BY <1>1 DEF Carries
<1> QED BY <1>2 DEF w

LEMMA CarriesMore ==
  ASSUME NEW T, NEW wire \in Seq(T), NEW f, NEW s, NEW o, NEW l \in Nat, NEW h \in Nat,
         IsData(f, s), f.body = [opener |-> o, n |-> h + 1], Carries(wire, s, o, l, h)
  PROVE  Carries(Append(wire, f), s, o, l, h + 1)
<1> DEFINE w == Append(wire, f)
           m == Len(wire) + 1
<1>1. /\ DOMAIN w = DOMAIN wire \cup {m}
      /\ \A k \in DOMAIN wire : w[k] = wire[k] /\ k \in Nat /\ k < m
      /\ w[m] = f /\ m \in Nat
  BY Appended
<1> HIDE DEF w, m
<1>2. \A k \in DOMAIN w : IsData(w[k], s) =>
        w[k].body = [opener |-> o, n |-> w[k].body.n] /\ w[k].body.n \in l + 1 .. h + 1
  BY <1>1 DEF Carries
<1>3. ASSUME NEW j \in DOMAIN w, NEW k \in DOMAIN w, IsData(w[j], s), IsData(w[k], s), j < k
      PROVE  w[j].body.n < w[k].body.n
  <2>1. j \in DOMAIN wire
    BY <1>1, <1>3
  <2>2. CASE k \in DOMAIN wire
    BY <1>1, <1>3, <2>1, <2>2 DEF Carries
  <2>3. CASE k = m
    <3>1. w[k].body.n = h + 1
      BY <1>1, <2>3
    <3>2. w[j].body.n \in l + 1 .. h
      BY <1>1, <1>3, <2>1 DEF Carries
    <3> QED BY <3>1, <3>2
  <2> QED BY <1>1, <2>2, <2>3
<1>4. ASSUME NEW n \in l + 1 .. h + 1 PROVE \E k \in DOMAIN w : IsData(w[k], s) /\ w[k].body.n = n
  <2>1. CASE n = h + 1
    BY <1>1, <2>1
  <2>2. CASE n # h + 1
    <3>1. n \in l + 1 .. h
      BY <2>2
    <3> QED BY <1>1, <3>1 DEF Carries
  <2> QED BY <2>1, <2>2
<1>5. Carries(w, s, o, l, h + 1)
  BY <1>2, <1>3, <1>4 DEF Carries
<1> QED BY <1>5 DEF w

LEMMA CarriesTaken ==
  ASSUME NEW T, NEW wire \in Seq(T), wire # << >>, NEW s, NEW o, NEW l, NEW h,
         ~IsData(Head(wire), s), Carries(wire, s, o, l, h)
  PROVE  Carries(Tail(wire), s, o, l, h)
<1> DEFINE w == Tail(wire)
<1>1. /\ 1 \in DOMAIN wire /\ Head(wire) = wire[1]
      /\ \A k \in DOMAIN w : k \in Nat \ {0} /\ k + 1 \in DOMAIN wire /\ w[k] = wire[k + 1]
      /\ \A k \in DOMAIN wire : k \in Nat \ {0} /\ (k # 1 => k - 1 \in DOMAIN w /\ w[k - 1] = wire[k])
  BY Taken
<1> HIDE DEF w
<1>2. \A k \in DOMAIN w : IsData(w[k], s) =>
        w[k].body = [opener |-> o, n |-> w[k].body.n] /\ w[k].body.n \in l + 1 .. h
  BY <1>1 DEF Carries
<1>3. ASSUME NEW j \in DOMAIN w, NEW k \in DOMAIN w, IsData(w[j], s), IsData(w[k], s), j < k
      PROVE  w[j].body.n < w[k].body.n
  <2>1. j + 1 \in DOMAIN wire /\ k + 1 \in DOMAIN wire /\ j + 1 < k + 1 /\ w[j] = wire[j + 1] /\ w[k] = wire[k + 1]
    BY <1>1, <1>3
  <2> QED BY <1>3, <2>1 DEF Carries
<1>4. ASSUME NEW n \in l + 1 .. h PROVE \E k \in DOMAIN w : IsData(w[k], s) /\ w[k].body.n = n
  <2>1. PICK k \in DOMAIN wire : IsData(wire[k], s) /\ wire[k].body.n = n
    BY DEF Carries
  <2>2. k # 1
    BY <1>1, <2>1
  <2> QED BY <1>1, <2>1, <2>2
<1>5. Carries(w, s, o, l, h)
  BY <1>2, <1>3, <1>4 DEF Carries
<1> QED BY <1>5 DEF w

\* Chunks come off the wire in order.
LEMMA CarriesLess ==
  ASSUME NEW T, NEW wire \in Seq(T), wire # << >>, NEW s, NEW o, NEW l \in Nat, NEW h \in Nat,
         IsData(Head(wire), s), Carries(wire, s, o, l, h)
  PROVE  /\ Head(wire).body = [opener |-> o, n |-> l + 1] /\ l + 1 <= h
         /\ Carries(Tail(wire), s, o, l + 1, h)
<1> DEFINE w == Tail(wire)
<1>1. /\ 1 \in DOMAIN wire /\ Head(wire) = wire[1]
      /\ \A k \in DOMAIN w : k \in Nat \ {0} /\ k + 1 \in DOMAIN wire /\ w[k] = wire[k + 1]
      /\ \A k \in DOMAIN wire : k \in Nat \ {0} /\ (k # 1 => k - 1 \in DOMAIN w /\ w[k - 1] = wire[k])
  BY Taken
<1> HIDE DEF w
<1>2. /\ wire[1].body = [opener |-> o, n |-> wire[1].body.n]
      /\ wire[1].body.n \in l + 1 .. h
  BY <1>1 DEF Carries
<1>3. wire[1].body.n = l + 1
  <2>1. l + 1 \in l + 1 .. h
    BY <1>2
  <2>2. PICK k \in DOMAIN wire : IsData(wire[k], s) /\ wire[k].body.n = l + 1
    BY <2>1 DEF Carries
  <2>3. CASE k # 1
    <3>1. 1 < k
      BY <1>1, <2>3
    <3>2. wire[1].body.n < wire[k].body.n
      BY <1>1, <2>2, <3>1 DEF Carries
    <3> QED BY <1>2, <2>2, <3>2
  <2> QED BY <2>2, <2>3
<1>4. ASSUME NEW k \in DOMAIN w, IsData(w[k], s)
      PROVE  w[k].body = [opener |-> o, n |-> w[k].body.n] /\ w[k].body.n \in (l + 1) + 1 .. h
  <2>1. k + 1 \in DOMAIN wire /\ 1 < k + 1 /\ w[k] = wire[k + 1]
    BY <1>1
  <2>2. /\ wire[k + 1].body = [opener |-> o, n |-> wire[k + 1].body.n] /\ wire[k + 1].body.n \in l + 1 .. h
        /\ wire[1].body.n < wire[k + 1].body.n
    BY <1>1, <1>4, <2>1 DEF Carries
  <2> QED BY <1>3, <2>1, <2>2
<1>5. ASSUME NEW j \in DOMAIN w, NEW k \in DOMAIN w, IsData(w[j], s), IsData(w[k], s), j < k
      PROVE  w[j].body.n < w[k].body.n
  <2>1. j + 1 \in DOMAIN wire /\ k + 1 \in DOMAIN wire /\ j + 1 < k + 1 /\ w[j] = wire[j + 1] /\ w[k] = wire[k + 1]
    BY <1>1, <1>5
  <2> QED BY <1>5, <2>1 DEF Carries
<1>6. ASSUME NEW n \in (l + 1) + 1 .. h PROVE \E k \in DOMAIN w : IsData(w[k], s) /\ w[k].body.n = n
  <2>1. n \in l + 1 .. h /\ n # l + 1
    OBVIOUS
  <2>2. PICK k \in DOMAIN wire : IsData(wire[k], s) /\ wire[k].body.n = n
    BY <2>1 DEF Carries
  <2> QED BY <1>1, <1>3, <2>1, <2>2
<1>7. l + 1 <= h
  BY <1>2
<1>8. Carries(w, s, o, l + 1, h)
  BY <1>4, <1>5, <1>6, <1>7 DEF Carries
<1> QED BY <1>1, <1>2, <1>3, <1>7, <1>8 DEF w

LEMMA CarriesNothing ==
  ASSUME NEW wire, NEW s, NEW o, NEW l \in Nat, ~Underway(wire, OfStream, s)
  PROVE  /\ Carries(wire, s, o, l, l)
         /\ \A h \in Nat : Carries(wire, s, o, l, h) => h = l
<1>1. \A k \in DOMAIN wire : ~IsData(wire[k], s)
  BY DEF Underway, OfStream, IsData
<1>2. Carries(wire, s, o, l, l)
  BY <1>1 DEF Carries
<1>3. ASSUME NEW h \in Nat, Carries(wire, s, o, l, h) PROVE h = l
  <2>1. h \notin l + 1 .. h
    BY <1>1, <1>3 DEF Carries
  <2> QED BY <1>3, <2>1 DEF Carries
<1> QED BY <1>2, <1>3

\* The news that a member has left.
Left(wire, i) == \E k \in DOMAIN wire : wire[k].kind = "PEER_LEFT" /\ wire[k].member = i

\* A stream is opened before anything else comes of it, and by a member who is there.
OpenFirst(wire, s) ==
  \A j, k \in DOMAIN wire : /\ wire[j].kind = "OPEN" /\ wire[j].stream = s
                            /\ wire[k].kind \in OfStream /\ wire[k].stream = s
                            => j <= k

LeftIsLast(wire, i, s) ==
  \A j, k \in DOMAIN wire : /\ wire[j].kind = "PEER_LEFT" /\ wire[j].member = i
                            /\ wire[k].kind = "OPEN" /\ wire[k].stream = s
                            => k < j

DataFrom(wire, s, d) == \A k \in DOMAIN wire : IsData(wire[k], s) => wire[k].from = d

\* Of the stream s, w has what wire has.
Same(wire, w, s) ==
  /\ \A kinds \in SUBSET OfStream : Underway(w, kinds, s) <=> Underway(wire, kinds, s)
  /\ \A o, l, h : Carries(wire, s, o, l, h) => Carries(w, s, o, l, h)
  /\ OpenFirst(wire, s) => OpenFirst(w, s)
  /\ \A d : DataFrom(wire, s, d) => DataFrom(w, s, d)

LEMMA OpenFirstSent ==
  ASSUME NEW T, NEW wire \in Seq(T), NEW f, NEW s, OpenFirst(wire, s),
         f.kind # "OPEN" \/ f.stream # s \/ ~Underway(wire, OfStream, s)
  PROVE  OpenFirst(Append(wire, f), s)
<1> DEFINE w == Append(wire, f)
           n == Len(wire) + 1
<1>1. /\ DOMAIN w = DOMAIN wire \cup {n}
      /\ \A k \in DOMAIN wire : w[k] = wire[k] /\ k \in Nat /\ k < n
      /\ w[n] = f /\ n \in Nat
  BY Appended
<1> HIDE DEF w, n
<1>2. SUFFICES ASSUME NEW j \in DOMAIN w, NEW k \in DOMAIN w, w[j].kind = "OPEN", w[j].stream = s,
                      w[k].kind \in OfStream, w[k].stream = s
               PROVE  j <= k
  BY DEF OpenFirst, w
<1>3. CASE k = n
  BY <1>1, <1>3
<1>4. CASE k # n /\ j = n
  BY <1>1, <1>2, <1>4 DEF Underway
<1>5. CASE k # n /\ j # n
  BY <1>1, <1>2, <1>5 DEF OpenFirst
<1> QED BY <1>3, <1>4, <1>5

LEMMA OpenFirstTaken ==
  ASSUME NEW T, NEW wire \in Seq(T), wire # << >>, NEW s, OpenFirst(wire, s)
  PROVE  /\ OpenFirst(Tail(wire), s)
         /\ Head(wire).kind \in OfStream /\ Head(wire).stream = s => ~Underway(Tail(wire), {"OPEN"}, s)
<1> DEFINE w == Tail(wire)
<1>1. /\ 1 \in DOMAIN wire /\ Head(wire) = wire[1]
      /\ \A k \in DOMAIN w : k \in Nat \ {0} /\ k + 1 \in DOMAIN wire /\ w[k] = wire[k + 1]
  BY Taken
<1> HIDE DEF w
<1>2. ASSUME NEW j \in DOMAIN w, NEW k \in DOMAIN w, w[j].kind = "OPEN", w[j].stream = s,
             w[k].kind \in OfStream, w[k].stream = s
      PROVE  j <= k
  <2>1. j + 1 \in DOMAIN wire /\ k + 1 \in DOMAIN wire /\ w[j] = wire[j + 1] /\ w[k] = wire[k + 1]
    BY <1>1
  <2>2. j + 1 <= k + 1
    BY <1>2, <2>1 DEF OpenFirst
  <2> QED BY <1>1, <2>2
<1>3. ASSUME Head(wire).kind \in OfStream, Head(wire).stream = s,
             NEW j \in DOMAIN w, w[j].kind = "OPEN", w[j].stream = s
      PROVE  FALSE
  <2>1. j + 1 \in DOMAIN wire /\ w[j] = wire[j + 1] /\ j \in Nat \ {0}
    BY <1>1
  <2>2. j + 1 <= 1
    BY <1>1, <1>3, <2>1 DEF OpenFirst
  <2> QED BY <2>1, <2>2
<1>4. OpenFirst(w, s)
  BY <1>2 DEF OpenFirst
<1>5. Head(wire).kind \in OfStream /\ Head(wire).stream = s => ~Underway(w, {"OPEN"}, s)
  BY <1>3 DEF Underway
<1> QED BY <1>4, <1>5 DEF w

LEMMA DataFromSent ==
  ASSUME NEW T, NEW wire \in Seq(T), NEW f, NEW s, NEW d, DataFrom(wire, s, d), IsData(f, s) => f.from = d
  PROVE  DataFrom(Append(wire, f), s, d)
<1> DEFINE w == Append(wire, f)
           n == Len(wire) + 1
<1>1. /\ DOMAIN w = DOMAIN wire \cup {n}
      /\ \A k \in DOMAIN wire : w[k] = wire[k]
      /\ w[n] = f
  BY Appended
<1> HIDE DEF w, n
<1>2. DataFrom(w, s, d)
  BY <1>1 DEF DataFrom
<1> QED BY <1>2 DEF w

LEMMA DataFromTaken ==
  ASSUME NEW T, NEW wire \in Seq(T), wire # << >>, NEW s, NEW d, DataFrom(wire, s, d)
  PROVE  DataFrom(Tail(wire), s, d) /\ (IsData(Head(wire), s) => Head(wire).from = d)
BY Taken DEF DataFrom

LEMMA LeftSent ==
  ASSUME NEW T, NEW wire \in Seq(T), NEW f, NEW i, NEW s
  PROVE  /\ Left(wire, i) => Left(Append(wire, f), i)
         /\ f.kind = "PEER_LEFT" /\ f.member = i => Left(Append(wire, f), i)
         /\ LeftIsLast(wire, i, s) /\ (f.kind # "OPEN" \/ f.stream # s \/ ~Left(wire, i)) =>
              LeftIsLast(Append(wire, f), i, s)
<1> DEFINE w == Append(wire, f)
           n == Len(wire) + 1
<1>1. /\ DOMAIN w = DOMAIN wire \cup {n}
      /\ \A k \in DOMAIN wire : w[k] = wire[k] /\ k \in Nat /\ k < n
      /\ w[n] = f /\ n \in Nat
  BY Appended
<1> HIDE DEF w, n
<1>2. Left(wire, i) => Left(w, i)
  BY <1>1 DEF Left
<1>3. f.kind = "PEER_LEFT" /\ f.member = i => Left(w, i)
  BY <1>1 DEF Left
<1>4. ASSUME LeftIsLast(wire, i, s), f.kind # "OPEN" \/ f.stream # s \/ ~Left(wire, i),
             NEW j \in DOMAIN w, NEW k \in DOMAIN w, w[j].kind = "PEER_LEFT", w[j].member = i,
             w[k].kind = "OPEN", w[k].stream = s
      PROVE  k < j
  <2>1. CASE k = n
    BY <1>1, <1>4, <2>1 DEF Left
  <2>2. CASE k # n /\ j = n
    BY <1>1, <2>2
  <2>3. CASE k # n /\ j # n
    BY <1>1, <1>4, <2>3 DEF LeftIsLast
  <2> QED BY <2>1, <2>2, <2>3
<1>5. LeftIsLast(wire, i, s) /\ (f.kind # "OPEN" \/ f.stream # s \/ ~Left(wire, i)) => LeftIsLast(w, i, s)
  BY <1>4 DEF LeftIsLast
<1> QED BY <1>2, <1>3, <1>5 DEF w

LEMMA LeftTaken ==
  ASSUME NEW T, NEW wire \in Seq(T), wire # << >>, NEW i, NEW s
  PROVE  /\ Left(wire, i) => Left(Tail(wire), i) \/ (Head(wire).kind = "PEER_LEFT" /\ Head(wire).member = i)
         /\ LeftIsLast(wire, i, s) =>
              /\ LeftIsLast(Tail(wire), i, s)
              /\ Head(wire).kind = "PEER_LEFT" /\ Head(wire).member = i => ~Underway(wire, {"OPEN"}, s)
<1> DEFINE w == Tail(wire)
<1>1. /\ 1 \in DOMAIN wire /\ Head(wire) = wire[1]
      /\ \A k \in DOMAIN w : k \in Nat \ {0} /\ k + 1 \in DOMAIN wire /\ w[k] = wire[k + 1]
      /\ \A k \in DOMAIN wire : k \in Nat \ {0} /\ (k # 1 => k - 1 \in DOMAIN w /\ w[k - 1] = wire[k])
  BY Taken
<1> HIDE DEF w
<1>2. Left(wire, i) => Left(w, i) \/ (Head(wire).kind = "PEER_LEFT" /\ Head(wire).member = i)
  BY <1>1 DEF Left
<1>3. ASSUME LeftIsLast(wire, i, s), NEW j \in DOMAIN w, NEW k \in DOMAIN w,
             w[j].kind = "PEER_LEFT", w[j].member = i, w[k].kind = "OPEN", w[k].stream = s
      PROVE  k < j
  <2>1. j + 1 \in DOMAIN wire /\ k + 1 \in DOMAIN wire /\ w[j] = wire[j + 1] /\ w[k] = wire[k + 1]
    BY <1>1
  <2>2. k + 1 < j + 1
    BY <1>3, <2>1 DEF LeftIsLast
  <2> QED BY <1>1, <2>2
<1>4. ASSUME LeftIsLast(wire, i, s), Head(wire).kind = "PEER_LEFT", Head(wire).member = i,
             NEW k \in DOMAIN wire, wire[k].kind = "OPEN", wire[k].stream = s
      PROVE  FALSE
  <2>1. k < 1 /\ k \in Nat \ {0}
    BY <1>1, <1>4 DEF LeftIsLast
  <2> QED BY <2>1
<1>5. LeftIsLast(wire, i, s) => LeftIsLast(w, i, s)
  BY <1>3 DEF LeftIsLast
<1>6. LeftIsLast(wire, i, s) /\ Head(wire).kind = "PEER_LEFT" /\ Head(wire).member = i => ~Underway(wire, {"OPEN"}, s)
  BY <1>4 DEF Underway
<1> QED BY <1>2, <1>5, <1>6 DEF w

\* Frames of no stream, and of other streams.
LEMMA SameSent ==
  ASSUME NEW T, NEW wire \in Seq(T), NEW f, NEW s, f.kind \notin OfStream \/ f.stream # s
  PROVE  Same(wire, Append(wire, f), s)
<1>1. f.kind # "OPEN" \/ f.stream # s
  BY DEF OfStream
<1>2. ~IsData(f, s)
  BY DEF OfStream, IsData
<1>3. \A kinds \in SUBSET OfStream : ~(f.kind \in kinds /\ f.stream = s)
  OBVIOUS
<1>4. \A kinds \in SUBSET OfStream : Underway(Append(wire, f), kinds, s) <=> Underway(wire, kinds, s)
  BY <1>3, UnderwaySent
<1>5. \A o, l, h : Carries(wire, s, o, l, h) => Carries(Append(wire, f), s, o, l, h)
  BY <1>2, CarriesSent
<1>6. OpenFirst(wire, s) => OpenFirst(Append(wire, f), s)
  BY <1>1, OpenFirstSent
<1>7. \A d : DataFrom(wire, s, d) => DataFrom(Append(wire, f), s, d)
  BY <1>2, DataFromSent
<1> QED BY <1>4, <1>5, <1>6, <1>7 DEF Same

LEMMA SameTaken ==
  ASSUME NEW T, NEW wire \in Seq(T), wire # << >>, NEW s, Head(wire).kind \notin OfStream \/ Head(wire).stream # s
  PROVE  Same(wire, Tail(wire), s)
<1>1. ~IsData(Head(wire), s)
  BY DEF OfStream, IsData
<1>2. \A kinds \in SUBSET OfStream : ~(Head(wire).kind \in kinds /\ Head(wire).stream = s)
  OBVIOUS
<1>3. \A kinds \in SUBSET OfStream : Underway(Tail(wire), kinds, s) <=> Underway(wire, kinds, s)
  BY <1>2, UnderwayTaken
<1>4. \A o, l, h : Carries(wire, s, o, l, h) => Carries(Tail(wire), s, o, l, h)
  BY <1>1, CarriesTaken
<1>5. OpenFirst(wire, s) => OpenFirst(Tail(wire), s)
  BY OpenFirstTaken
<1>6. \A d : DataFrom(wire, s, d) => DataFrom(Tail(wire), s, d)
  BY DataFromTaken
<1> QED BY <1>3, <1>4, <1>5, <1>6 DEF Same

-----------------------------------------------------------------------------
(* The numbers of streams.                                                   *)

LEMMA NumbersTell ==
  ASSUME NEW i \in Nat, NEW j \in Nat, NEW q \in 1 .. SequenceSpan - 1, NEW r \in 1 .. SequenceSpan - 1,
         StreamIdOf(i, q) = StreamIdOf(j, r)
  PROVE  i = j /\ q = r
<1> USE PageConstants
<1>1. \A m, n \in Nat : m < n => m * SequenceSpan + SequenceSpan <= n * SequenceSpan
  <2> SUFFICES ASSUME NEW m \in Nat, NEW n \in Nat, m < n
               PROVE  m * SequenceSpan + SequenceSpan <= n * SequenceSpan
    OBVIOUS
  <2>1. (n - m - 1) \in Nat /\ n = m + 1 + (n - m - 1)
    OBVIOUS
  <2>2. n * SequenceSpan = m * SequenceSpan + SequenceSpan + (n - m - 1) * SequenceSpan
    BY <2>1
  <2>3. (n - m - 1) * SequenceSpan >= 0
    BY <2>1
  <2>4. m * SequenceSpan \in Nat /\ n * SequenceSpan \in Nat /\ (n - m - 1) * SequenceSpan \in Nat
    BY <2>1
  <2> QED BY <2>2, <2>3, <2>4
<1>2. i * SequenceSpan \in Nat /\ j * SequenceSpan \in Nat
  OBVIOUS
<1>3. i * SequenceSpan + q = j * SequenceSpan + r
  BY DEF StreamIdOf
<1>4. ~(i < j) /\ ~(j < i)
  BY <1>1, <1>2, <1>3
<1>5. i = j
  BY <1>4
<1> QED BY <1>2, <1>3, <1>5

LEMMA NumbersOfStreams ==
  ASSUME NEW i \in Nat, NEW q \in 1 .. SequenceSpan - 1
  PROVE  StreamIdOf(i, q) # 0
<1>1. i * SequenceSpan \in Nat
  BY PageConstants
<1> QED BY <1>1, PageConstants DEF StreamIdOf

\* s is a number for a stream that o opens to the creator of its room.
Opens(o, s) ==
  /\ room[o] # NONE /\ room[o] # o
  /\ \E q \in 1 .. SequenceSpan - 1 : s = StreamIdOf(myId[o], q)

\* It is not used yet.
NotYet(o, s) == \E q \in nextSeq[o] .. SequenceSpan - 1 : s = StreamIdOf(myId[o], q)

HasPart(x, s) == \E o \in Connection : Opens(o, s) /\ x \in {o, room[o]}

-----------------------------------------------------------------------------
(* The pages and the frames on their way: the inductive invariant.           *)

Entry == [open : BOOLEAN, peer : Nat, opener : Connection \cup {NONE},
          chunks : Seq([body : Body \cup {NONE}, from : Connection \cup {NONE}]), sent : 0 .. MaxChunks]

PageTypes ==
  /\ page \in [Connection -> {"none", "connecting", "ready", "over"}]
  /\ memberId \in [Connection -> Member \cup {0}]
  /\ entry \in [Connection -> [StreamId -> Entry]]
  /\ nextSeq \in [Connection -> Nat \ {0}]
  /\ callsLeft \in [Connection -> Nat]
  /\ up \in [Connection -> Seq(UpFrame)]
  /\ throttled \subseteq Connection

\* A page and the handlers of its connection agree about it.
PagesAgree ==
  \A c \in Connection :
    /\ c \in hungUp <=> page[c] = "over"
    /\ page[c] = "none" <=> socket[c] = "none"
    /\ page[c] = "none" => up[c] = << >>
    /\ page[c] \in {"none", "over"} => down[c] = << >>
    /\ page[c] = "ready" => room[c] # NONE /\ memberId[c] = myId[c]
    /\ nextSeq[c] + callsLeft[c] <= MaxCalls[c] + 1

\* The first thing a page is told is whether it is in.
FirstAnswers ==
  \A c \in Connection : page[c] = "connecting" =>
    IF down[c] = << >> THEN room[c] = NONE \/ socket[c] # "open"
    ELSE down[c][1].kind \in {"WELCOME", "ERROR"}

UpSound(x, f) ==
  /\ f.kind \in {"HELLO", "BAD"} => room[x] = NONE
  /\ f.kind \notin {"HELLO", "BAD"} => room[x] # NONE
  /\ f.kind \in {"PUBLISH", "UNLIST"} => myId[x] = 1
  /\ f.kind = "OPEN" => f.dest = 1 /\ Opens(x, f.stream)
  /\ f.kind \in OfStream => HasPart(x, f.stream)

DownSound(x, f) ==
  /\ f.kind # "ERROR" => room[x] # NONE
  /\ f.kind = "WELCOME" => f.member = myId[x]
  /\ f.kind = "OPEN" => /\ f.from \in Connection /\ Opens(f.from, f.stream)
                        /\ room[f.from] = x /\ f.member = myId[f.from]
  /\ f.kind \in OfStream => HasPart(x, f.stream)
  /\ f.kind = "PEER_LEFT" => \E y \in Connection : /\ room[y] = room[x] /\ myId[y] = f.member
                                                   /\ socket[y] = "closed"

\* What is on the wires; a HELLO (or a mistyped one) is alone on its wire.
UpsSound ==
  \A c \in Connection :
    /\ \A k \in DOMAIN up[c] : UpSound(c, up[c][k])
    /\ room[c] = NONE => Len(up[c]) <= 1

DownsSound == \A c \in Connection : \A k \in DOMAIN down[c] : DownSound(c, down[c][k])

EntriesSound ==
  \A c \in Connection, s \in StreamId : entry[c][s] # NoEntry =>
    /\ page[c] = "ready"
    /\ \E o \in Connection : /\ Opens(o, s) /\ entry[c][s].opener = o
                             /\ \/ c = o /\ entry[c][s].peer = 1
                                \/ c = room[o] /\ entry[c][s].peer = myId[o]

\* The relay's pairs are what the pages' numbers say.
PairsSound ==
  \A r \in Connection, s \in StreamId : streams[r][s] # NoPair =>
    /\ streams[r][s].b = 1
    /\ \E q \in 1 .. SequenceSpan - 1 : s = StreamIdOf(streams[r][s].a, q)

OpenOnce(wire, s) ==
  \A j, k \in DOMAIN wire : /\ wire[j].kind = "OPEN" /\ wire[j].stream = s
                            /\ wire[k].kind = "OPEN" /\ wire[k].stream = s
                            => j = k

\* Nobody opens a stream that there is.
OpensAreNew ==
  \A o \in Connection, s \in StreamId : Opens(o, s) =>
    /\ OpenOnce(up[o], s)
    /\ page[o] # "over" /\ NotYet(o, s) => ~Underway(up[o], OfStream, s) /\ entry[o][s] = NoEntry
    /\ Present(o) /\ (Underway(up[o], {"OPEN"}, s) \/ (page[o] # "over" /\ NotYet(o, s))) =>
         streams[room[o]][s] = NoPair

ClosedRoomsClose == \A c \in Connection : room[c] \in closed => socket[c] # "open"

NetInv ==
  /\ RelayInv
  /\ PageTypes /\ PagesAgree /\ FirstAnswers /\ UpsSound /\ DownsSound
  /\ EntriesSound /\ PairsSound /\ OpensAreNew /\ ClosedRoomsClose

-----------------------------------------------------------------------------
(* What stays as it is.                                                      *)

\* Who is in a room stays in it, under its number, and what is closed stays closed.
Settled ==
  \A x \in Connection :
    /\ room[x] # NONE => room'[x] = room[x] /\ myId'[x] = myId[x]
    /\ socket[x] = "closed" => socket'[x] = "closed"

LEMMA SettledKeeps ==
  ASSUME RelayInv, Settled, NEW x \in Connection
  PROVE  /\ \A s : Opens(x, s) => Opens(x, s)'
         /\ \A s : HasPart(x, s) => HasPart(x, s)'
         /\ \A f : DownSound(x, f) => DownSound(x, f)'
         /\ \A f : UpSound(x, f) /\ room'[x] = room[x] => UpSound(x, f)'
<1>1. \A y \in Connection : \A s : Opens(y, s) => Opens(y, s)' /\ room'[y] = room[y] /\ myId'[y] = myId[y]
  BY DEF Settled, Opens
<1>2. \A s : HasPart(x, s) => HasPart(x, s)'
  BY <1>1 DEF HasPart
<1>3. ASSUME NEW f, DownSound(x, f) PROVE DownSound(x, f)'
  <2>1. f.kind = "PEER_LEFT" => \E y \in Connection : room'[y] = room'[x] /\ myId'[y] = f.member /\ socket'[y] = "closed"
    <3> SUFFICES ASSUME f.kind = "PEER_LEFT"
                 PROVE  \E y \in Connection : room'[y] = room'[x] /\ myId'[y] = f.member /\ socket'[y] = "closed"
      OBVIOUS
    <3>1. PICK y \in Connection : room[y] = room[x] /\ myId[y] = f.member /\ socket[y] = "closed"
      BY <1>3 DEF DownSound
    <3>2. room[x] # NONE
      BY <1>3 DEF DownSound
    <3> QED BY <3>1, <3>2 DEF Settled
  <2>2. f.kind = "OPEN" => /\ f.from \in Connection /\ Opens(f.from, f.stream)'
                           /\ room'[f.from] = x /\ f.member = myId'[f.from]
    BY <1>1, <1>3 DEF DownSound
  <2>3. (f.kind # "ERROR" => room'[x] # NONE) /\ (f.kind = "WELCOME" => f.member = myId'[x])
    BY <1>3 DEF DownSound, Settled
  <2>4. f.kind \in OfStream => HasPart(x, f.stream)'
    BY <1>2, <1>3 DEF DownSound
  <2> QED BY <2>1, <2>2, <2>3, <2>4 DEF DownSound
<1>4. ASSUME NEW f, UpSound(x, f), room'[x] = room[x] PROVE UpSound(x, f)'
  <2>1. room[x] # NONE => myId'[x] = myId[x]
    BY DEF Settled
  <2> QED BY <1>1, <1>2, <1>4, <2>1 DEF UpSound
<1> QED BY <1>1, <1>2, <1>3, <1>4

\* Sockets that are told to close.
SocketsClose == \A x \in Connection : socket'[x] = socket[x] \/ (socket[x] = "open" /\ socket'[x] = "closing")

\* A frame that is sent to d arrives, or d is not there any more, or its socket is being closed.
SentTo(d, h) ==
  /\ \A x \in Connection \ {d} : down'[x] = down[x]
  /\ \/ down'[d] = Append(down[d], h) /\ socket[d] = "open" /\ d \notin hungUp
     \/ down'[d] = down[d] /\ (d \in hungUp \/ socket'[d] # "open")

LEMMA PostedOne ==
  ASSUME RelayTypeOK, NEW d \in Connection, NEW h, NEW cl, Post(Only(d, h), cl)
  PROVE  SocketsClose /\ SentTo(d, h) /\ \A x \in Connection \cap cl : socket'[x] # "open"
<1>1. DOMAIN Only(d, h) = {d} /\ Only(d, h)[d] = h
  BY DEF Only
<1> HIDE DEF Only
<1>2. SocketsClose /\ \A x \in Connection \cap cl : socket'[x] # "open"
  BY DEF Post, SocketsAfter, SocketsClose, RelayTypeOK
<1>3. \A x \in Connection \ {d} : down'[x] = down[x]
  BY <1>1 DEF Post, DownAfter
<1>4. CASE d \notin hungUp /\ socket[d] = "open" /\ Fits(d)
  <2>1. down'[d] = Append(down[d], h)
    BY <1>1, <1>4 DEF Post, DownAfter
  <2> QED BY <1>2, <1>3, <1>4, <2>1 DEF SentTo
<1>5. CASE ~(d \notin hungUp /\ socket[d] = "open" /\ Fits(d))
  <2>1. down'[d] = down[d]
    BY <1>5 DEF Post, DownAfter
  <2>2. d \in hungUp \/ socket'[d] # "open"
    BY <1>1, <1>5 DEF Post, SocketsAfter
  <2> QED BY <1>2, <1>3, <2>1, <2>2 DEF SentTo
<1> QED BY <1>4, <1>5

LEMMA PostedNone ==
  ASSUME RelayTypeOK, NEW cl, Post(Nothing, cl)
  PROVE  SocketsClose /\ down' = down /\ \A x \in Connection \cap cl : socket'[x] # "open"
<1>1. DOMAIN Nothing = {}
  BY DEF Nothing
<1> HIDE DEF Nothing
<1>2. SocketsClose /\ \A x \in Connection \cap cl : socket'[x] # "open"
  BY DEF Post, SocketsAfter, SocketsClose, RelayTypeOK
<1>3. down' = down
  BY <1>1 DEF Post, DownAfter, RelayTypeOK
<1> QED BY <1>2, <1>3

-----------------------------------------------------------------------------
(* Who has a part in a stream.                                               *)

LEMMA CreatorsRoom ==
  ASSUME RelayInv, NEW x \in Connection, room[x] # NONE
  PROVE  /\ room[x] \in Connection /\ room[room[x]] = room[x] /\ myId[room[x]] = 1
         /\ myId[x] \in Member /\ (myId[x] = 1 <=> room[x] = x)
<1>1. room[x] \in Connection /\ myId[x] \in Member
  BY DEF RelayInv, RelayTypeOK, HandlersAgree
<1>2. room[room[x]] = room[x]
  BY <1>1 DEF RelayInv, HandlersAgree
<1>3. myId[room[x]] = 1 /\ (myId[x] = 1 <=> room[x] = x)
  BY <1>1, <1>2, Constants DEF RelayInv, HandlersAgree
<1> QED BY <1>1, <1>2, <1>3

LEMMA Opened ==
  ASSUME RelayInv, NEW o \in Connection, NEW s, Opens(o, s)
  PROVE  /\ room[o] \in Connection /\ room[o] # o /\ room[o] # NONE
         /\ room[room[o]] = room[o] /\ myId[room[o]] = 1
         /\ myId[o] \in Member /\ myId[o] # 1 /\ s # 0
<1>1. /\ room[o] \in Connection /\ room[o] # o /\ room[o] # NONE
      /\ room[room[o]] = room[o] /\ myId[room[o]] = 1
      /\ myId[o] \in Member /\ myId[o] # 1
  BY CreatorsRoom DEF Opens
<1>2. s # 0
  BY <1>1, NumbersOfStreams, Constants DEF Opens
<1> QED BY <1>1, <1>2

LEMMA SameNumbers ==
  ASSUME RelayInv, NEW o \in Connection, NEW p \in Connection, NEW s, Opens(o, s), Opens(p, s)
  PROVE  myId[o] = myId[p]
<1>1. myId[o] \in Nat /\ myId[p] \in Nat
  BY Opened, Constants
<1> QED BY <1>1, NumbersTell DEF Opens

\* A pair of the relay's is one of the opener and the creator.
LEMMA PairOfStream ==
  ASSUME RelayInv, PairsSound, NEW o \in Connection, NEW s \in StreamId, Opens(o, s),
         streams[room[o]][s] # NoPair
  PROVE  streams[room[o]][s] = [a |-> myId[o], b |-> 1]
<1>1. room[o] \in Connection /\ myId[o] \in Nat
  BY Opened, Constants
<1> DEFINE pair == streams[room[o]][s]
<1>2. pair \in Pair /\ pair.a \in Nat
  <2>1. pair \in Pair
    BY <1>1 DEF RelayInv, RelayTypeOK
  <2> QED BY <2>1, Constants DEF Pair
<1>3. pair.b = 1 /\ \E q \in 1 .. SequenceSpan - 1 : s = StreamIdOf(pair.a, q)
  BY <1>1 DEF PairsSound
<1>4. pair.a = myId[o]
  <2> HIDE DEF pair
  <2>1. PICK q \in 1 .. SequenceSpan - 1 : s = StreamIdOf(pair.a, q)
    BY <1>3
  <2>2. PICK r \in 1 .. SequenceSpan - 1 : s = StreamIdOf(myId[o], r)
    BY DEF Opens
  <2> QED BY <1>1, <1>2, <2>1, <2>2, NumbersTell
<1> QED BY <1>2, <1>3, <1>4 DEF Pair

LEMMA PartOfPair ==
  ASSUME RelayInv, PairsSound, NEW c \in Connection, NEW s \in StreamId, HasPart(c, s),
         streams[room[c]][s] # NoPair
  PROVE  /\ room[c] \in Connection /\ room[c] # NONE
         /\ streams[room[c]][s].b = 1 /\ streams[room[c]][s].a \in Member \ {1}
         /\ myId[c] \in {streams[room[c]][s].a, 1}
<1>1. PICK o \in Connection : Opens(o, s) /\ c \in {o, room[o]}
  BY DEF HasPart
<1>2. /\ room[o] \in Connection /\ room[o] # NONE /\ room[room[o]] = room[o] /\ myId[room[o]] = 1
      /\ myId[o] \in Member /\ myId[o] # 1
  BY <1>1, Opened
<1>3. room[c] = room[o]
  BY <1>1, <1>2
<1>4. streams[room[o]][s] = [a |-> myId[o], b |-> 1]
  BY <1>1, <1>3, PairOfStream
<1> QED BY <1>1, <1>2, <1>3, <1>4

\* What a page has sent is never a bad frame.
LEMMA FramesAccepted ==
  ASSUME RelayInv, PairsSound, OpensAreNew, NEW c \in Connection, Present(c), room[c] # NONE, up[c] # << >>,
         up[c] \in Seq(UpFrame), UpSound(c, Head(up[c]))
  PROVE  Acceptable(c, Head(up[c]))
<1> DEFINE f == Head(up[c])
<1>1. f \in UpFrame /\ 1 \in DOMAIN up[c] /\ f = up[c][1]
  OBVIOUS
<1>2. f.kind \notin {"HELLO", "BAD"}
  BY DEF UpSound
<1>3. f.kind \in {"DGRAM", "OPEN", "DATA", "CLOSE", "PUBLISH", "UNLIST"}
  BY <1>1, <1>2 DEF UpFrame
<1>4. f.kind \in OfStream => f.stream \in StreamId \cup {0}
  <2> HIDE DEF f
  <2> QED BY <1>1, FrameFields DEF OfStream
<1>5. CASE f.kind = "OPEN"
  <2>1. f.dest = 1 /\ Opens(c, f.stream)
    BY <1>5 DEF UpSound
  <2>2. f.stream \in StreamId /\ myId[c] # 1
    BY <1>4, <1>5, <2>1, Opened DEF OfStream
  <2>3. Underway(up[c], {"OPEN"}, f.stream)
    BY <1>1, <1>5 DEF Underway
  <2>4. streams[room[c]][f.stream] = NoPair
    BY <2>1, <2>2, <2>3 DEF OpensAreNew
  <2> QED BY <1>5, <2>1, <2>2, <2>4, Constants DEF Acceptable
<1>6. CASE f.kind \in {"DATA", "CLOSE"}
  <2>1. HasPart(c, f.stream)
    BY <1>6 DEF UpSound, OfStream
  <2>2. f.stream \in StreamId
    BY <1>4, <1>6, <2>1, Opened DEF OfStream, HasPart
  <2>3. streams[room[c]][f.stream] # NoPair =>
          myId[c] \in {streams[room[c]][f.stream].a, streams[room[c]][f.stream].b}
    BY <2>1, <2>2, PartOfPair
  <2> QED BY <1>6, <2>2, <2>3, Constants DEF Acceptable
<1>7. CASE f.kind \in {"DGRAM", "PUBLISH", "UNLIST"}
  BY <1>7 DEF UpSound, Acceptable
<1> QED BY <1>3, <1>5, <1>6, <1>7

-----------------------------------------------------------------------------
(* What the relay does with a frame f of the member c.                       *)

\* Datagrams are passed on or lost, publishing concerns nobody else.
Passes(c, f) ==
  /\ f.kind \notin OfStream
  /\ UNCHANGED <<streams, throttled>>
  /\ \/ down' = down
     \/ \E d \in Connection : room[d] = room[c] /\ SentTo(d, ToClient("DGRAM", myId[c], 0, c, f.body))

Cuts(c) ==
  /\ UNCHANGED <<streams, down>>
  /\ socket'[c] # "open" /\ throttled' = throttled \cup {c}

Refuses(c, f) ==
  /\ f.kind = "OPEN"
  /\ UNCHANGED <<streams, throttled>>
  /\ \/ down' = down /\ socket'[c] # "open"
     \/ SentTo(c, ToClient("CLOSE", 0, f.stream, NONE, NONE))

Pairs(c, f) ==
  /\ f.kind = "OPEN"
  /\ streams' = [streams EXCEPT ![room[c]][f.stream] = [a |-> myId[c], b |-> 1]]
  /\ SentTo(room[c], ToClient("OPEN", myId[c], f.stream, c, f.body))
  /\ UNCHANGED throttled

Loses(c, f) ==
  /\ f.kind \in {"DATA", "CLOSE"} /\ streams[room[c]][f.stream] = NoPair
  /\ UNCHANGED <<streams, down, throttled>>

Forwards(c, f, d) ==
  /\ f.kind \in {"DATA", "CLOSE"} /\ streams[room[c]][f.stream] # NoPair
  /\ d # c /\ Present(d) /\ room[d] = room[c]
  /\ \/ myId[c] = 1 /\ myId[d] = streams[room[c]][f.stream].a
     \/ myId[c] = streams[room[c]][f.stream].a /\ myId[d] = 1
  /\ streams' = IF f.kind = "CLOSE" THEN [streams EXCEPT ![room[c]][f.stream] = NoPair] ELSE streams
  /\ SentTo(d, ToClient(f.kind, 0, f.stream, c, f.body))
  /\ UNCHANGED throttled

MemberFrame(c, f) ==
  /\ Present(c) /\ up[c] # << >> /\ f = Head(up[c]) /\ f \in UpFrame /\ UpSound(c, f)
  /\ up' = [up EXCEPT ![c] = Tail(@)]
  /\ UNCHANGED <<roomVars, hungUp, pageVars>> /\ SocketsClose
  /\ \/ Passes(c, f) \/ Cuts(c) \/ Refuses(c, f) \/ Pairs(c, f) \/ Loses(c, f)
     \/ \E d \in Connection : Forwards(c, f, d)

LEMMA FirstFrame ==
  ASSUME NetInv, NEW c \in Connection, up[c] # << >>
  PROVE  up[c] \in Seq(UpFrame) /\ Head(up[c]) \in UpFrame /\ UpSound(c, Head(up[c]))
<1>1. up[c] \in Seq(UpFrame)
  BY DEF NetInv, PageTypes
<1>2. 1 \in DOMAIN up[c] /\ Head(up[c]) = up[c][1] /\ Head(up[c]) \in UpFrame
  BY <1>1
<1> QED BY <1>1, <1>2 DEF NetInv, UpsSound

LEMMA MemberReceives ==
  ASSUME NetInv, NEW c \in Connection, room[c] # NONE, RelayReceives(c)
  PROVE  MemberFrame(c, Head(up[c]))
<1> DEFINE f == Head(up[c])
           r == room[c]
<1>1. up[c] # << >> /\ up' = [up EXCEPT ![c] = Tail(@)] /\ UNCHANGED pageVars
  BY DEF RelayReceives
<1>2. up[c] \in Seq(UpFrame) /\ f \in UpFrame /\ UpSound(c, f)
  BY <1>1, FirstFrame
<1>3. RelayInv /\ RelayTypeOK /\ PairsSound /\ OpensAreNew
  BY DEF NetInv, RelayInv
<1>4. \/ Receive(c, f) /\ UNCHANGED throttled
      \/ Throttle(c) /\ throttled' = throttled \cup {c}
  BY DEF RelayReceives
<1>5. Present(c) /\ UNCHANGED hungUp
  BY <1>4 DEF Receive, Throttle
<1>6. Acceptable(c, f)
  BY <1>1, <1>2, <1>3, <1>5, FramesAccepted
<1>7. r \in Connection /\ myId[c] \in Member /\ members[r][myId[c]] = c
  BY <1>3, <1>5, MembersFound
<1>8. f.kind \notin {"HELLO", "BAD"}
  BY <1>2 DEF UpSound
<1>9. SUFFICES UNCHANGED roomVars /\ SocketsClose /\
               (\/ Passes(c, f) \/ Cuts(c) \/ Refuses(c, f) \/ Pairs(c, f) \/ Loses(c, f)
                \/ \E d \in Connection : Forwards(c, f, d))
  BY <1>1, <1>2, <1>5 DEF MemberFrame
<1>10. CASE Throttle(c) /\ throttled' = throttled \cup {c}
  <2>1. SocketsClose /\ down' = down /\ socket'[c] # "open"
    BY <1>3, <1>10, PostedNone DEF Throttle
  <2> QED BY <1>10, <2>1 DEF Throttle, Cuts
<1>11. CASE f.kind = "DGRAM" /\ Dgram(c, f) /\ UNCHANGED throttled
  <2> DEFINE dest == PeerOf(r, f.dest)
             h    == ToClient("DGRAM", myId[c], 0, c, f.body)
  <2>1. UNCHANGED <<roomVars, streams>>
    BY <1>11 DEF Dgram
  <2>2. CASE dest = NONE
    <3>1. SocketsClose /\ down' = down
      BY <1>3, <1>11, <2>2, PostedNone DEF Dgram
    <3> QED BY <1>11, <2>1, <3>1 DEF Passes, OfStream
  <2>3. CASE dest # NONE
    <3>1. dest \in Connection /\ room[dest] = r
      BY <1>3, <1>7, <2>3, Peers
    <3>2. Post(Only(dest, h), {})
      BY <1>11, <2>3 DEF Dgram
    <3>3. SocketsClose /\ SentTo(dest, h)
      <4> HIDE DEF dest, h
      <4> QED BY <1>3, <3>1, <3>2, PostedOne
    <3> QED BY <1>11, <2>1, <3>1, <3>3 DEF Passes, OfStream
  <2> QED BY <2>2, <2>3
<1>12. CASE f.kind = "OPEN" /\ OpenStream(c, f) /\ UNCHANGED throttled
  <2> DEFINE dest == PeerOf(r, f.dest)
             back == ToClient("CLOSE", 0, f.stream, NONE, NONE)
             out  == ToClient("OPEN", myId[c], f.stream, c, f.body)
  <2>1. UNCHANGED roomVars /\ f.dest = 1 /\ Opens(c, f.stream)
    BY <1>2, <1>12 DEF OpenStream, UpSound
  <2>2. CASE Post(Nothing, {c}) /\ UNCHANGED streams
    <3>1. SocketsClose /\ down' = down /\ socket'[c] # "open"
      BY <1>3, <2>2, PostedNone
    <3> QED BY <1>12, <2>1, <2>2, <3>1 DEF Refuses
  <2>3. CASE Post(Only(c, back), {}) /\ UNCHANGED streams
    <3>1. SocketsClose /\ SentTo(c, back)
      <4> HIDE DEF back
      <4> QED BY <1>3, <2>3, PostedOne
    <3> QED BY <1>12, <2>1, <2>3, <3>1 DEF Refuses
  <2>4. CASE /\ dest # NONE
             /\ streams' = [streams EXCEPT ![r][f.stream] = [a |-> myId[c], b |-> f.dest]]
             /\ Post(Only(dest, out), {})
    <3>1. dest \in Connection /\ dest = members[r][1]
      BY <1>3, <1>7, <2>1, <2>4, Peers
    <3>2. room[dest] = r /\ myId[dest] = 1
      BY <1>3, <1>7, <2>1, <2>4, <3>1, Constants DEF RelayInv, MembersAreThere
    <3>3. dest = r
      BY <1>3, <1>7, <3>1, <3>2, CreatorsRoom, Constants
    <3>4. SocketsClose /\ SentTo(dest, out)
      <4> HIDE DEF dest, out
      <4> QED BY <1>3, <2>4, <3>1, PostedOne
    <3> QED BY <1>12, <2>1, <2>4, <3>3, <3>4 DEF Pairs
  <2>5. \/ Post(Nothing, {c}) /\ UNCHANGED streams
        \/ Post(Only(c, back), {}) /\ UNCHANGED streams
        \/ /\ dest # NONE
           /\ streams' = [streams EXCEPT ![r][f.stream] = [a |-> myId[c], b |-> f.dest]]
           /\ Post(Only(dest, out), {})
    BY <1>12 DEF OpenStream
  <2> QED BY <2>2, <2>3, <2>4, <2>5
<1>13. CASE f.kind \in {"DATA", "CLOSE"} /\ StreamFrame(c, f) /\ UNCHANGED throttled
  <2> DEFINE pair  == streams[r][f.stream]
             other == PeerOf(r, OtherId(pair, myId[c]))
             out   == ToClient(f.kind, 0, f.stream, c, f.body)
  <2>1. HasPart(c, f.stream) /\ f.stream # 0 /\ f.stream \in StreamId
    <3>1. HasPart(c, f.stream) /\ f.stream \in StreamId \cup {0}
      <4> HIDE DEF f
      <4> QED BY <1>2, <1>13, FrameFields DEF UpSound, OfStream
    <3> QED BY <1>3, <3>1, Opened DEF HasPart
  <2>2. UNCHANGED roomVars
    BY <1>13 DEF StreamFrame
  <2>3. CASE pair = NoPair
    <3>1. Post(Nothing, {}) /\ UNCHANGED streams
      BY <1>13, <2>1, <2>3 DEF StreamFrame
    <3>2. SocketsClose /\ down' = down
      BY <1>3, <3>1, PostedNone
    <3> QED BY <1>13, <2>2, <2>3, <3>1, <3>2 DEF Loses
  <2>4. CASE pair # NoPair
    <3>1. pair.b = 1 /\ pair.a \in Member \ {1} /\ myId[c] \in {pair.a, 1}
      BY <1>3, <2>1, <2>4, PartOfPair
    <3>2. members[r][pair.a] # NONE /\ members[r][1] # NONE
      BY <1>3, <1>7, <2>1, <2>4, <3>1 DEF RelayInv, StreamsJoinMembers
    <3>3. OtherId(pair, myId[c]) \in Member /\ OtherId(pair, myId[c]) # myId[c]
          /\ OtherId(pair, myId[c]) = IF myId[c] = 1 THEN pair.a ELSE 1
      <4> HIDE DEF pair
      <4> QED BY <3>1, Constants DEF OtherId
    <3>4. other = members[r][OtherId(pair, myId[c])] /\ other # NONE
      <4> HIDE DEF pair
      <4> QED BY <3>1, <3>2, <3>3 DEF PeerOf
    <3>5. other \in Connection /\ Present(other) /\ room[other] = r /\ myId[other] = OtherId(pair, myId[c])
      <4> HIDE DEF pair
      <4> QED BY <1>3, <1>7, <3>3, <3>4 DEF RelayInv, RelayTypeOK, MembersAreThere
    <3>6. /\ Post(Only(other, out), {})
          /\ streams' = IF f.kind = "CLOSE" THEN [streams EXCEPT ![r][f.stream] = NoPair] ELSE streams
      BY <1>13, <2>1, <2>4, <3>4 DEF StreamFrame
    <3>7. SocketsClose /\ SentTo(other, out)
      <4> HIDE DEF other, out
      <4> QED BY <1>3, <3>5, <3>6, PostedOne
    <3>8. Forwards(c, f, other)
      <4>1. other # c
        <5> HIDE DEF other, pair
        <5> QED BY <3>3, <3>5
      <4>2. (myId[c] = 1 /\ myId[other] = pair.a) \/ (myId[c] = pair.a /\ myId[other] = 1)
        <5> HIDE DEF other, pair
        <5> QED BY <3>1, <3>3, <3>5
      <4> HIDE DEF other
      <4> QED BY <1>13, <2>4, <3>5, <3>6, <3>7, <4>1, <4>2 DEF Forwards
    <3> QED BY <2>2, <3>5, <3>7, <3>8
  <2> QED BY <2>3, <2>4
<1>14. CASE f.kind \in {"PUBLISH", "UNLIST"} /\ Publish(c, f) /\ UNCHANGED throttled
  BY <1>14 DEF Publish, Passes, SocketsClose, OfStream
<1>15. Receive(c, f) => \/ f.kind = "DGRAM" /\ Dgram(c, f)
                        \/ f.kind = "OPEN" /\ OpenStream(c, f)
                        \/ f.kind \in {"DATA", "CLOSE"} /\ StreamFrame(c, f)
                        \/ f.kind \in {"PUBLISH", "UNLIST"} /\ Publish(c, f)
  BY <1>6, <1>8 DEF Receive
<1> QED BY <1>4, <1>10, <1>11, <1>12, <1>13, <1>14, <1>15

-----------------------------------------------------------------------------
(* What the relay does with the first frame of c.                            *)

StrangerFrame(c) ==
  /\ Present(c) /\ up' = [up EXCEPT ![c] = << >>]
  /\ UNCHANGED <<pageVars, streams, closed, hungUp>> /\ SocketsClose /\ throttled' \in {throttled, throttled \cup {c}}
  /\ \A x \in Connection \ {c} : room'[x] = room[x] /\ myId'[x] = myId[x]
  /\ \/ /\ UNCHANGED <<room, myId>>
        /\ down' = down \/ \E code : SentTo(c, ToClient("ERROR", code, 0, NONE, NONE))
     \/ /\ room'[c] \in Connection \ closed /\ myId'[c] \in Member
        /\ members[room'[c]][myId'[c]] = NONE
        /\ SentTo(c, ToClient("WELCOME", myId'[c], 0, NONE, NONE))

LEMMA StrangerReceives ==
  ASSUME NetInv, NEW c \in Connection, room[c] = NONE, RelayReceives(c)
  PROVE  StrangerFrame(c)
<1> DEFINE f == Head(up[c])
<1>1. up[c] # << >> /\ up' = [up EXCEPT ![c] = Tail(@)] /\ UNCHANGED pageVars
  BY DEF RelayReceives
<1>2. up[c] \in Seq(UpFrame) /\ f \in UpFrame
  BY <1>1, FirstFrame
<1>3. RelayInv /\ RelayTypeOK
  BY DEF NetInv, RelayInv
<1>4. up' = [up EXCEPT ![c] = << >>]
  <2>1. Len(up[c]) <= 1
    BY DEF NetInv, UpsSound
  <2>2. Tail(up[c]) = << >>
    BY <1>1, <1>2, <2>1
  <2> QED BY <1>1, <2>2
<1>5. CASE Throttle(c) /\ throttled' = throttled \cup {c}
  <2>1. SocketsClose /\ down' = down
    BY <1>3, <1>5, PostedNone DEF Throttle
  <2> QED BY <1>1, <1>4, <1>5, <2>1 DEF Throttle, roomVars, StrangerFrame
<1>6. ASSUME NEW code, SendError(c, code), UNCHANGED <<roomVars, streams, hungUp, throttled>>, Present(c)
      PROVE  StrangerFrame(c)
  <2> DEFINE h == ToClient("ERROR", code, 0, NONE, NONE)
  <2>1. Post(Only(c, h), {c})
    BY <1>6 DEF SendError
  <2>2. SocketsClose /\ SentTo(c, h)
    <3> HIDE DEF h
    <3> QED BY <1>3, <2>1, PostedOne
  <2> QED BY <1>1, <1>4, <1>6, <2>2 DEF roomVars, StrangerFrame
<1>7. ASSUME NEW r \in Connection \ closed, NEW code, FreeIds(r) # {}, Join(c, r, code), Present(c),
             UNCHANGED <<streams, closed, hungUp, throttled>>
      PROVE  StrangerFrame(c)
  <2> DEFINE i == FreeId(r)
             h == ToClient("WELCOME", i, 0, NONE, NONE)
  <2>1. i \in Member /\ members[r][i] = NONE
    BY <1>3, <1>7, FreeIdIsFree
  <2>2. /\ room' = [room EXCEPT ![c] = r] /\ myId' = [myId EXCEPT ![c] = i]
        /\ Post(Only(c, h), {})
    BY <1>7 DEF Join
  <2>3. SocketsClose /\ SentTo(c, h)
    <3> HIDE DEF h
    <3> QED BY <1>3, <2>2, PostedOne
  <2>4. room'[c] = r /\ myId'[c] = i /\ \A x \in Connection \ {c} : room'[x] = room[x] /\ myId'[x] = myId[x]
    BY <1>3, <2>2 DEF RelayTypeOK
  <2> HIDE DEF i
  <2> QED BY <1>1, <1>4, <1>7, <2>1, <2>3, <2>4 DEF StrangerFrame
<1>8. CASE Receive(c, f) /\ UNCHANGED throttled
  <2>1. Present(c) /\ UNCHANGED hungUp
    BY <1>8 DEF Receive
  <2>2. CASE BadFrame(c)
    BY <1>6, <1>8, <2>1, <2>2 DEF BadFrame
  <2>3. CASE CreateRoom(c, f)
    <3>1. PICK code : Join(c, c, code)
      BY <2>3 DEF CreateRoom
    <3>2. \A i \in Member : members[c][i] = NONE
      <4> SUFFICES ASSUME NEW i \in Member, members[c][i] # NONE PROVE FALSE
        OBVIOUS
      <4>1. members[c][i] \in Connection /\ room[members[c][i]] = c
        BY <1>3 DEF RelayInv, RelayTypeOK, MembersAreThere
      <4>2. codeOf[c] # NONE
        BY <4>1, Constants, <1>3 DEF RelayInv, HandlersAgree
      <4> QED BY <4>2, Constants, <1>3 DEF RelayInv, HandlersAgree
    <3>3. FreeIds(c) # {}
      BY <3>2, Constants DEF FreeIds
    <3>4. c \notin closed
      BY <1>3, Constants DEF RelayInv, HandlersAgree
    <3> QED BY <1>7, <1>8, <2>1, <2>3, <3>1, <3>3, <3>4 DEF CreateRoom
  <2>4. CASE JoinRoom(c, f)
    <3>1. f.code \in OpenRooms /\ rooms[f.code] \notin closed /\ FreeIds(rooms[f.code]) # {} /\ Join(c, rooms[f.code], f.code)
      BY <2>4 DEF JoinRoom
    <3>2. rooms[f.code] \in Connection
      BY <1>3, <3>1 DEF RelayTypeOK, OpenRooms
    <3> QED BY <1>7, <1>8, <2>1, <2>4, <3>1, <3>2 DEF JoinRoom
  <2>5. CASE TurnAway(c, f)
    <3>1. \E code : SendError(c, code)
      BY <2>5 DEF TurnAway
    <3> QED BY <1>6, <1>8, <2>1, <2>5, <3>1 DEF TurnAway
  <2> QED BY <1>8, <2>2, <2>3, <2>4, <2>5 DEF Receive, Hello, Acceptable
<1> QED BY <1>5, <1>8 DEF RelayReceives

-----------------------------------------------------------------------------
(* What becomes of a room when c leaves it, and the timers.                  *)

Told(c, x) ==
  /\ x # c /\ room[c] # NONE /\ room[x] = room[c] /\ socket[x] = "open" /\ x \notin hungUp
  /\ down'[x] = Append(down[x], ToClient("PEER_LEFT", myId[c], 0, NONE, NONE))

Leaves(c) ==
  /\ Present(c) /\ socket'[c] = "closed" /\ up' = [up EXCEPT ![c] = << >>]
  /\ UNCHANGED <<pageVars, throttled, room, myId, hungUp>>
  /\ \A x \in Connection \ {c} : socket'[x] = socket[x] \/ (socket[x] = "open" /\ socket'[x] = "closing")
  /\ \A x \in Connection : down'[x] = down[x] \/ Told(c, x)
  /\ IF room[c] = NONE THEN UNCHANGED <<streams, closed>>
     ELSE /\ streams' = [streams EXCEPT ![room[c]] = StreamsWithout(room[c], myId[c])]
          /\ closed' = IF myId[c] = 1 THEN closed \cup {room[c]} ELSE closed
          /\ \A x \in Connection \ {c} :
               room[x] = room[c] /\ Present(x) /\ room[c] \notin closed /\ x \notin hungUp =>
                 Told(c, x) \/ socket'[x] # "open"
          /\ myId[c] = 1 => \A x \in Connection : room[x] = room[c] => socket'[x] # "open"

LEMMA MemberLeaves ==
  ASSUME NetInv, NEW c \in Connection, RelayNotices(c)
  PROVE  Leaves(c)
<1> DEFINE r    == room[c]
           out  == ToClient("PEER_LEFT", myId[c], 0, NONE, NONE)
           gone == [x \in MembersOf(r) \ {c} |-> out]
<1>1. RelayInv /\ RelayTypeOK
  BY DEF NetInv, RelayInv
<1>2. Present(c) /\ UNCHANGED <<pageVars, throttled, room, myId, hungUp>> /\ up' = [up EXCEPT ![c] = << >>]
  BY DEF RelayNotices, SocketCloses, Present, roomVars
<1>3. CASE r = NONE
  <2>1. socket' = [socket EXCEPT ![c] = "closed"] /\ UNCHANGED <<down, streams, closed>>
    BY <1>3 DEF RelayNotices, SocketCloses, roomVars
  <2>2. /\ socket'[c] = "closed"
        /\ \A x \in Connection \ {c} : socket'[x] = socket[x]
    BY <1>1, <2>1 DEF RelayTypeOK
  <2> QED BY <1>2, <1>3, <2>1, <2>2 DEF Leaves
<1>4. CASE r # NONE
  <2>1. r \in Connection /\ myId[c] \in Member /\ members[r][myId[c]] = c
    BY <1>1, <1>2, <1>4, MembersFound
  <2>2. streams' = [streams EXCEPT ![r] = StreamsWithout(r, myId[c])]
    BY <1>4 DEF RelayNotices, SocketCloses
  <2>3. CASE r \in closed
    <3>1. socket' = [socket EXCEPT ![c] = "closed"] /\ UNCHANGED <<down, closed>>
      BY <1>4, <2>3 DEF RelayNotices, SocketCloses
    <3>2. /\ socket'[c] = "closed"
          /\ \A x \in Connection \ {c} : socket'[x] = socket[x]
      BY <1>1, <3>1 DEF RelayTypeOK
    <3>3. myId[c] # 1
      BY <1>1, <2>1, <2>3, Constants DEF RelayInv, RoomsHaveTheirCreator
    <3> QED BY <1>2, <1>4, <2>2, <2>3, <3>1, <3>2, <3>3 DEF Leaves
  <2>4. CASE r \notin closed
    <3>1. /\ down' = DownAfter(gone)
          /\ socket' = [SocketsAfter(gone, ThrownOut(c)) EXCEPT ![c] = "closed"]
          /\ closed' = IF myId[c] = 1 THEN closed \cup {r} ELSE closed
      BY <1>4, <2>4 DEF RelayNotices, SocketCloses
    <3>2. DOMAIN gone = MembersOf(r) \ {c} /\ \A x \in MembersOf(r) \ {c} : gone[x] = out
      OBVIOUS
    <3>3. \A x \in MembersOf(r) : x \in Connection /\ room[x] = r
      BY <1>1, <2>1 DEF MembersOf, RelayTypeOK, RelayInv, MembersAreThere
    <3>4. \A x \in Connection : Present(x) /\ room[x] = r => x \in MembersOf(r)
      BY <1>1, <2>1, <1>4, MembersFound, Constants DEF MembersOf
    <3> HIDE DEF gone
    <3>5. /\ socket'[c] = "closed"
          /\ \A x \in Connection \ {c} : socket'[x] = SocketsAfter(gone, ThrownOut(c))[x]
      BY <3>1 DEF SocketsAfter
    <3>6. \A x \in Connection \ {c} : socket'[x] = socket[x] \/ (socket[x] = "open" /\ socket'[x] = "closing")
      BY <3>5 DEF SocketsAfter
    <3>7. \A x \in Connection : down'[x] = down[x] \/ Told(c, x)
      BY <1>4, <3>1, <3>2, <3>3 DEF DownAfter, Told
    <3>8. ASSUME NEW x \in Connection \ {c}, room[x] = r, Present(x), x \notin hungUp, socket'[x] = "open"
          PROVE  Told(c, x)
      <4>1. socket[x] = "open"
        BY <3>6, <3>8
      <4>2. x \in DOMAIN gone
        BY <3>2, <3>4, <3>8
      <4>3. Fits(x)
        BY <3>5, <3>8, <4>1, <4>2 DEF SocketsAfter
      <4>4. down'[x] = Append(down[x], out)
        BY <3>1, <3>2, <3>8, <4>1, <4>2, <4>3 DEF DownAfter
      <4> QED BY <1>4, <3>8, <4>1, <4>4 DEF Told
    <3>9. ASSUME myId[c] = 1, NEW x \in Connection, room[x] = r
          PROVE  socket'[x] # "open"
      <4>1. CASE x = c
        BY <3>5, <4>1
      <4>2. CASE x # c /\ socket[x] = "open"
        <5>1. x \in ThrownOut(c)
          BY <3>4, <3>9, <4>2 DEF ThrownOut, Present
        <5> QED BY <3>5, <4>2, <5>1 DEF SocketsAfter
      <4>3. CASE x # c /\ socket[x] # "open"
        BY <3>6, <4>3
      <4> QED BY <4>1, <4>2, <4>3
    <3> QED BY <1>2, <1>4, <2>2, <3>1, <3>5, <3>6, <3>7, <3>8, <3>9 DEF Leaves
  <2> QED BY <2>3, <2>4
<1> QED BY <1>3, <1>4

LEMMA TimersClose ==
  ASSUME RelayTypeOK, RelayTimers
  PROVE  SocketsClose /\ UNCHANGED <<roomVars, streams, down, hungUp, pageVars, up, throttled>>
<1>1. CASE Shutdown
  BY <1>1, PostedNone DEF RelayTimers, Shutdown
<1>2. ASSUME NEW c \in Connection, HelloTimeout(c) PROVE SocketsClose /\ UNCHANGED <<roomVars, streams, down, hungUp>>
  BY <1>2, PostedNone DEF HelloTimeout
<1>3. ASSUME NEW c \in Connection, HeartbeatTimeout(c) PROVE SocketsClose /\ UNCHANGED <<roomVars, streams, down, hungUp>>
  BY <1>3, PostedNone DEF HeartbeatTimeout
<1>4. hungUp \cup MayAnswerLate \subseteq Connection
  BY PageConstants DEF RelayTypeOK
<1> QED BY <1>1, <1>2, <1>3, <1>4 DEF RelayTimers

-----------------------------------------------------------------------------
(* The parts of the invariant.                                               *)

\* Nothing new on the wire.
UpShrinks(x) == up'[x] = up[x] \/ (up[x] # << >> /\ up'[x] = Tail(up[x])) \/ up'[x] = << >>
DownShrinks(x) == down'[x] = down[x] \/ (down[x] # << >> /\ down'[x] = Tail(down[x])) \/ down'[x] = << >>

LEMMA LessOfIt ==
  ASSUME NEW T, NEW wire \in Seq(T), NEW w, w = wire \/ (wire # << >> /\ w = Tail(wire)) \/ w = << >>
  PROVE  /\ w \in Seq(T) /\ Len(w) <= Len(wire)
         /\ \A k \in DOMAIN w : \E j \in DOMAIN wire : w[k] = wire[j]
         /\ \A s : OpenOnce(wire, s) => OpenOnce(w, s)
         /\ \A kinds, s : Underway(w, kinds, s) => Underway(wire, kinds, s)
<1>1. CASE w = wire
  BY <1>1
<1>2. CASE w = << >>
  BY <1>2 DEF OpenOnce, Underway
<1>3. CASE wire # << >> /\ w = Tail(wire)
  <2>1. w \in Seq(T) /\ Len(w) <= Len(wire)
    BY <1>3
  <2>2. \A k \in DOMAIN w : k \in Nat \ {0} /\ k + 1 \in DOMAIN wire /\ w[k] = wire[k + 1]
    BY <1>3, Taken
  <2>3. \A k \in DOMAIN w : \E j \in DOMAIN wire : w[k] = wire[j]
    BY <2>2
  <2>4. ASSUME NEW s, OpenOnce(wire, s) PROVE OpenOnce(w, s)
    BY <2>2, <2>4 DEF OpenOnce
  <2>5. ASSUME NEW kinds, NEW s, Underway(w, kinds, s) PROVE Underway(wire, kinds, s)
    BY <2>2, <2>5 DEF Underway
  <2> QED BY <2>1, <2>3, <2>4, <2>5
<1> QED BY <1>1, <1>2, <1>3

LEMMA UpLess ==
  ASSUME NEW x, up[x] \in Seq(UpFrame), UpShrinks(x)
  PROVE  /\ up'[x] \in Seq(UpFrame) /\ Len(up'[x]) <= Len(up[x])
         /\ \A k \in DOMAIN up'[x] : \E j \in DOMAIN up[x] : up'[x][k] = up[x][j]
         /\ \A s : OpenOnce(up[x], s) => OpenOnce(up'[x], s)
         /\ \A kinds, s : Underway(up'[x], kinds, s) => Underway(up[x], kinds, s)
<1> DEFINE wire == up[x]
           w    == up'[x]
<1>1. w = wire \/ (wire # << >> /\ w = Tail(wire)) \/ w = << >>
  BY DEF UpShrinks
<1>2. wire \in Seq(UpFrame)
  OBVIOUS
<1> HIDE DEF w, wire
<1>3. /\ w \in Seq(UpFrame) /\ Len(w) <= Len(wire)
      /\ \A k \in DOMAIN w : \E j \in DOMAIN wire : w[k] = wire[j]
      /\ \A s : OpenOnce(wire, s) => OpenOnce(w, s)
      /\ \A kinds, s : Underway(w, kinds, s) => Underway(wire, kinds, s)
  BY <1>1, <1>2, LessOfIt
<1> QED BY <1>3 DEF w, wire

LEMMA DownLess ==
  ASSUME NEW x, down[x] \in Seq(DownFrame), DownShrinks(x)
  PROVE  \A k \in DOMAIN down'[x] : \E j \in DOMAIN down[x] : down'[x][k] = down[x][j]
<1> DEFINE wire == down[x]
           w    == down'[x]
<1>1. w = wire \/ (wire # << >> /\ w = Tail(wire)) \/ w = << >>
  BY DEF DownShrinks
<1>2. wire \in Seq(DownFrame)
  OBVIOUS
<1> HIDE DEF w, wire
<1>3. /\ w \in Seq(DownFrame) /\ Len(w) <= Len(wire)
      /\ \A k \in DOMAIN w : \E j \in DOMAIN wire : w[k] = wire[j]
      /\ \A s : OpenOnce(wire, s) => OpenOnce(w, s)
      /\ \A kinds, s : Underway(w, kinds, s) => Underway(wire, kinds, s)
  BY <1>1, <1>2, LessOfIt
<1> QED BY <1>3 DEF w, wire

LEMMA UpsKeep ==
  ASSUME NetInv, Settled,
         \A x \in Connection :
           UpShrinks(x) \/ \E f \in UpFrame : /\ up'[x] = Append(up[x], f) /\ UpSound(x, f)
                                              /\ room[x] # NONE \/ up[x] = << >>,
         \A x \in Connection : room'[x] = room[x] \/ up'[x] = << >>
  PROVE  UpsSound' /\ \A x \in Connection : up'[x] \in Seq(UpFrame)
<1> SUFFICES ASSUME NEW x \in Connection
             PROVE  /\ \A k \in DOMAIN up'[x] : UpSound(x, up[x][k])'
                    /\ room'[x] = NONE => Len(up'[x]) <= 1
                    /\ up'[x] \in Seq(UpFrame)
  BY DEF UpsSound
<1>1. RelayInv /\ up[x] \in Seq(UpFrame) /\ UpsSound
  BY DEF NetInv, PageTypes
<1>2. room[x] # NONE => room'[x] # NONE
  BY DEF Settled
<1>3. \A f : UpSound(x, f) /\ room'[x] = room[x] => UpSound(x, f)'
  BY <1>1, SettledKeeps
<1>4. CASE UpShrinks(x)
  <2>1. /\ up'[x] \in Seq(UpFrame) /\ Len(up'[x]) <= Len(up[x])
        /\ \A k \in DOMAIN up'[x] : \E j \in DOMAIN up[x] : up'[x][k] = up[x][j]
    BY <1>1, <1>4, UpLess
  <2>2. \A k \in DOMAIN up'[x] : UpSound(x, up'[x][k])
    BY <1>1, <2>1 DEF UpsSound
  <2>3. up'[x] = << >> => DOMAIN up'[x] = {}
    OBVIOUS
  <2>4. \A k \in DOMAIN up'[x] : UpSound(x, up[x][k])'
    <3> SUFFICES ASSUME NEW k \in DOMAIN up'[x] PROVE UpSound(x, up[x][k])'
      OBVIOUS
    <3>1. room'[x] = room[x]
      BY <2>3
    <3>2. UpSound(x, up'[x][k])
      BY <2>2
    <3>3. \A f : f = up'[x][k] => UpSound(x, f)'
      BY <1>3, <3>1, <3>2
    <3> QED BY <3>3 DEF UpSound
  <2>5. room'[x] = NONE => Len(up'[x]) <= 1
    BY <1>1, <1>2, <2>1 DEF UpsSound
  <2> QED BY <2>1, <2>4, <2>5
<1>5. CASE \E f \in UpFrame : up'[x] = Append(up[x], f) /\ UpSound(x, f) /\ (room[x] # NONE \/ up[x] = << >>)
  <2>1. PICK f \in UpFrame : up'[x] = Append(up[x], f) /\ UpSound(x, f) /\ (room[x] # NONE \/ up[x] = << >>)
    BY <1>5
  <2>2. up'[x] \in Seq(UpFrame) /\ up'[x] # << >> /\ (up[x] = << >> => Len(up'[x]) = 1)
    BY <1>1, <2>1
  <2>3. /\ DOMAIN up'[x] = DOMAIN up[x] \cup {Len(up[x]) + 1}
        /\ \A k \in DOMAIN up[x] : up'[x][k] = up[x][k]
        /\ up'[x][Len(up[x]) + 1] = f
    BY <1>1, <2>1, Appended
  <2>4. \A k \in DOMAIN up'[x] : UpSound(x, up'[x][k])
    BY <1>1, <2>1, <2>3 DEF UpsSound
  <2>5. \A k \in DOMAIN up'[x] : UpSound(x, up[x][k])'
    <3> SUFFICES ASSUME NEW k \in DOMAIN up'[x] PROVE UpSound(x, up[x][k])'
      OBVIOUS
    <3>1. room'[x] = room[x]
      BY <2>2
    <3>2. UpSound(x, up'[x][k])
      BY <2>4
    <3>3. \A e : e = up'[x][k] => UpSound(x, e)'
      BY <1>3, <3>1, <3>2
    <3> QED BY <3>3 DEF UpSound
  <2> QED BY <1>2, <2>1, <2>2, <2>5
<1> QED BY <1>4, <1>5

LEMMA DownsKeep ==
  ASSUME NetInv, Settled,
         \A x \in Connection : DownShrinks(x) \/ \E h : down'[x] = Append(down[x], h) /\ DownSound(x, h)'
  PROVE  DownsSound'
<1> SUFFICES ASSUME NEW x \in Connection, NEW k \in DOMAIN down'[x]
             PROVE  DownSound(x, down[x][k])'
  BY DEF DownsSound
<1>1. RelayInv /\ down[x] \in Seq(DownFrame)
  BY DEF NetInv, RelayInv, RelayTypeOK
<1>2. \A j \in DOMAIN down[x] : DownSound(x, down[x][j])
  BY DEF NetInv, DownsSound
<1>3. \A f : DownSound(x, f) => DownSound(x, f)'
  BY <1>1, SettledKeeps
<1>4. \A j \in DOMAIN down[x] : \A f : f = down[x][j] => DownSound(x, f)'
  BY <1>2, <1>3
<1>5. CASE DownShrinks(x)
  <2>1. \E j \in DOMAIN down[x] : down'[x][k] = down[x][j]
    BY <1>1, <1>5, DownLess
  <2>2. \A f : f = down'[x][k] => DownSound(x, f)'
    BY <1>4, <2>1
  <2> QED BY <2>2 DEF DownSound
<1>6. CASE \E h : down'[x] = Append(down[x], h) /\ DownSound(x, h)'
  <2>1. PICK h : down'[x] = Append(down[x], h) /\ DownSound(x, h)'
    BY <1>6
  <2>2. down'[x][k] = h \/ (k \in DOMAIN down[x] /\ down'[x][k] = down[x][k])
    BY <1>1, <2>1, Appended
  <2>3. \A f : f = down'[x][k] => DownSound(x, f)'
    BY <1>4, <2>1, <2>2
  <2> QED BY <2>3 DEF DownSound
<1> QED BY <1>5, <1>6

LEMMA EntriesKeep ==
  ASSUME NetInv, Settled,
         \A c \in Connection, s \in StreamId : entry'[c][s] # NoEntry =>
           /\ page'[c] = "ready"
           /\ \/ /\ entry[c][s] # NoEntry
                 /\ entry'[c][s].opener = entry[c][s].opener /\ entry'[c][s].peer = entry[c][s].peer
              \/ Opens(c, s) /\ entry'[c][s].opener = c /\ entry'[c][s].peer = 1
              \/ \E o \in Connection : /\ Opens(o, s) /\ room[o] = c
                                       /\ entry'[c][s].opener = o /\ entry'[c][s].peer = myId[o]
  PROVE  EntriesSound'
<1> SUFFICES ASSUME NEW c \in Connection, NEW s \in StreamId, entry'[c][s] # NoEntry
             PROVE  /\ page'[c] = "ready"
                    /\ \E o \in Connection : /\ Opens(o, s)' /\ entry'[c][s].opener = o
                                             /\ \/ c = o /\ entry'[c][s].peer = 1
                                                \/ c = room'[o] /\ entry'[c][s].peer = myId'[o]
  BY DEF EntriesSound
<1>1. RelayInv /\ EntriesSound
  BY DEF NetInv
<1>2. \A o \in Connection : Opens(o, s) => Opens(o, s)' /\ room'[o] = room[o] /\ myId'[o] = myId[o]
  BY <1>1, SettledKeeps DEF Opens, Settled
<1>3. \E o \in Connection : /\ Opens(o, s) /\ entry'[c][s].opener = o
                            /\ \/ c = o /\ entry'[c][s].peer = 1
                               \/ c = room[o] /\ entry'[c][s].peer = myId[o]
  BY <1>1 DEF EntriesSound
<1>4. page'[c] = "ready"
  OBVIOUS
<1> QED BY <1>2, <1>3, <1>4

\* Steps in which no stream is opened.
LEMMA OpensKeep ==
  ASSUME NetInv,
         \A x \in Connection : room[x] # NONE => (Present(x)' => Present(x)),
         \A x \in Connection : room'[x] = room[x] /\ myId'[x] = myId[x],
         \A x \in Connection : page'[x] = "over" \/ (page[x] # "over" /\ nextSeq'[x] = nextSeq[x]),
         \A x \in Connection : UpShrinks(x) \/ \E f : /\ up'[x] = Append(up[x], f) /\ f.kind # "OPEN"
                                                      /\ f.kind \in OfStream => entry[x][f.stream] # NoEntry,
         \A x \in Connection, s \in StreamId : entry'[x][s] = NoEntry \/ entry[x][s] # NoEntry \/ ~Opens(x, s),
         \A r \in Connection, s \in StreamId : streams'[r][s] \in {NoPair, streams[r][s]}
  PROVE  OpensAreNew'
<1> SUFFICES ASSUME NEW o \in Connection, NEW s \in StreamId, Opens(o, s)'
             PROVE  /\ OpenOnce(up'[o], s)
                    /\ page'[o] # "over" /\ NotYet(o, s)' => ~Underway(up'[o], OfStream, s) /\ entry'[o][s] = NoEntry
                    /\ Present(o)' /\ (Underway(up'[o], {"OPEN"}, s) \/ (page'[o] # "over" /\ NotYet(o, s)')) =>
                         streams'[room'[o]][s] = NoPair
  BY DEF OpensAreNew
<1>1. RelayInv /\ OpensAreNew /\ up[o] \in Seq(UpFrame)
  BY DEF NetInv, PageTypes
<1>2. room'[o] = room[o] /\ Opens(o, s)
  BY DEF Opens
<1>3. room[o] \in Connection /\ room[o] # NONE
  BY <1>1, <1>2, Opened
<1>4. page'[o] # "over" /\ NotYet(o, s)' => page[o] # "over" /\ NotYet(o, s)
  BY DEF NotYet
<1>5. OpenOnce(up[o], s)
  BY <1>1, <1>2 DEF OpensAreNew
<1>6. /\ OpenOnce(up'[o], s)
      /\ Underway(up'[o], {"OPEN"}, s) => Underway(up[o], {"OPEN"}, s)
      /\ Underway(up'[o], OfStream, s) => Underway(up[o], OfStream, s) \/ entry[o][s] # NoEntry
  <2>1. CASE UpShrinks(o)
    BY <1>1, <1>5, <2>1, UpLess
  <2>2. CASE \E f : up'[o] = Append(up[o], f) /\ f.kind # "OPEN" /\ (f.kind \in OfStream => entry[o][f.stream] # NoEntry)
    <3>1. PICK f : up'[o] = Append(up[o], f) /\ f.kind # "OPEN" /\ (f.kind \in OfStream => entry[o][f.stream] # NoEntry)
      BY <2>2
    <3>2. /\ DOMAIN up'[o] = DOMAIN up[o] \cup {Len(up[o]) + 1}
          /\ \A k \in DOMAIN up[o] : up'[o][k] = up[o][k]
          /\ up'[o][Len(up[o]) + 1] = f
      BY <1>1, <3>1, Appended
    <3>3. OpenOnce(up'[o], s)
      BY <1>5, <3>1, <3>2 DEF OpenOnce
    <3>4. \A kinds : Underway(up'[o], kinds, s) <=> Underway(up[o], kinds, s) \/ (f.kind \in kinds /\ f.stream = s)
      BY <1>1, <3>1, UnderwaySent
    <3> QED BY <3>1, <3>3, <3>4
  <2> QED BY <2>1, <2>2
<1>7. page'[o] # "over" /\ NotYet(o, s)' => ~Underway(up'[o], OfStream, s) /\ entry'[o][s] = NoEntry
  BY <1>1, <1>2, <1>4, <1>6 DEF OpensAreNew
<1>8. Present(o)' /\ (Underway(up'[o], {"OPEN"}, s) \/ (page'[o] # "over" /\ NotYet(o, s)')) =>
        streams'[room'[o]][s] = NoPair
  BY <1>1, <1>2, <1>3, <1>4, <1>6 DEF OpensAreNew
<1> QED BY <1>6, <1>7, <1>8

LEMMA AnswersKeep ==
  ASSUME NetInv,
         \A x \in Connection :
           \/ page'[x] # "connecting"
           \/ /\ page[x] = "connecting"
              /\ socket[x] # "open" => socket'[x] # "open"
              /\ \/ down'[x] = down[x] /\ (room'[x] = room[x] \/ socket'[x] # "open")
                 \/ \E h : /\ down'[x] = Append(down[x], h)
                           /\ h.kind \in {"WELCOME", "ERROR"} \/ (room[x] # NONE /\ socket[x] = "open")
  PROVE  FirstAnswers'
<1> SUFFICES ASSUME NEW x \in Connection, page'[x] = "connecting"
             PROVE  IF down'[x] = << >> THEN room'[x] = NONE \/ socket'[x] # "open"
                    ELSE down'[x][1].kind \in {"WELCOME", "ERROR"}
  BY DEF FirstAnswers
<1>1. down[x] \in Seq(DownFrame)
  BY DEF NetInv, RelayInv, RelayTypeOK
<1>2. page[x] = "connecting" /\ (socket[x] # "open" => socket'[x] # "open")
  OBVIOUS
<1>3. IF down[x] = << >> THEN room[x] = NONE \/ socket[x] # "open" ELSE down[x][1].kind \in {"WELCOME", "ERROR"}
  BY <1>2 DEF NetInv, FirstAnswers
<1>4. CASE down'[x] = down[x] /\ (room'[x] = room[x] \/ socket'[x] # "open")
  BY <1>2, <1>3, <1>4
<1>5. CASE \E h : down'[x] = Append(down[x], h) /\ (h.kind \in {"WELCOME", "ERROR"} \/ (room[x] # NONE /\ socket[x] = "open"))
  <2>1. PICK h : down'[x] = Append(down[x], h) /\ (h.kind \in {"WELCOME", "ERROR"} \/ (room[x] # NONE /\ socket[x] = "open"))
    BY <1>5
  <2>2. CASE down[x] = << >>
    <3>1. down'[x] # << >> /\ down'[x][1] = h
      BY <2>1, <2>2
    <3> QED BY <1>3, <2>1, <2>2, <3>1
  <2>3. CASE down[x] # << >>
    <3>1. down'[x] # << >> /\ down'[x][1] = down[x][1]
      BY <1>1, <2>1, <2>3
    <3> QED BY <1>3, <2>3, <3>1
  <2> QED BY <2>2, <2>3
<1> QED BY <1>2, <1>4, <1>5

LEMMA PagesKeep ==
  ASSUME NetInv, Settled, UNCHANGED <<pageVars, hungUp>>,
         \A x \in Connection : socket'[x] = "none" <=> socket[x] = "none",
         \A x \in Connection : up'[x] = up[x] \/ up[x] # << >>,
         \A x \in Connection : down'[x] = down[x] \/ (socket[x] = "open" /\ x \notin hungUp)
  PROVE  PagesAgree'
<1> SUFFICES ASSUME NEW c \in Connection
             PROVE  /\ c \in hungUp <=> page[c] = "over"
                    /\ page[c] = "none" <=> socket'[c] = "none"
                    /\ page[c] = "none" => up'[c] = << >>
                    /\ page[c] \in {"none", "over"} => down'[c] = << >>
                    /\ page[c] = "ready" => room'[c] # NONE /\ memberId[c] = myId'[c]
                    /\ nextSeq[c] + callsLeft[c] <= MaxCalls[c] + 1
  BY DEF PagesAgree, pageVars
<1>1. PagesAgree
  BY DEF NetInv
<1>2. page[c] = "ready" => room'[c] # NONE /\ memberId[c] = myId'[c]
  BY <1>1 DEF PagesAgree, Settled
<1>3. page[c] \in {"none", "over"} => down'[c] = << >>
  BY <1>1 DEF PagesAgree
<1>4. page[c] = "none" => up'[c] = << >>
  BY <1>1 DEF PagesAgree
<1> QED BY <1>1, <1>2, <1>3, <1>4 DEF PagesAgree

\* Whoever gets something from the frame of a member is in his room, and it is sound.
LEMMA MemberSends ==
  ASSUME NetInv, NEW c \in Connection, room[c] # NONE, NEW f, MemberFrame(c, f), NEW x \in Connection
  PROVE  \/ down'[x] = down[x]
         \/ \E h : /\ down'[x] = Append(down[x], h) /\ socket[x] = "open" /\ x \notin hungUp
                   /\ room[x] = room[c] /\ DownSound(x, h)
<1>1. RelayInv /\ PairsSound /\ f \in UpFrame /\ UpSound(c, f)
  BY DEF NetInv, MemberFrame
<1>2. room[c] \in Connection /\ room[room[c]] = room[c]
  BY <1>1, CreatorsRoom
<1>3. CASE Passes(c, f)
  <2>1. CASE down' = down
    BY <2>1
  <2>2. CASE \E d \in Connection : room[d] = room[c] /\ SentTo(d, ToClient("DGRAM", myId[c], 0, c, f.body))
    <3>1. PICK d \in Connection : room[d] = room[c] /\ SentTo(d, ToClient("DGRAM", myId[c], 0, c, f.body))
      BY <2>2
    <3>2. DownSound(d, ToClient("DGRAM", myId[c], 0, c, f.body))
      BY <3>1 DEF DownSound, ToClient, OfStream
    <3> QED BY <3>1, <3>2 DEF SentTo
  <2> QED BY <1>3, <2>1, <2>2 DEF Passes
<1>4. CASE Cuts(c) \/ Loses(c, f)
  BY <1>4 DEF Cuts, Loses
<1>5. CASE Refuses(c, f)
  <2>1. CASE down' = down
    BY <2>1
  <2>2. CASE SentTo(c, ToClient("CLOSE", 0, f.stream, NONE, NONE))
    <3>1. HasPart(c, f.stream)
      BY <1>1, <1>5 DEF Refuses, UpSound, OfStream
    <3>2. DownSound(c, ToClient("CLOSE", 0, f.stream, NONE, NONE))
      BY <3>1 DEF DownSound, ToClient, OfStream
    <3> QED BY <2>2, <3>2 DEF SentTo
  <2> QED BY <1>5, <2>1, <2>2 DEF Refuses
<1>6. CASE Pairs(c, f)
  <2>1. Opens(c, f.stream)
    BY <1>1, <1>6 DEF Pairs, UpSound
  <2>2. HasPart(room[c], f.stream)
    BY <2>1 DEF HasPart
  <2>3. DownSound(room[c], ToClient("OPEN", myId[c], f.stream, c, f.body))
    BY <1>2, <2>1, <2>2 DEF DownSound, ToClient, OfStream
  <2> QED BY <1>2, <1>6, <2>3 DEF Pairs, SentTo
<1>7. ASSUME NEW d \in Connection, Forwards(c, f, d)
      PROVE  \/ down'[x] = down[x]
             \/ \E h : /\ down'[x] = Append(down[x], h) /\ socket[x] = "open" /\ x \notin hungUp
                       /\ room[x] = room[c] /\ DownSound(x, h)
  <2>1. HasPart(c, f.stream) /\ f.stream \in StreamId
    <3>1. HasPart(c, f.stream) /\ f.stream \in StreamId \cup {0}
      BY <1>1, <1>7, FrameFields DEF Forwards, UpSound, OfStream
    <3> QED BY <1>1, <3>1, Opened DEF HasPart
  <2>2. PICK o \in Connection : Opens(o, f.stream) /\ c \in {o, room[o]}
    BY <2>1 DEF HasPart
  <2>3. room[o] = room[c] /\ myId[o] # 1
    BY <1>1, <2>2, Opened
  <2>4. streams[room[c]][f.stream].a = myId[o]
    <3>1. streams[room[o]][f.stream] # NoPair
      BY <1>7, <2>3 DEF Forwards
    <3>2. streams[room[o]][f.stream] = [a |-> myId[o], b |-> 1]
      BY <1>1, <2>1, <2>2, <3>1, PairOfStream
    <3> QED BY <2>3, <3>2
  <2>5. HasPart(d, f.stream)
    <3>1. CASE myId[d] = 1
      <4>1. d = room[o]
        BY <1>1, <1>2, <1>7, <2>3, <3>1, CreatorsRoom DEF Forwards
      <4> QED BY <2>2, <4>1 DEF HasPart
    <3>2. CASE myId[d] = myId[o]
      <4>1. room[d] # NONE /\ room[d] # d
        BY <1>1, <1>2, <1>7, <2>3, <3>2, CreatorsRoom DEF Forwards
      <4>2. Opens(d, f.stream)
        BY <2>2, <3>2, <4>1 DEF Opens
      <4> QED BY <4>2 DEF HasPart
    <3> QED BY <1>7, <2>4, <3>1, <3>2 DEF Forwards
  <2>6. room[d] = room[c] /\ f.kind # "ERROR" /\ f.kind # "WELCOME" /\ f.kind # "OPEN" /\ f.kind # "PEER_LEFT"
    BY <1>7 DEF Forwards
  <2>7. DownSound(d, ToClient(f.kind, 0, f.stream, c, f.body))
    BY <2>5, <2>6 DEF DownSound, ToClient
  <2> QED BY <1>7, <2>6, <2>7 DEF Forwards, SentTo
<1> QED BY <1>3, <1>4, <1>5, <1>6, <1>7 DEF MemberFrame

-----------------------------------------------------------------------------
(* The steps of the relay.                                                   *)

\* A pair that the relay makes is nobody's yet, and its opener opens it once.
LEMMA PairsNew ==
  ASSUME NetInv, NEW c \in Connection, room[c] # NONE, NEW f, MemberFrame(c, f), Pairs(c, f)
  PROVE  OpensAreNew'
<1> SUFFICES ASSUME NEW o \in Connection, NEW s \in StreamId, Opens(o, s)'
             PROVE  /\ OpenOnce(up'[o], s)
                    /\ page'[o] # "over" /\ NotYet(o, s)' => ~Underway(up'[o], OfStream, s) /\ entry'[o][s] = NoEntry
                    /\ Present(o)' /\ (Underway(up'[o], {"OPEN"}, s) \/ (page'[o] # "over" /\ NotYet(o, s)')) =>
                         streams'[room'[o]][s] = NoPair
  BY DEF OpensAreNew
<1>1. RelayInv /\ OpensAreNew /\ up[o] \in Seq(UpFrame) /\ up \in [Connection -> Seq(UpFrame)]
  BY DEF NetInv, PageTypes
<1>2. /\ Present(c) /\ up[c] # << >> /\ f = Head(up[c]) /\ f.kind = "OPEN" /\ Opens(c, f.stream)
      /\ up' = [up EXCEPT ![c] = Tail(@)]
      /\ UNCHANGED <<room, myId, page, nextSeq, entry>> /\ SocketsClose
  BY DEF MemberFrame, Pairs, UpSound, roomVars, pageVars
<1>3. Opens(o, s) /\ (NotYet(o, s)' <=> NotYet(o, s)) /\ room[o] \in Connection
  BY <1>1, <1>2, Opened DEF Opens, NotYet
<1>4. UpShrinks(o)
  BY <1>1, <1>2 DEF UpShrinks
<1>5. /\ OpenOnce(up[o], s) => OpenOnce(up'[o], s)
      /\ \A kinds : Underway(up'[o], kinds, s) => Underway(up[o], kinds, s)
  BY <1>1, <1>4, UpLess
<1>6. /\ OpenOnce(up'[o], s)
      /\ page'[o] # "over" /\ NotYet(o, s)' => ~Underway(up'[o], OfStream, s) /\ entry'[o][s] = NoEntry
  BY <1>1, <1>2, <1>3, <1>5 DEF OpensAreNew
<1>7. ASSUME Present(o)', Underway(up'[o], {"OPEN"}, s) \/ (page'[o] # "over" /\ NotYet(o, s)')
      PROVE  streams'[room'[o]][s] = NoPair
  <2>1. Present(o)
    BY <1>2, <1>7 DEF SocketsClose, Present
  <2>2. streams[room[o]][s] = NoPair
    BY <1>1, <1>2, <1>3, <1>5, <1>7, <2>1 DEF OpensAreNew
  <2>3. CASE room[o] # room[c] \/ s # f.stream
    <3>1. streams'[room[o]][s] = streams[room[o]][s]
      BY <1>1, <1>3, <2>3 DEF Pairs, RelayInv, RelayTypeOK
    <3> QED BY <1>2, <2>2, <3>1
  <2>4. CASE room[o] = room[c] /\ s = f.stream
    <3>1. myId[o] = myId[c]
      BY <1>1, <1>2, <1>3, <2>4, SameNumbers
    <3>2. o = c
      BY <1>1, <1>2, <2>1, <2>4, <3>1, MembersFound
    <3>3. 1 \in DOMAIN up[c] /\ up[c][1] = f
      BY <1>1, <1>2, <3>2
    <3>4. Underway(up[c], OfStream, s)
      BY <1>2, <2>4, <3>3 DEF Underway, OfStream
    <3>5. ~(page[o] # "over" /\ NotYet(o, s))
      BY <1>1, <1>3, <3>2, <3>4 DEF OpensAreNew
    <3>6. Underway(Tail(up[c]), {"OPEN"}, s)
      BY <1>1, <1>2, <1>3, <1>7, <3>2, <3>5
    <3>7. PICK k \in DOMAIN Tail(up[c]) : Tail(up[c])[k].kind = "OPEN" /\ Tail(up[c])[k].stream = s
      BY <3>6 DEF Underway
    <3>8. k \in Nat \ {0} /\ k + 1 \in DOMAIN up[c] /\ Tail(up[c])[k] = up[c][k + 1]
      BY <1>1, <1>2, Taken
    <3>9. OpenOnce(up[c], s)
      BY <1>1, <1>3, <3>2 DEF OpensAreNew
    <3>10. k + 1 = 1
      BY <1>2, <2>4, <3>3, <3>7, <3>8, <3>9 DEF OpenOnce
    <3> QED BY <3>8, <3>10
  <2> QED BY <2>3, <2>4
<1> QED BY <1>6, <1>7

LEMMA MemberKeeps ==
  ASSUME NetInv, RelayInv', NEW c \in Connection, room[c] # NONE, NEW f, MemberFrame(c, f)
  PROVE  NetInv'
<1>1. /\ Present(c) /\ up[c] # << >> /\ f = Head(up[c]) /\ f \in UpFrame /\ UpSound(c, f)
      /\ up' = [up EXCEPT ![c] = Tail(@)]
      /\ UNCHANGED <<room, myId, closed, hungUp, page, memberId, entry, nextSeq, callsLeft>> /\ SocketsClose
  BY DEF MemberFrame, roomVars, pageVars
<1>2. RelayInv /\ PageTypes /\ RelayTypeOK
  BY DEF NetInv, RelayInv
<1>3. Settled
  BY <1>1 DEF Settled, SocketsClose
<1>4. \A x \in Connection : UpShrinks(x)
  BY <1>1, <1>2 DEF UpShrinks, PageTypes
<1>5. \A x \in Connection : \/ down'[x] = down[x]
                            \/ \E h : /\ down'[x] = Append(down[x], h) /\ socket[x] = "open" /\ x \notin hungUp
                                      /\ room[x] = room[c] /\ DownSound(x, h)
  BY MemberSends
<1>6. UpsSound' /\ \A x \in Connection : up'[x] \in Seq(UpFrame)
  BY <1>1, <1>3, <1>4, UpsKeep
<1>7. PageTypes'
  <2>1. throttled' \subseteq Connection
    BY <1>2 DEF MemberFrame, Passes, Cuts, Refuses, Pairs, Loses, Forwards, PageTypes
  <2> QED BY <1>1, <1>2, <1>6, <2>1 DEF PageTypes
<1>8. PagesAgree'
  <2>1. UNCHANGED <<pageVars, hungUp>>
    BY <1>1 DEF pageVars
  <2>2. \A x \in Connection : socket'[x] = "none" <=> socket[x] = "none"
    BY <1>1 DEF SocketsClose
  <2>3. \A x \in Connection : up'[x] = up[x] \/ up[x] # << >>
    BY <1>4 DEF UpShrinks
  <2> QED BY <1>3, <1>5, <2>1, <2>2, <2>3, PagesKeep
<1>9. FirstAnswers'
  <2>1. \A x \in Connection : socket[x] # "open" => socket'[x] # "open"
    BY <1>1 DEF SocketsClose
  <2>2. \A x \in Connection : \/ down'[x] = down[x]
                              \/ \E h : down'[x] = Append(down[x], h) /\ socket[x] = "open" /\ room[x] # NONE
    BY <1>5
  <2> QED BY <1>1, <2>1, <2>2, AnswersKeep
<1>10. DownsSound'
  <2>1. \A x \in Connection : DownShrinks(x) \/ \E h : down'[x] = Append(down[x], h) /\ DownSound(x, h)'
    BY <1>2, <1>3, <1>5, SettledKeeps DEF DownShrinks
  <2> QED BY <1>3, <2>1, DownsKeep
<1>11. EntriesSound'
  <2>1. EntriesSound
    BY DEF NetInv
  <2> QED BY <1>1, <1>3, <2>1, EntriesKeep DEF EntriesSound
<1>12. \A r \in Connection, s \in StreamId :
         \/ streams'[r][s] \in {NoPair, streams[r][s]}
         \/ Pairs(c, f) /\ s = f.stream /\ streams'[r][s] = [a |-> myId[c], b |-> 1] /\ Opens(c, s)
  <2>1. \/ streams' = streams
        \/ streams' = [streams EXCEPT ![room[c]][f.stream] = NoPair]
        \/ /\ Pairs(c, f) /\ f.kind = "OPEN"
           /\ streams' = [streams EXCEPT ![room[c]][f.stream] = [a |-> myId[c], b |-> 1]]
    BY DEF MemberFrame, Passes, Cuts, Refuses, Pairs, Loses, Forwards
  <2>2. f.kind = "OPEN" => Opens(c, f.stream)
    BY <1>1 DEF UpSound
  <2>3. streams \in [Connection -> [StreamId -> Pair \cup {NoPair}]]
    BY <1>2 DEF RelayTypeOK
  <2> SUFFICES ASSUME NEW r \in Connection, NEW s \in StreamId
               PROVE  \/ streams'[r][s] \in {NoPair, streams[r][s]}
                      \/ Pairs(c, f) /\ s = f.stream /\ streams'[r][s] = [a |-> myId[c], b |-> 1] /\ Opens(c, s)
    OBVIOUS
  <2>4. CASE streams' = streams
    BY <2>4
  <2>5. CASE streams' = [streams EXCEPT ![room[c]][f.stream] = NoPair]
    BY <2>3, <2>5
  <2>6. CASE /\ Pairs(c, f) /\ f.kind = "OPEN"
             /\ streams' = [streams EXCEPT ![room[c]][f.stream] = [a |-> myId[c], b |-> 1]]
    BY <2>2, <2>3, <2>6
  <2> QED BY <2>1, <2>4, <2>5, <2>6
<1>13. PairsSound'
  <2>1. PairsSound
    BY DEF NetInv
  <2> QED BY <1>12, <2>1 DEF PairsSound, Opens
<1>14. OpensAreNew'
  <2>1. CASE Pairs(c, f)
    BY <2>1, PairsNew
  <2>2. CASE ~Pairs(c, f)
    <3>1. \A x \in Connection : Present(x)' => Present(x)
      BY <1>1 DEF SocketsClose, Present
    <3>2. \A r \in Connection, s \in StreamId : streams'[r][s] \in {NoPair, streams[r][s]}
      BY <1>12, <2>2
    <3> QED
      <4>1. \A x \in Connection, s \in StreamId : entry'[x][s] = NoEntry \/ entry[x][s] # NoEntry
        BY <1>1
      <4>2. \A x \in Connection : page'[x] = "over" \/ (page[x] # "over" /\ nextSeq'[x] = nextSeq[x])
        BY <1>1
      <4> QED BY <1>1, <1>4, <3>1, <3>2, <4>1, <4>2, OpensKeep
  <2> QED BY <2>1, <2>2
<1>15. ClosedRoomsClose'
  BY <1>1 DEF NetInv, ClosedRoomsClose, SocketsClose
<1> QED BY <1>6, <1>7, <1>8, <1>9, <1>10, <1>11, <1>13, <1>14, <1>15 DEF NetInv

LEMMA StrangerKeeps ==
  ASSUME NetInv, RelayInv', NEW c \in Connection, room[c] = NONE, StrangerFrame(c)
  PROVE  NetInv'
<1>1. /\ Present(c) /\ up' = [up EXCEPT ![c] = << >>]
      /\ UNCHANGED <<streams, closed, hungUp, page, memberId, entry, nextSeq, callsLeft>> /\ SocketsClose
      /\ throttled' \in {throttled, throttled \cup {c}}
      /\ \A x \in Connection \ {c} : room'[x] = room[x] /\ myId'[x] = myId[x]
  BY DEF StrangerFrame, pageVars
<1>2. RelayInv /\ PageTypes /\ RelayTypeOK
  BY DEF NetInv, RelayInv
<1>3. Settled
  BY <1>1 DEF Settled, SocketsClose
<1>4. \A x \in Connection : UpShrinks(x) /\ (x # c => up'[x] = up[x])
  BY <1>1, <1>2 DEF UpShrinks, PageTypes
<1>5. up'[c] = << >>
  BY <1>1, <1>2 DEF PageTypes
<1>6. \/ /\ room'[c] = room[c] /\ myId'[c] = myId[c] /\ down' = down
      \/ /\ room'[c] = room[c] /\ myId'[c] = myId[c]
         /\ \E code : SentTo(c, ToClient("ERROR", code, 0, NONE, NONE))
      \/ /\ room'[c] \in Connection \ closed /\ myId'[c] \in Member
         /\ members[room'[c]][myId'[c]] = NONE
         /\ SentTo(c, ToClient("WELCOME", myId'[c], 0, NONE, NONE))
  BY DEF StrangerFrame
<1>7. \A x \in Connection : x # c => down'[x] = down[x]
  BY <1>6 DEF SentTo
<1>8. \/ down'[c] = down[c] /\ (room'[c] = room[c] \/ c \in hungUp \/ socket'[c] # "open")
      \/ \E h : /\ down'[c] = Append(down[c], h) /\ socket[c] = "open" /\ c \notin hungUp
                /\ h.kind \in {"WELCOME", "ERROR"} /\ DownSound(c, h)'
  <2>1. CASE down' = down /\ room'[c] = room[c]
    BY <2>1
  <2>2. ASSUME NEW code, SentTo(c, ToClient("ERROR", code, 0, NONE, NONE)), room'[c] = room[c]
        PROVE  \/ down'[c] = down[c] /\ (room'[c] = room[c] \/ c \in hungUp \/ socket'[c] # "open")
               \/ \E h : /\ down'[c] = Append(down[c], h) /\ socket[c] = "open" /\ c \notin hungUp
                         /\ h.kind \in {"WELCOME", "ERROR"} /\ DownSound(c, h)'
    <3> DEFINE h == ToClient("ERROR", code, 0, NONE, NONE)
    <3>1. h.kind = "ERROR" /\ DownSound(c, h)'
      BY DEF DownSound, ToClient, OfStream
    <3> HIDE DEF h
    <3>2. \/ down'[c] = Append(down[c], h) /\ socket[c] = "open" /\ c \notin hungUp
          \/ down'[c] = down[c] /\ (c \in hungUp \/ socket'[c] # "open")
      BY <2>2 DEF SentTo, h
    <3> QED BY <3>1, <3>2
  <2>3. CASE /\ room'[c] \in Connection \ closed /\ myId'[c] \in Member
             /\ SentTo(c, ToClient("WELCOME", myId'[c], 0, NONE, NONE))
    <3> DEFINE h == ToClient("WELCOME", myId'[c], 0, NONE, NONE)
    <3>1. h.kind = "WELCOME" /\ h.member = myId'[c] /\ room'[c] # NONE
      BY <2>3, Constants DEF ToClient
    <3>2. \/ down'[c] = Append(down[c], h) /\ socket[c] = "open" /\ c \notin hungUp
          \/ down'[c] = down[c] /\ (c \in hungUp \/ socket'[c] # "open")
      BY <2>3 DEF SentTo
    <3> HIDE DEF h
    <3>3. \A f : f = h => DownSound(c, f)'
      BY <3>1 DEF DownSound, OfStream
    <3> QED BY <3>1, <3>2, <3>3
  <2> QED BY <1>6, <2>1, <2>2, <2>3
<1>9. UpsSound' /\ \A x \in Connection : up'[x] \in Seq(UpFrame)
  BY <1>1, <1>3, <1>4, <1>5, UpsKeep
<1>10. PageTypes'
  BY <1>1, <1>2, <1>9 DEF PageTypes
<1>11. PagesAgree'
  <2>1. UNCHANGED <<pageVars, hungUp>>
    BY <1>1 DEF pageVars
  <2>2. \A x \in Connection : socket'[x] = "none" <=> socket[x] = "none"
    BY <1>1 DEF SocketsClose
  <2>3. \A x \in Connection : up'[x] = up[x] \/ up[x] # << >>
    BY <1>4, <1>5
  <2>4. \A x \in Connection : down'[x] = down[x] \/ (socket[x] = "open" /\ x \notin hungUp)
    BY <1>7, <1>8
  <2> QED BY <1>3, <2>1, <2>2, <2>3, <2>4, PagesKeep
<1>12. FirstAnswers'
  <2>1. \A x \in Connection : socket[x] # "open" => socket'[x] # "open"
    BY <1>1 DEF SocketsClose
  <2>2. c \in hungUp => page[c] # "connecting"
    BY DEF NetInv, PagesAgree
  <2>3. \/ page'[c] # "connecting"
        \/ /\ page[c] = "connecting"
           /\ \/ down'[c] = down[c] /\ (room'[c] = room[c] \/ socket'[c] # "open")
              \/ \E h : down'[c] = Append(down[c], h) /\ h.kind \in {"WELCOME", "ERROR"}
    BY <1>1, <1>8, <2>2
  <2> QED BY <1>1, <1>7, <2>1, <2>3, AnswersKeep
<1>13. DownsSound'
  <2>1. \A x \in Connection : DownShrinks(x) \/ \E h : down'[x] = Append(down[x], h) /\ DownSound(x, h)'
    BY <1>7, <1>8 DEF DownShrinks
  <2> QED BY <1>3, <2>1, DownsKeep
<1>14. EntriesSound'
  <2>1. EntriesSound
    BY DEF NetInv
  <2> QED BY <1>1, <1>3, <2>1, EntriesKeep DEF EntriesSound
<1>15. PairsSound'
  BY <1>1 DEF NetInv, PairsSound
<1>16. OpensAreNew'
  <2>1. CASE room'[c] = room[c] /\ myId'[c] = myId[c]
    <3>1. \A x \in Connection : Present(x)' => Present(x)
      BY <1>1 DEF SocketsClose, Present
    <3>2. \A x \in Connection : page'[x] = "over" \/ (page[x] # "over" /\ nextSeq'[x] = nextSeq[x])
      BY <1>1
    <3>3. /\ \A r \in Connection, s \in StreamId : streams'[r][s] \in {NoPair, streams[r][s]}
          /\ \A x \in Connection, s \in StreamId : entry'[x][s] = NoEntry \/ entry[x][s] # NoEntry
      BY <1>1
    <3> QED BY <1>1, <1>4, <2>1, <3>1, <3>2, <3>3, OpensKeep
  <2>2. CASE /\ room'[c] \in Connection \ closed /\ myId'[c] \in Member
             /\ members[room'[c]][myId'[c]] = NONE
    <3> SUFFICES ASSUME NEW o \in Connection, NEW s \in StreamId, Opens(o, s)'
                 PROVE  /\ OpenOnce(up'[o], s)
                        /\ page'[o] # "over" /\ NotYet(o, s)' => ~Underway(up'[o], OfStream, s) /\ entry'[o][s] = NoEntry
                        /\ Present(o)' /\ (Underway(up'[o], {"OPEN"}, s) \/ (page'[o] # "over" /\ NotYet(o, s)')) =>
                             streams'[room'[o]][s] = NoPair
      BY DEF OpensAreNew
    <3>1. CASE o # c
      <4>1. Opens(o, s) /\ (NotYet(o, s)' <=> NotYet(o, s))
        BY <1>1, <3>1 DEF Opens, NotYet
      <4>2. Present(o)' => Present(o)
        BY <1>1 DEF SocketsClose, Present
      <4>3. up'[o] = up[o] /\ page'[o] = page[o] /\ entry'[o][s] = entry[o][s] /\ room'[o] = room[o]
            /\ streams' = streams
        BY <1>1, <1>4, <3>1
      <4> QED BY <4>1, <4>2, <4>3 DEF NetInv, OpensAreNew
    <3>2. CASE o = c
      <4>1. OpenOnce(up'[o], s) /\ \A kinds : ~Underway(up'[o], kinds, s)
        BY <1>5, <3>2 DEF OpenOnce, Underway
      <4>2. entry'[o][s] = NoEntry
        BY <1>1, <3>2 DEF NetInv, EntriesSound, PagesAgree
      <4>3. streams[room'[o]][s] = NoPair
        <5> SUFFICES ASSUME streams[room'[c]][s] # NoPair PROVE FALSE
          BY <3>2
        <5> DEFINE pair == streams[room'[c]][s]
        <5>1. pair.a \in Nat /\ members[room'[c]][pair.a] # NONE
          <6>1. room'[c] \in Connection /\ pair # NoPair
            BY <2>2
          <6>2. pair \in Pair
            BY <1>2, <6>1 DEF RelayTypeOK
          <6>3. members[room'[c]][pair.a] # NONE
            BY <1>2, <6>1 DEF RelayInv, StreamsJoinMembers
          <6>4. pair.a \in Nat
            BY <6>2, Constants DEF Pair
          <6> QED BY <6>3, <6>4
        <5>2. PICK q \in 1 .. SequenceSpan - 1 : s = StreamIdOf(pair.a, q)
          BY <2>2 DEF NetInv, PairsSound
        <5>3. PICK p \in 1 .. SequenceSpan - 1 : s = StreamIdOf(myId'[c], p)
          BY <3>2 DEF Opens
        <5>4. myId'[c] \in Nat
          BY <2>2, Constants
        <5>5. pair.a = myId'[c]
          <6> HIDE DEF pair
          <6> DEFINE i == myId'[c]
          <6>1. i \in Nat /\ s = StreamIdOf(i, p)
            BY <5>3, <5>4
          <6> HIDE DEF i
          <6>2. pair.a = i
            BY <5>1, <5>2, <6>1, NumbersTell
          <6> QED BY <6>2 DEF i
        <5> QED BY <2>2, <5>1, <5>5
      <4> QED BY <1>1, <4>1, <4>2, <4>3
    <3> QED BY <3>1, <3>2
  <2> QED BY <1>6, <2>1, <2>2
<1>17. ClosedRoomsClose'
  BY <1>1, <1>6 DEF NetInv, ClosedRoomsClose, SocketsClose
<1> QED BY <1>9, <1>10, <1>11, <1>12, <1>13, <1>14, <1>15, <1>16, <1>17 DEF NetInv

LEMMA LeavesKeeps ==
  ASSUME NetInv, RelayInv', NEW c \in Connection, Leaves(c)
  PROVE  NetInv'
<1>1. /\ Present(c) /\ socket'[c] = "closed" /\ up' = [up EXCEPT ![c] = << >>]
      /\ UNCHANGED <<room, myId, hungUp, throttled, page, memberId, entry, nextSeq, callsLeft>>
      /\ \A x \in Connection \ {c} : socket'[x] = socket[x] \/ (socket[x] = "open" /\ socket'[x] = "closing")
  BY DEF Leaves, pageVars
<1>2. RelayInv /\ PageTypes /\ RelayTypeOK
  BY DEF NetInv, RelayInv
<1>3. Settled /\ \A x \in Connection : /\ socket'[x] = "none" <=> socket[x] = "none"
                                       /\ socket[x] # "open" => socket'[x] # "open"
                                       /\ Present(x)' => Present(x)
  BY <1>1 DEF Settled, Present
<1>4. \A x \in Connection : UpShrinks(x)
  BY <1>1, <1>2 DEF UpShrinks, PageTypes
<1>5. UpsSound' /\ \A x \in Connection : up'[x] \in Seq(UpFrame)
  BY <1>1, <1>3, <1>4, UpsKeep
<1>6. PageTypes'
  BY <1>1, <1>2, <1>5 DEF PageTypes
<1>7. \A x \in Connection :
        down'[x] = down[x] \/ \E h : /\ down'[x] = Append(down[x], h) /\ socket[x] = "open" /\ x \notin hungUp
                                     /\ room[x] # NONE /\ DownSound(x, h)'
  <2> SUFFICES ASSUME NEW x \in Connection, down'[x] # down[x]
               PROVE  \E h : /\ down'[x] = Append(down[x], h) /\ socket[x] = "open" /\ x \notin hungUp
                             /\ room[x] # NONE /\ DownSound(x, h)'
    OBVIOUS
  <2>1. Told(c, x)
    BY DEF Leaves
  <2> DEFINE h == ToClient("PEER_LEFT", myId[c], 0, NONE, NONE)
  <2>2. h.kind = "PEER_LEFT" /\ h.member = myId'[c] /\ room'[c] = room'[x] /\ room'[x] # NONE
    BY <1>1, <2>1 DEF Told, ToClient
  <2>3. down'[x] = Append(down[x], h) /\ socket[x] = "open" /\ x \notin hungUp /\ room[x] # NONE
    BY <2>1 DEF Told
  <2> HIDE DEF h
  <2>4. \A f : f = h => DownSound(x, f)'
    BY <1>1, <2>2 DEF DownSound, OfStream
  <2> QED BY <2>3, <2>4
<1>8. PagesAgree'
  <2>1. UNCHANGED <<pageVars, hungUp>>
    BY <1>1 DEF pageVars
  <2>2. \A x \in Connection : up'[x] = up[x] \/ up[x] # << >>
    BY <1>4 DEF UpShrinks, PagesAgree
  <2>3. \A x \in Connection : down'[x] = down[x] \/ (socket[x] = "open" /\ x \notin hungUp)
    BY <1>7
  <2> QED BY <1>3, <2>1, <2>2, <2>3, PagesKeep
<1>9. FirstAnswers'
  <2>1. \A x \in Connection :
          \/ page'[x] # "connecting"
          \/ /\ page[x] = "connecting"
             /\ socket[x] # "open" => socket'[x] # "open"
             /\ \/ down'[x] = down[x] /\ (room'[x] = room[x] \/ socket'[x] # "open")
                \/ \E h : /\ down'[x] = Append(down[x], h)
                          /\ h.kind \in {"WELCOME", "ERROR"} \/ (room[x] # NONE /\ socket[x] = "open")
    BY <1>1, <1>3, <1>7
  <2> QED BY <2>1, AnswersKeep
<1>10. DownsSound'
  <2>1. \A x \in Connection : DownShrinks(x) \/ \E h : down'[x] = Append(down[x], h) /\ DownSound(x, h)'
    BY <1>7 DEF DownShrinks
  <2> QED BY <1>3, <2>1, DownsKeep
<1>11. EntriesSound'
  <2>1. EntriesSound
    BY DEF NetInv
  <2> QED BY <1>1, <1>3, <2>1, EntriesKeep DEF EntriesSound
<1>12. \A r \in Connection, s \in StreamId : streams'[r][s] \in {NoPair, streams[r][s]}
  <2>1. CASE room[c] = NONE
    BY <2>1 DEF Leaves
  <2>2. CASE room[c] # NONE
    <3>1. streams' = [streams EXCEPT ![room[c]] = StreamsWithout(room[c], myId[c])]
      BY <2>2 DEF Leaves
    <3>2. \A s \in StreamId : StreamsWithout(room[c], myId[c])[s] \in {NoPair, streams[room[c]][s]}
      BY DEF StreamsWithout
    <3>3. streams \in [Connection -> [StreamId -> Pair \cup {NoPair}]]
      BY <1>2 DEF RelayTypeOK
    <3> QED BY <3>1, <3>2, <3>3
  <2> QED BY <2>1, <2>2
<1>13. PairsSound'
  <2>1. PairsSound
    BY DEF NetInv
  <2> QED BY <1>12, <2>1 DEF PairsSound
<1>14. OpensAreNew'
  BY <1>1, <1>3, <1>4, <1>12, OpensKeep
<1>15. ClosedRoomsClose'
  <2> SUFFICES ASSUME NEW x \in Connection, room[x] \in closed' PROVE socket'[x] # "open"
    BY <1>1 DEF ClosedRoomsClose
  <2>1. room[x] \in closed => socket[x] # "open"
    BY DEF NetInv, ClosedRoomsClose
  <2>2. room[x] \in closed \/ (room[c] # NONE /\ myId[c] = 1 /\ room[x] = room[c])
    BY DEF Leaves
  <2>3. room[c] # NONE /\ myId[c] = 1 /\ room[x] = room[c] => socket'[x] # "open"
    BY DEF Leaves
  <2> QED BY <1>3, <2>1, <2>2, <2>3
<1> QED BY <1>5, <1>6, <1>8, <1>9, <1>10, <1>11, <1>13, <1>14, <1>15 DEF NetInv

LEMMA TimersKeep ==
  ASSUME NetInv, RelayInv', RelayTimers
  PROVE  NetInv'
<1>1. RelayInv /\ RelayTypeOK
  BY DEF NetInv, RelayInv
<1>2. SocketsClose /\ UNCHANGED <<roomVars, streams, down, hungUp, pageVars, up, throttled>>
  BY <1>1, TimersClose
<1>3. Settled /\ \A x \in Connection : /\ socket'[x] = "none" <=> socket[x] = "none"
                                       /\ socket[x] # "open" => socket'[x] # "open"
                                       /\ Present(x)' => Present(x)
  BY <1>2 DEF Settled, SocketsClose, Present, roomVars
<1>4. UpsSound' /\ PageTypes'
  <2>1. UNCHANGED <<room, myId, page, memberId, entry, nextSeq, callsLeft, up, throttled>>
    BY <1>2 DEF roomVars, pageVars
  <2> QED BY <2>1 DEF NetInv, UpsSound, UpSound, HasPart, Opens, PageTypes
<1>5. PagesAgree'
  BY <1>2, <1>3, PagesKeep
<1>6. FirstAnswers'
  <2>1. UNCHANGED <<room, page, down>>
    BY <1>2 DEF roomVars, pageVars
  <2> QED BY <1>3, <2>1, AnswersKeep
<1>7. DownsSound'
  BY <1>2, <1>3, DownsKeep DEF DownShrinks
<1>8. EntriesSound' /\ PairsSound'
  BY <1>2 DEF NetInv, EntriesSound, PairsSound, Opens, roomVars, pageVars
<1>9. OpensAreNew'
  <2>1. UNCHANGED <<room, myId, page, entry, nextSeq, streams, up>>
    BY <1>2 DEF roomVars, pageVars
  <2>2. \A o \in Connection, s \in StreamId : (Opens(o, s)' <=> Opens(o, s)) /\ (NotYet(o, s)' <=> NotYet(o, s))
    BY <2>1 DEF Opens, NotYet
  <2> QED BY <1>3, <2>1, <2>2 DEF NetInv, OpensAreNew
<1>10. ClosedRoomsClose'
  BY <1>2, <1>3 DEF NetInv, ClosedRoomsClose, roomVars
<1> QED BY <1>4, <1>5, <1>6, <1>7, <1>8, <1>9, <1>10 DEF NetInv

-----------------------------------------------------------------------------
(* The steps of the pages.                                                   *)

LEMMA ConnectKeeps ==
  ASSUME NetInv, RelayInv', NEW c \in Connection, Connect(c)
  PROVE  NetInv'
<1>1. /\ page[c] = "none" /\ socket[c] = "none" /\ page' = [page EXCEPT ![c] = "connecting"]
      /\ socket' = [socket EXCEPT ![c] = "open"]
      /\ UNCHANGED <<room, myId, closed, streams, down, hungUp, memberId, entry, nextSeq, callsLeft, throttled>>
  BY DEF Connect, Upgrade, roomVars
<1>2. RelayInv /\ PageTypes /\ RelayTypeOK
  BY DEF NetInv, RelayInv
<1>3. room[c] = NONE /\ up[c] = << >> /\ down[c] = << >> /\ c \notin hungUp
  BY <1>1 DEF NetInv, RelayInv, HandlersAgree, PagesAgree
<1>4. PICK f \in HelloFrames(c) : up' = [up EXCEPT ![c] = <<f>>]
  BY DEF Connect
<1>5. f \in UpFrame /\ f.kind \in {"HELLO", "BAD"}
  <2>1. \/ f = [kind |-> "HELLO", create |-> TRUE, code |-> NONE]
        \/ \E k \in Code : f = [kind |-> "HELLO", create |-> FALSE, code |-> k]
        \/ f = [kind |-> "BAD"]
    <3>1. \/ f \in {HelloFrame(TRUE, NONE)}
          \/ f \in {HelloFrame(FALSE, k) : k \in Code} \cup {[kind |-> "BAD"]}
      BY <1>4 DEF HelloFrames
    <3> QED BY <3>1 DEF HelloFrame
  <2>2. CASE f = [kind |-> "BAD"]
    BY <2>2 DEF UpFrame
  <2>3. CASE f # [kind |-> "BAD"]
    <3>1. PICK create \in BOOLEAN, k \in Code \cup {NONE} : f = [kind |-> "HELLO", create |-> create, code |-> k]
      BY <2>1, <2>3
    <3> QED BY <3>1 DEF UpFrame
  <2> QED BY <2>2, <2>3
<1>6. Settled /\ \A x \in Connection \ {c} : socket'[x] = socket[x] /\ page'[x] = page[x] /\ up'[x] = up[x]
  BY <1>1, <1>2, <1>4 DEF Settled, RelayTypeOK, PageTypes
<1>7. up'[c] = Append(up[c], f) /\ page'[c] = "connecting" /\ socket'[c] = "open"
  BY <1>1, <1>2, <1>3, <1>4 DEF PageTypes, RelayTypeOK
<1>8. UpsSound' /\ \A x \in Connection : up'[x] \in Seq(UpFrame)
  <2>1. UpSound(c, f)
    BY <1>3, <1>5 DEF UpSound, OfStream
  <2>2. \A x \in Connection :
          UpShrinks(x) \/ \E h \in UpFrame : /\ up'[x] = Append(up[x], h) /\ UpSound(x, h)
                                             /\ room[x] # NONE \/ up[x] = << >>
    BY <1>3, <1>5, <1>6, <1>7, <2>1 DEF UpShrinks
  <2> QED BY <1>1, <1>6, <2>2, UpsKeep
<1>9. PageTypes'
  BY <1>1, <1>2, <1>4, <1>8 DEF PageTypes
<1>10. PagesAgree'
  BY <1>1, <1>3, <1>6, <1>7 DEF NetInv, PagesAgree
<1>11. FirstAnswers'
  BY <1>1, <1>3, <1>6 DEF NetInv, FirstAnswers
<1>12. DownsSound'
  BY <1>1, <1>6, DownsKeep DEF DownShrinks
<1>13. EntriesSound'
  BY <1>1, <1>6 DEF NetInv, EntriesSound, Opens
<1>14. PairsSound'
  BY <1>1 DEF NetInv, PairsSound
<1>15. OpensAreNew'
  <2> SUFFICES ASSUME NEW o \in Connection, NEW s \in StreamId, Opens(o, s)'
               PROVE  /\ OpenOnce(up'[o], s)
                      /\ page'[o] # "over" /\ NotYet(o, s)' => ~Underway(up'[o], OfStream, s) /\ entry'[o][s] = NoEntry
                      /\ Present(o)' /\ (Underway(up'[o], {"OPEN"}, s) \/ (page'[o] # "over" /\ NotYet(o, s)')) =>
                           streams'[room'[o]][s] = NoPair
    BY DEF OpensAreNew
  <2>1. o # c /\ Opens(o, s) /\ (NotYet(o, s)' <=> NotYet(o, s))
    BY <1>1, <1>3 DEF Opens, NotYet
  <2>2. up'[o] = up[o] /\ page'[o] = page[o] /\ socket'[o] = socket[o]
    BY <1>6, <2>1
  <2> QED BY <1>1, <2>1, <2>2 DEF NetInv, OpensAreNew, Present
<1>16. ClosedRoomsClose'
  BY <1>1, <1>2, <1>3, <1>6, Constants DEF NetInv, ClosedRoomsClose, RelayTypeOK
<1> QED BY <1>8, <1>9, <1>10, <1>11, <1>12, <1>13, <1>14, <1>15, <1>16 DEF NetInv

LEMMA PageClosesKeeps ==
  ASSUME NetInv, RelayInv', NEW c \in Connection, PageCloses(c)
  PROVE  NetInv'
<1>1. /\ page[c] \in {"connecting", "ready"} /\ c \notin hungUp
      /\ page' = [page EXCEPT ![c] = "over"] /\ entry' = [entry EXCEPT ![c] = [s \in StreamId |-> NoEntry]]
      /\ memberId' = [memberId EXCEPT ![c] = 0] /\ nextSeq' = [nextSeq EXCEPT ![c] = 1]
      /\ callsLeft' = [callsLeft EXCEPT ![c] = 0]
      /\ hungUp' = hungUp \cup {c} /\ down' = [down EXCEPT ![c] = << >>]
      /\ UNCHANGED <<socket, room, myId, closed, streams, up, throttled>>
  BY DEF PageCloses, On, Over, HangUp, roomVars
<1>2. RelayInv /\ PageTypes /\ RelayTypeOK
  BY DEF NetInv, RelayInv
<1>3. Settled
  BY <1>1 DEF Settled
<1>4. UpsSound'
  BY <1>1 DEF NetInv, UpsSound, UpSound, HasPart, Opens
<1>5. /\ page'[c] = "over" /\ nextSeq'[c] = 1 /\ callsLeft'[c] = 0 /\ down'[c] = << >>
      /\ \A s \in StreamId : entry'[c][s] = NoEntry
  BY <1>1, <1>2 DEF PageTypes, RelayTypeOK
<1>6. \A x \in Connection \ {c} :
        /\ page'[x] = page[x] /\ nextSeq'[x] = nextSeq[x] /\ callsLeft'[x] = callsLeft[x]
        /\ memberId'[x] = memberId[x] /\ down'[x] = down[x] /\ entry'[x] = entry[x]
  BY <1>1, <1>2 DEF PageTypes, RelayTypeOK
<1>7. PageTypes'
  <2>1. NoEntry \in Entry
    BY PageConstants, Constants DEF NoEntry, Entry
  <2>2. [s \in StreamId |-> NoEntry] \in [StreamId -> Entry]
    BY <2>1
  <2> QED BY <1>1, <1>2, <2>2 DEF PageTypes
<1>8. PagesAgree'
  <2> SUFFICES ASSUME NEW x \in Connection
               PROVE  /\ x \in hungUp' <=> page'[x] = "over"
                      /\ page'[x] = "none" <=> socket[x] = "none"
                      /\ page'[x] = "none" => up[x] = << >>
                      /\ page'[x] \in {"none", "over"} => down'[x] = << >>
                      /\ page'[x] = "ready" => room[x] # NONE /\ memberId'[x] = myId[x]
                      /\ nextSeq'[x] + callsLeft'[x] <= MaxCalls[x] + 1
    BY <1>1 DEF PagesAgree
  <2>1. PagesAgree
    BY DEF NetInv
  <2>2. CASE x = c
    <3>1. socket[c] # "none"
      BY <1>1, <2>1 DEF PagesAgree
    <3>2. nextSeq'[c] + callsLeft'[c] <= MaxCalls[c] + 1
      BY <1>5, PageConstants
    <3> QED BY <1>1, <1>5, <2>2, <3>1, <3>2
  <2>3. CASE x # c
    BY <1>1, <1>6, <2>1, <2>3 DEF PagesAgree
  <2> QED BY <2>2, <2>3
<1>9. FirstAnswers'
  BY <1>1, <1>5, <1>6 DEF NetInv, FirstAnswers
<1>10. DownsSound'
  <2>1. \A x \in Connection : DownShrinks(x)
    BY <1>5, <1>6 DEF DownShrinks
  <2> QED BY <1>3, <2>1, DownsKeep
<1>11. EntriesSound'
  <2>1. EntriesSound
    BY DEF NetInv
  <2>2. \A x \in Connection, s \in StreamId : entry'[x][s] # NoEntry =>
          page'[x] = page[x] /\ entry'[x][s] = entry[x][s]
    BY <1>5, <1>6
  <2> QED BY <1>3, <2>1, <2>2, EntriesKeep DEF EntriesSound
<1>12. PairsSound' /\ ClosedRoomsClose'
  BY <1>1 DEF NetInv, PairsSound, ClosedRoomsClose
<1>13. OpensAreNew'
  <2>1. \A x \in Connection : page'[x] = "over" \/ (page[x] # "over" /\ nextSeq'[x] = nextSeq[x])
    BY <1>2, <1>5, <1>6 DEF PageTypes
  <2>2. \A x \in Connection, s \in StreamId : entry'[x][s] = NoEntry \/ entry[x][s] # NoEntry
    BY <1>5, <1>6
  <2>3. \A x \in Connection : UpShrinks(x) /\ (Present(x)' => Present(x))
    BY <1>1 DEF UpShrinks, Present
  <2> QED BY <1>1, <2>1, <2>2, <2>3, OpensKeep
<1> QED BY <1>4, <1>7, <1>8, <1>9, <1>10, <1>11, <1>12, <1>13 DEF NetInv

\* What becomes of an entry.
LEMMA EntriesAlike ==
  ASSUME NEW e \in Entry, NEW n \in Entry,
         e.open = n.open, e.peer = n.peer, e.opener = n.opener, e.chunks = n.chunks, e.sent = n.sent
  PROVE  e = n
BY DEF Entry

LEMMA NoEntryFields ==
  /\ NoEntry \in Entry
  /\ NoEntry.open = FALSE /\ NoEntry.peer = 0 /\ NoEntry.opener = NONE /\ NoEntry.chunks = << >> /\ NoEntry.sent = 0
BY PageConstants DEF NoEntry, Entry

LEMMA NewEntryFields ==
  ASSUME NEW i \in Nat, NEW o \in Connection
  PROVE  LET n == NewEntry(i, o)
         IN  n \in Entry /\ n.open = TRUE /\ n.peer = i /\ n.opener = o /\ n.chunks = << >> /\ n.sent = 0
<1>1. ASSUME NEW e \in Entry
      PROVE  LET n == [e EXCEPT !.open = TRUE, !.peer = i, !.opener = o]
             IN  /\ n \in Entry /\ n.open = TRUE /\ n.peer = i /\ n.opener = o
                 /\ n.chunks = e.chunks /\ n.sent = e.sent
  BY DEF Entry
<1> QED BY <1>1, NoEntryFields DEF NewEntry

LEMMA EntryCloses ==
  ASSUME NEW e \in Entry
  PROVE  LET n == [e EXCEPT !.open = FALSE]
         IN  /\ n \in Entry /\ n.open = FALSE
             /\ n.peer = e.peer /\ n.opener = e.opener /\ n.chunks = e.chunks /\ n.sent = e.sent
             /\ ~e.open => n = e
             /\ e = NoEntry => n = NoEntry
<1> DEFINE n == [e EXCEPT !.open = FALSE]
<1>1. /\ n \in Entry /\ n.open = FALSE
      /\ n.peer = e.peer /\ n.opener = e.opener /\ n.chunks = e.chunks /\ n.sent = e.sent
  BY DEF Entry
<1> HIDE DEF n
<1>2. ~e.open => n = e
  <2>1. e.open \in BOOLEAN
    BY DEF Entry
  <2> QED BY <1>1, <2>1, EntriesAlike
<1>3. /\ n \in Entry /\ n.open = FALSE
      /\ n.peer = e.peer /\ n.opener = e.opener /\ n.chunks = e.chunks /\ n.sent = e.sent
      /\ ~e.open => n = e
      /\ e = NoEntry => n = NoEntry
  BY <1>1, <1>2, NoEntryFields
<1> QED BY <1>3 DEF n

LEMMA EntryGets ==
  ASSUME NEW e \in Entry, NEW chunk \in [body : Body \cup {NONE}, from : Connection \cup {NONE}]
  PROVE  LET n == [e EXCEPT !.chunks = Append(@, chunk)]
         IN  /\ n \in Entry /\ n.chunks = Append(e.chunks, chunk)
             /\ n.open = e.open /\ n.peer = e.peer /\ n.opener = e.opener /\ n.sent = e.sent
<1>1. Append(e.chunks, chunk) \in Seq([body : Body \cup {NONE}, from : Connection \cup {NONE}])
  BY DEF Entry
<1>2. ASSUME NEW x \in Seq([body : Body \cup {NONE}, from : Connection \cup {NONE}])
      PROVE  LET n == [e EXCEPT !.chunks = x]
             IN  /\ n \in Entry /\ n.chunks = x
                 /\ n.open = e.open /\ n.peer = e.peer /\ n.opener = e.opener /\ n.sent = e.sent
  BY DEF Entry
<1> QED BY <1>1, <1>2

LEMMA EntrySends ==
  ASSUME NEW e \in Entry, e.sent < MaxChunks
  PROVE  LET n == [e EXCEPT !.sent = @ + 1]
         IN  /\ n \in Entry /\ n.sent = e.sent + 1
             /\ n.open = e.open /\ n.peer = e.peer /\ n.opener = e.opener /\ n.chunks = e.chunks
<1>1. e.sent + 1 \in 0 .. MaxChunks
  BY PageConstants DEF Entry
<1>2. ASSUME NEW x \in 0 .. MaxChunks
      PROVE  LET n == [e EXCEPT !.sent = x]
             IN  /\ n \in Entry /\ n.sent = x
                 /\ n.open = e.open /\ n.peer = e.peer /\ n.opener = e.opener /\ n.chunks = e.chunks
  BY DEF Entry
<1> QED BY <1>1, <1>2

\* What a page is told first is WELCOME, or ERROR, which it does not handle.
LEMMA FirstHandled ==
  ASSUME NetInv, NEW c \in Connection, PageReceives(c)
  PROVE  LET f == Head(down[c])
         IN  /\ down[c] \in Seq(DownFrame) /\ down[c] # << >>
             /\ f \in DownFrame /\ DownSound(c, f) /\ room[c] # NONE /\ f.kind # "ERROR"
             /\ page[c] = "ready" \/ (page[c] = "connecting" /\ f.kind = "WELCOME")
<1> DEFINE f == Head(down[c])
<1>1. down[c] \in Seq(DownFrame) /\ down[c] # << >> /\ page[c] \in {"connecting", "ready"} /\ Handles(c, f)
  BY DEF NetInv, RelayInv, RelayTypeOK, PageReceives, TakeFrame, On
<1>2. 1 \in DOMAIN down[c] /\ f = down[c][1] /\ f \in DownFrame
  BY <1>1
<1>3. f.kind # "ERROR"
  BY <1>1 DEF Handles
<1>4. DownSound(c, f)
  BY <1>2 DEF NetInv, DownsSound
<1>5. page[c] = "connecting" => f.kind = "WELCOME"
  BY <1>1, <1>2, <1>3 DEF NetInv, FirstAnswers
<1> QED BY <1>1, <1>2, <1>3, <1>4, <1>5 DEF DownSound

LEMMA Handled ==
  ASSUME NetInv, NEW c \in Connection, PageReceives(c)
  PROVE  /\ entry' \in [Connection -> [StreamId -> Entry]]
         /\ page' = [page EXCEPT ![c] = "ready"] /\ memberId' = [memberId EXCEPT ![c] = myId[c]]
         /\ \A x \in Connection \ {c} : entry'[x] = entry[x]
         /\ \A s \in StreamId : entry'[c][s] # NoEntry =>
              \/ /\ entry[c][s] # NoEntry
                 /\ entry'[c][s].opener = entry[c][s].opener /\ entry'[c][s].peer = entry[c][s].peer
              \/ \E o \in Connection : Opens(o, s) /\ room[o] = c /\ entry'[c][s] = NewEntry(myId[o], o)
<1> DEFINE f == Head(down[c])
<1>1. /\ f \in DownFrame /\ DownSound(c, f) /\ room[c] # NONE /\ f.kind # "ERROR"
      /\ page[c] = "ready" \/ (page[c] = "connecting" /\ f.kind = "WELCOME")
  BY FirstHandled
<1>2. RelayInv /\ PageTypes /\ PagesAgree
  BY DEF NetInv
<1>3. Handles(c, f)
  BY DEF PageReceives
<1>4. f.kind \in OfStream => f.stream \in StreamId
  <2> HIDE DEF f
  <2> QED BY <1>1, <1>2, Opened DEF DownSound, HasPart, DownFrame, OfStream
<1>5. f.member \in Nat /\ f.from \in Connection \cup {NONE} /\ f.body \in Body \cup {NONE}
  <2> HIDE DEF f
  <2> QED BY <1>1 DEF DownFrame
<1>6. page' = [page EXCEPT ![c] = "ready"] /\ memberId' = [memberId EXCEPT ![c] = myId[c]]
  <2>1. CASE f.kind = "WELCOME"
    BY <1>1, <1>3, <2>1 DEF Handles, DownSound
  <2>2. CASE f.kind # "WELCOME"
    <3>1. page[c] = "ready" /\ memberId[c] = myId[c] /\ UNCHANGED <<page, memberId>>
      BY <1>1, <1>2, <1>3, <2>2 DEF Handles, PagesAgree
    <3> QED BY <1>2, <3>1 DEF PageTypes
  <2> QED BY <2>1, <2>2
<1> DEFINE kept(s) == /\ entry[c][s] # NoEntry
                      /\ entry'[c][s].opener = entry[c][s].opener /\ entry'[c][s].peer = entry[c][s].peer
           new(s)  == \E o \in Connection : Opens(o, s) /\ room[o] = c /\ entry'[c][s] = NewEntry(myId[o], o)
<1>7. SUFFICES /\ entry' \in [Connection -> [StreamId -> Entry]]
               /\ \A x \in Connection \ {c} : entry'[x] = entry[x]
               /\ \A s \in StreamId : entry'[c][s] # NoEntry => kept(s) \/ new(s)
  BY <1>6
<1>8. entry \in [Connection -> [StreamId -> Entry]]
  BY <1>2 DEF PageTypes
<1>9. CASE f.kind \in {"WELCOME", "DGRAM"}
  <2>1. entry' = entry
    BY <1>3, <1>9 DEF Handles
  <2> QED BY <1>8, <2>1
<1>10. CASE f.kind = "OPEN"
  <2>1. entry' = [entry EXCEPT ![c][f.stream] = NewEntry(f.member, f.from)]
    BY <1>3, <1>10 DEF Handles
  <2>2. NewEntry(f.member, f.from) \in Entry
    <3>1. f.from \in Connection
      BY <1>1, <1>10 DEF DownSound
    <3> HIDE DEF f
    <3> QED BY <1>5, <3>1, NewEntryFields
  <2>3. f.stream \in StreamId
    BY <1>4, <1>10 DEF OfStream
  <2>4. f.from \in Connection /\ Opens(f.from, f.stream) /\ room[f.from] = c /\ f.member = myId[f.from]
    BY <1>1, <1>10 DEF DownSound
  <2> HIDE DEF f
  <2>5. entry'[c][f.stream] = NewEntry(myId[f.from], f.from)
    BY <1>8, <2>1, <2>3, <2>4
  <2>6. new(f.stream)
    BY <2>4, <2>5
  <2>7. \A s \in StreamId \ {f.stream} : entry'[c][s] = entry[c][s]
    BY <1>8, <2>1, <2>3
  <2>8. entry' \in [Connection -> [StreamId -> Entry]] /\ \A x \in Connection \ {c} : entry'[x] = entry[x]
    BY <1>8, <2>1, <2>2, <2>3
  <2> QED BY <2>6, <2>7, <2>8
<1>11. CASE f.kind = "DATA"
  <2>1. f.stream \in StreamId
    BY <1>4, <1>11 DEF OfStream
  <2> DEFINE chunk == [body |-> f.body, from |-> f.from]
             e     == entry[c][f.stream]
             n     == [e EXCEPT !.chunks = Append(@, chunk)]
  <2>2. \/ entry' = entry
        \/ entry[c][f.stream] # NoEntry /\ entry' = [entry EXCEPT ![c][f.stream] = n]
    <3>1. entry' = IF entry[c][f.stream] = NoEntry THEN entry
                   ELSE [entry EXCEPT ![c][f.stream].chunks = Append(@, [body |-> f.body, from |-> f.from])]
      BY <1>3, <1>11 DEF Handles
    <3> QED BY <1>8, <2>1, <3>1
  <2>3. CASE entry' = entry
    BY <1>8, <2>3
  <2>4. CASE entry[c][f.stream] # NoEntry /\ entry' = [entry EXCEPT ![c][f.stream] = n]
    <3>1. chunk \in [body : Body \cup {NONE}, from : Connection \cup {NONE}]
      BY <1>5
    <3> HIDE DEF chunk, f
    <3>2. e \in Entry
      BY <1>8, <2>1
    <3>3. n \in Entry /\ n.opener = e.opener /\ n.peer = e.peer
      <4> HIDE DEF e
      <4> QED BY <3>1, <3>2, EntryGets
    <3> HIDE DEF n
    <3>4. entry'[c][f.stream] = n /\ \A s \in StreamId \ {f.stream} : entry'[c][s] = entry[c][s]
      BY <1>8, <2>1, <2>4
    <3>5. entry' \in [Connection -> [StreamId -> Entry]] /\ \A x \in Connection \ {c} : entry'[x] = entry[x]
      BY <1>8, <2>1, <2>4, <3>3
    <3>6. kept(f.stream)
      BY <2>4, <3>3, <3>4
    <3> QED BY <3>4, <3>5, <3>6
  <2> QED BY <2>2, <2>3, <2>4
<1>12. CASE f.kind = "CLOSE"
  <2>1. f.stream \in StreamId
    BY <1>4, <1>12 DEF OfStream
  <2>2. entry' = [entry EXCEPT ![c][f.stream].open = FALSE]
    BY <1>3, <1>12 DEF Handles
  <2> HIDE DEF f
  <2> DEFINE e == entry[c][f.stream]
             n == [e EXCEPT !.open = FALSE]
  <2>3. entry' = [entry EXCEPT ![c][f.stream] = n] /\ e \in Entry
    BY <1>8, <2>1, <2>2
  <2>4. n \in Entry /\ n.opener = e.opener /\ n.peer = e.peer /\ (e = NoEntry => n = NoEntry)
    <3> HIDE DEF e
    <3> QED BY <2>3, EntryCloses
  <2> HIDE DEF n
  <2>5. entry'[c][f.stream] = n /\ \A s \in StreamId \ {f.stream} : entry'[c][s] = entry[c][s]
    BY <1>8, <2>1, <2>3
  <2>6. entry' \in [Connection -> [StreamId -> Entry]] /\ \A x \in Connection \ {c} : entry'[x] = entry[x]
    BY <1>8, <2>1, <2>3, <2>4
  <2>7. entry'[c][f.stream] # NoEntry => kept(f.stream)
    BY <2>4, <2>5
  <2> QED BY <2>5, <2>6, <2>7
<1>13. CASE f.kind = "PEER_LEFT"
  <2> DEFINE S == {s \in StreamId : entry[c][s].peer = f.member}
  <2>1. entry' = [entry EXCEPT ![c] = EntriesClosed(c, S)]
    BY <1>3, <1>13 DEF Handles
  <2> HIDE DEF S
  <2>2. \A s \in StreamId : /\ EntriesClosed(c, S)[s] \in Entry
                            /\ EntriesClosed(c, S)[s].opener = entry[c][s].opener
                            /\ EntriesClosed(c, S)[s].peer = entry[c][s].peer
                            /\ entry[c][s] = NoEntry => EntriesClosed(c, S)[s] = NoEntry
    <3> SUFFICES ASSUME NEW s \in StreamId
                 PROVE  /\ EntriesClosed(c, S)[s] \in Entry
                        /\ EntriesClosed(c, S)[s].opener = entry[c][s].opener
                        /\ EntriesClosed(c, S)[s].peer = entry[c][s].peer
                        /\ entry[c][s] = NoEntry => EntriesClosed(c, S)[s] = NoEntry
      OBVIOUS
    <3> DEFINE e == entry[c][s]
               n == [e EXCEPT !.open = FALSE]
    <3>1. e \in Entry /\ EntriesClosed(c, S)[s] \in {e, n}
      BY <1>8 DEF EntriesClosed
    <3>2. n \in Entry /\ n.opener = e.opener /\ n.peer = e.peer /\ (e = NoEntry => n = NoEntry)
      <4> HIDE DEF e
      <4> QED BY <3>1, EntryCloses
    <3> HIDE DEF n
    <3> QED BY <3>1, <3>2
  <2>3. EntriesClosed(c, S) \in [StreamId -> Entry]
    <3>1. EntriesClosed(c, S) = [s \in StreamId |-> EntriesClosed(c, S)[s]]
      BY DEF EntriesClosed
    <3> QED BY <2>2, <3>1
  <2>4. entry'[c] = EntriesClosed(c, S) /\ \A x \in Connection \ {c} : entry'[x] = entry[x]
    BY <1>8, <2>1
  <2>5. entry' \in [Connection -> [StreamId -> Entry]]
    BY <1>8, <2>1, <2>3
  <2>6. \A s \in StreamId : entry'[c][s] # NoEntry => kept(s)
    BY <2>2, <2>4
  <2> QED BY <2>4, <2>5, <2>6
<1> QED BY <1>1, <1>9, <1>10, <1>11, <1>12, <1>13 DEF DownFrame

LEMMA PageReceivesKeeps ==
  ASSUME NetInv, RelayInv', NEW c \in Connection, PageReceives(c)
  PROVE  NetInv'
<1>1. /\ page[c] \in {"connecting", "ready"} /\ down[c] # << >> /\ down' = [down EXCEPT ![c] = Tail(@)]
      /\ UNCHANGED <<socket, room, myId, closed, streams, hungUp, nextSeq, callsLeft, up, throttled>>
  BY DEF PageReceives, On, TakeFrame, Handles, roomVars
<1>2. RelayInv /\ PageTypes /\ RelayTypeOK
  BY DEF NetInv, RelayInv
<1>3. /\ entry' \in [Connection -> [StreamId -> Entry]]
      /\ page' = [page EXCEPT ![c] = "ready"] /\ memberId' = [memberId EXCEPT ![c] = myId[c]]
      /\ \A x \in Connection \ {c} : entry'[x] = entry[x]
  BY Handled
<1>4. \A s \in StreamId : entry'[c][s] # NoEntry =>
        \/ /\ entry[c][s] # NoEntry
           /\ entry'[c][s].opener = entry[c][s].opener /\ entry'[c][s].peer = entry[c][s].peer
        \/ \E o \in Connection : Opens(o, s) /\ room[o] = c /\ entry'[c][s] = NewEntry(myId[o], o)
  BY Handled
<1>5. room[c] # NONE
  BY FirstHandled
<1>6. Settled
  BY <1>1 DEF Settled
<1>7. page'[c] = "ready" /\ memberId'[c] = myId[c] /\ down'[c] = Tail(down[c])
  BY <1>1, <1>2, <1>3 DEF PageTypes, RelayTypeOK
<1>8. \A x \in Connection \ {c} : page'[x] = page[x] /\ memberId'[x] = memberId[x] /\ down'[x] = down[x]
  BY <1>1, <1>2, <1>3 DEF PageTypes, RelayTypeOK
<1>9. UpsSound'
  BY <1>1 DEF NetInv, UpsSound, UpSound, HasPart, Opens
<1>10. PageTypes'
  <2>1. myId[c] \in Member \cup {0}
    BY <1>2 DEF RelayTypeOK
  <2> QED BY <1>1, <1>2, <1>3, <2>1 DEF PageTypes
<1>11. PagesAgree'
  <2> SUFFICES ASSUME NEW x \in Connection
               PROVE  /\ x \in hungUp <=> page'[x] = "over"
                      /\ page'[x] = "none" <=> socket[x] = "none"
                      /\ page'[x] = "none" => up[x] = << >>
                      /\ page'[x] \in {"none", "over"} => down'[x] = << >>
                      /\ page'[x] = "ready" => room[x] # NONE /\ memberId'[x] = myId[x]
                      /\ nextSeq[x] + callsLeft[x] <= MaxCalls[x] + 1
    BY <1>1 DEF PagesAgree
  <2>1. PagesAgree
    BY DEF NetInv
  <2>2. CASE x = c
    BY <1>1, <1>5, <1>7, <2>1, <2>2 DEF PagesAgree
  <2>3. CASE x # c
    BY <1>8, <2>1, <2>3 DEF PagesAgree
  <2> QED BY <2>2, <2>3
<1>12. FirstAnswers'
  BY <1>1, <1>7, <1>8 DEF NetInv, FirstAnswers
<1>13. DownsSound'
  <2>1. \A x \in Connection : DownShrinks(x)
    BY <1>1, <1>7, <1>8 DEF DownShrinks
  <2> QED BY <1>6, <2>1, DownsKeep
<1>14. EntriesSound'
  <2>1. EntriesSound
    BY DEF NetInv
  <2> SUFFICES ASSUME NEW x \in Connection, NEW s \in StreamId, entry'[x][s] # NoEntry
               PROVE  /\ page'[x] = "ready"
                      /\ \/ /\ entry[x][s] # NoEntry
                            /\ entry'[x][s].opener = entry[x][s].opener /\ entry'[x][s].peer = entry[x][s].peer
                         \/ Opens(x, s) /\ entry'[x][s].opener = x /\ entry'[x][s].peer = 1
                         \/ \E o \in Connection : /\ Opens(o, s) /\ room[o] = x
                                                  /\ entry'[x][s].opener = o /\ entry'[x][s].peer = myId[o]
    BY <1>6, EntriesKeep
  <2>2. CASE x # c
    BY <1>3, <1>8, <2>1, <2>2 DEF EntriesSound
  <2>3. CASE x = c /\ \E o \in Connection : Opens(o, s) /\ room[o] = c /\ entry'[c][s] = NewEntry(myId[o], o)
    <3>1. PICK o \in Connection : Opens(o, s) /\ room[o] = c /\ entry'[c][s] = NewEntry(myId[o], o)
      BY <2>3
    <3>2. myId[o] \in Nat
      BY <1>2, <3>1, Opened, Constants
    <3>3. \A i \in Nat : NewEntry(i, o).opener = o /\ NewEntry(i, o).peer = i
      BY NewEntryFields
    <3>4. entry'[c][s].opener = o /\ entry'[c][s].peer = myId[o]
      BY <3>1, <3>2, <3>3
    <3> QED BY <1>7, <2>3, <3>1, <3>4
  <2> QED BY <1>4, <1>7, <2>2, <2>3
<1>15. PairsSound' /\ ClosedRoomsClose'
  BY <1>1 DEF NetInv, PairsSound, ClosedRoomsClose
<1>16. OpensAreNew'
  <2>1. \A x \in Connection : page'[x] = "over" \/ (page[x] # "over" /\ nextSeq'[x] = nextSeq[x])
    BY <1>1, <1>7, <1>8
  <2>2. ASSUME NEW x \in Connection, NEW s \in StreamId, entry'[x][s] # NoEntry, entry[x][s] = NoEntry
        PROVE  ~Opens(x, s)
    <3>1. x = c
      BY <1>3, <2>2
    <3>2. PICK o \in Connection : Opens(o, s) /\ room[o] = c
      BY <1>4, <2>2, <3>1
    <3> QED BY <1>2, <3>1, <3>2, Opened DEF Opens
  <2>3. \A x \in Connection : UpShrinks(x) /\ (Present(x)' => Present(x))
    BY <1>1 DEF UpShrinks, Present
  <2> QED BY <1>1, <2>1, <2>2, <2>3, OpensKeep
<1> QED BY <1>9, <1>10, <1>11, <1>12, <1>13, <1>14, <1>15, <1>16 DEF NetInv

-----------------------------------------------------------------------------
(* The engine's calls.                                                       *)

\* Nothing happens outside c's page but that a frame may be on its way.
Calling(c) ==
  /\ page[c] = "ready"
  /\ Calls(c)
  /\ UNCHANGED <<relayVars, page, memberId, throttled>>
  /\ up' = up \/ \E f \in UpFrame : up' = [up EXCEPT ![c] = Append(@, f)] /\ UpSound(c, f)
  /\ nextSeq' \in {nextSeq, [nextSeq EXCEPT ![c] = @ + 1]}
  /\ \/ entry' = entry
     \/ \E s \in StreamId, n \in Entry :
          /\ entry' = [entry EXCEPT ![c][s] = n]
          /\ \/ n = NoEntry
             \/ n.opener = entry[c][s].opener /\ n.peer = entry[c][s].peer /\ entry[c][s] # NoEntry
             \/ n.opener = c /\ n.peer = 1 /\ Opens(c, s)

LEMMA CallKeeps ==
  ASSUME NetInv, RelayInv', NEW c \in Connection, Calling(c), OpensAreNew'
  PROVE  NetInv'
<1>1. /\ page[c] = "ready" /\ callsLeft[c] > 0 /\ callsLeft' = [callsLeft EXCEPT ![c] = @ - 1]
      /\ UNCHANGED <<socket, room, myId, closed, streams, down, hungUp, page, memberId, throttled>>
      /\ up' = up \/ \E f \in UpFrame : up' = [up EXCEPT ![c] = Append(@, f)] /\ UpSound(c, f)
      /\ nextSeq' \in {nextSeq, [nextSeq EXCEPT ![c] = @ + 1]}
  BY DEF Calling, Calls, relayVars, roomVars
<1>2. RelayInv /\ PageTypes /\ PagesAgree /\ EntriesSound
  BY DEF NetInv
<1>3. room[c] # NONE
  BY <1>1, <1>2 DEF PagesAgree
<1>4. Settled
  BY <1>1 DEF Settled
<1>5. UpsSound' /\ \A x \in Connection : up'[x] \in Seq(UpFrame)
  <2>1. \A x \in Connection :
          UpShrinks(x) \/ \E f \in UpFrame : /\ up'[x] = Append(up[x], f) /\ UpSound(x, f)
                                             /\ room[x] # NONE \/ up[x] = << >>
    <3>1. up \in [Connection -> Seq(UpFrame)]
      BY <1>2 DEF PageTypes
    <3>2. CASE up' = up
      BY <3>2 DEF UpShrinks
    <3>3. ASSUME NEW f \in UpFrame, up' = [up EXCEPT ![c] = Append(@, f)], UpSound(c, f), NEW x \in Connection
          PROVE  \/ UpShrinks(x)
                 \/ /\ up'[x] = Append(up[x], f) /\ UpSound(x, f)
                    /\ room[x] # NONE \/ up[x] = << >>
      BY <1>3, <3>1, <3>3 DEF UpShrinks
    <3> QED BY <1>1, <3>2, <3>3
  <2> QED BY <1>1, <1>4, <2>1, UpsKeep
<1>6. callsLeft'[c] = callsLeft[c] - 1 /\ nextSeq'[c] \in {nextSeq[c], nextSeq[c] + 1}
  BY <1>1, <1>2 DEF PageTypes
<1>7. /\ entry' \in [Connection -> [StreamId -> Entry]]
      /\ \A x \in Connection, i \in StreamId :
           \/ entry'[x][i] \in {entry[x][i], NoEntry}
           \/ x = c /\ entry'[c][i].opener = entry[c][i].opener /\ entry'[c][i].peer = entry[c][i].peer
                    /\ entry[c][i] # NoEntry
           \/ x = c /\ entry'[c][i].opener = c /\ entry'[c][i].peer = 1 /\ Opens(c, i)
  <2>1. CASE entry' = entry
    BY <1>2, <2>1 DEF PageTypes
  <2>2. ASSUME NEW s \in StreamId, NEW n \in Entry,
               /\ entry' = [entry EXCEPT ![c][s] = n]
               /\ \/ n = NoEntry
                  \/ n.opener = entry[c][s].opener /\ n.peer = entry[c][s].peer /\ entry[c][s] # NoEntry
                  \/ n.opener = c /\ n.peer = 1 /\ Opens(c, s)
        PROVE  /\ entry' \in [Connection -> [StreamId -> Entry]]
               /\ \A x \in Connection, i \in StreamId :
                    \/ entry'[x][i] \in {entry[x][i], NoEntry}
                    \/ x = c /\ entry'[c][i].opener = entry[c][i].opener /\ entry'[c][i].peer = entry[c][i].peer
                             /\ entry[c][i] # NoEntry
                    \/ x = c /\ entry'[c][i].opener = c /\ entry'[c][i].peer = 1 /\ Opens(c, i)
    <3>1. /\ entry'[c][s] = n /\ entry' \in [Connection -> [StreamId -> Entry]]
          /\ \A x \in Connection, i \in StreamId : x # c \/ i # s => entry'[x][i] = entry[x][i]
      BY <1>2, <2>2 DEF PageTypes
    <3> QED BY <2>2, <3>1
  <2> QED BY <2>1, <2>2 DEF Calling
<1>9. PageTypes'
  <2>1. nextSeq[c] \in Nat \ {0} /\ callsLeft[c] \in Nat
    BY <1>2 DEF PageTypes
  <2>2. nextSeq' \in [Connection -> Nat \ {0}]
    BY <1>1, <1>2, <2>1 DEF PageTypes
  <2>3. callsLeft' \in [Connection -> Nat]
    BY <1>1, <1>2, <2>1 DEF PageTypes
  <2>4. up' \in [Connection -> Seq(UpFrame)]
    BY <1>1, <1>2, <1>5 DEF PageTypes
  <2> QED BY <1>1, <1>2, <1>7, <2>2, <2>3, <2>4 DEF PageTypes
<1>10. PagesAgree'
  <2> SUFFICES ASSUME NEW x \in Connection
               PROVE  /\ page[x] = "none" => up'[x] = << >>
                      /\ nextSeq'[x] + callsLeft'[x] <= MaxCalls[x] + 1
    BY <1>1, <1>2 DEF PagesAgree
  <2>1. CASE x = c
    <3>1. nextSeq[c] \in Nat /\ callsLeft[c] \in Nat /\ MaxCalls[c] \in Nat
      BY <1>2, PageConstants DEF PageTypes
    <3>2. nextSeq[c] + callsLeft[c] <= MaxCalls[c] + 1
      BY <1>2 DEF PagesAgree
    <3> QED BY <1>1, <1>6, <2>1, <3>1, <3>2
  <2>2. CASE x # c
    <3>1. up'[x] = up[x] /\ nextSeq'[x] = nextSeq[x] /\ callsLeft'[x] = callsLeft[x]
      BY <1>1, <1>2, <2>2 DEF PageTypes
    <3> QED BY <1>2, <3>1 DEF PagesAgree
  <2> QED BY <2>1, <2>2
<1>11. FirstAnswers' /\ ClosedRoomsClose' /\ PairsSound'
  BY <1>1 DEF NetInv, FirstAnswers, ClosedRoomsClose, PairsSound
<1>12. DownsSound'
  BY <1>1, <1>4, DownsKeep DEF DownShrinks
<1>13. EntriesSound'
  <2> SUFFICES ASSUME NEW x \in Connection, NEW i \in StreamId, entry'[x][i] # NoEntry
               PROVE  /\ page'[x] = "ready"
                      /\ \/ /\ entry[x][i] # NoEntry
                            /\ entry'[x][i].opener = entry[x][i].opener /\ entry'[x][i].peer = entry[x][i].peer
                         \/ Opens(x, i) /\ entry'[x][i].opener = x /\ entry'[x][i].peer = 1
                         \/ \E o \in Connection : /\ Opens(o, i) /\ room[o] = x
                                                  /\ entry'[x][i].opener = o /\ entry'[x][i].peer = myId[o]
    BY <1>4, EntriesKeep
  <2>1. CASE entry'[x][i] = entry[x][i]
    BY <1>1, <1>2, <2>1 DEF EntriesSound
  <2>2. CASE entry'[x][i] # entry[x][i]
    BY <1>1, <1>7, <2>2
  <2> QED BY <2>1, <2>2
<1> QED BY <1>5, <1>9, <1>10, <1>11, <1>12, <1>13 DEF NetInv

LEMMA StreamFrames ==
  ASSUME NEW kind \in OfStream, NEW i \in Member \cup {0}, NEW s \in StreamId, NEW b \in Body \cup {NONE}
  PROVE  LET f == ToMember(kind, i, s, b)
         IN  f \in UpFrame /\ f.kind = kind /\ f.dest = i /\ f.stream = s /\ f.body = b
<1> DEFINE f == ToMember(kind, i, s, b)
<1>1. /\ f \in [kind : {"DGRAM", "OPEN", "DATA", "CLOSE"}, dest : Member \cup {0}, stream : StreamId \cup {0},
                body : Body \cup {NONE}]
      /\ f.kind = kind /\ f.dest = i /\ f.stream = s /\ f.body = b
  BY DEF ToMember, OfStream
<1> QED BY <1>1 DEF UpFrame

\* The stream that the engine opens is c's to open, under a number of its own.
LEMMA NextStream ==
  ASSUME NetInv, NEW c \in Connection, PageOpens(c)
  PROVE  LET s == StreamIdOf(myId[c], nextSeq[c])
         IN  /\ page[c] = "ready" /\ memberId[c] = myId[c] /\ s \in StreamId /\ Opens(c, s) /\ NotYet(c, s)
             /\ nextSeq[c] \in 1 .. SequenceSpan - 1 /\ myId[c] \in Nat
<1> DEFINE s == StreamIdOf(myId[c], nextSeq[c])
<1>1. page[c] = "ready" /\ c \in Guests /\ memberId[c] # 1 /\ callsLeft[c] > 0
  BY DEF PageOpens, Calls
<1>2. RelayInv /\ PageTypes /\ PagesAgree
  BY DEF NetInv
<1>3. room[c] # NONE /\ memberId[c] = myId[c]
  BY <1>1, <1>2 DEF PagesAgree
<1>4. myId[c] \in Member \ {1} /\ room[c] # c
  BY <1>1, <1>2, <1>3, CreatorsRoom
<1>5. /\ nextSeq[c] \in Nat \ {0} /\ callsLeft[c] \in Nat /\ MaxCalls[c] \in Nat
      /\ nextSeq[c] + callsLeft[c] <= MaxCalls[c] + 1 /\ MaxCalls[c] < SequenceSpan /\ SequenceSpan \in Nat
  BY <1>2, PageConstants DEF PageTypes, PagesAgree
<1>6. nextSeq[c] \in 1 .. MaxCalls[c] /\ nextSeq[c] \in 1 .. SequenceSpan - 1 /\ nextSeq[c] \in nextSeq[c] .. SequenceSpan - 1
  BY <1>1, <1>5
<1>7. s \in StreamId
  BY <1>1, <1>4, <1>6, PageConstants
<1>8. Opens(c, s) /\ NotYet(c, s)
  BY <1>3, <1>4, <1>6 DEF Opens, NotYet
<1> QED BY <1>1, <1>3, <1>4, <1>6, <1>7, <1>8, Constants

LEMMA PageOpensKeeps ==
  ASSUME NetInv, RelayInv', NEW c \in Connection, PageOpens(c)
  PROVE  NetInv'
<1> DEFINE s == StreamIdOf(myId[c], nextSeq[c])
           f == ToMember("OPEN", 1, s, NONE)
           n == NewEntry(1, c)
<1>1. /\ page[c] = "ready" /\ memberId[c] = myId[c] /\ s \in StreamId /\ Opens(c, s) /\ NotYet(c, s)
      /\ nextSeq[c] \in 1 .. SequenceSpan - 1 /\ myId[c] \in Nat
  BY NextStream
<1>2. /\ Calls(c) /\ UNCHANGED <<relayVars, page, memberId, throttled>>
      /\ entry' = [entry EXCEPT ![c][s] = n] /\ up' = [up EXCEPT ![c] = Append(@, f)]
      /\ nextSeq' = [nextSeq EXCEPT ![c] = @ + 1]
  BY <1>1 DEF PageOpens, Sends
<1>3. f \in UpFrame /\ f.kind = "OPEN" /\ f.dest = 1 /\ f.stream = s
  <2>1. s \in StreamId
    BY <1>1
  <2> HIDE DEF s
  <2> QED BY <2>1, Constants, StreamFrames DEF OfStream
<1>4. n \in Entry /\ n.opener = c /\ n.peer = 1
  BY NewEntryFields
<1> HIDE DEF s, f, n
<1>5. UpSound(c, f)
  BY <1>1, <1>3 DEF UpSound, HasPart, OfStream, Opens
<1>6. Calling(c)
  BY <1>1, <1>2, <1>3, <1>4, <1>5 DEF Calling
<1>7. RelayInv /\ PageTypes /\ OpensAreNew
  BY DEF NetInv
<1>8. OpensAreNew'
  <2> SUFFICES ASSUME NEW o \in Connection, NEW i \in StreamId, Opens(o, i)'
               PROVE  /\ OpenOnce(up'[o], i)
                      /\ page'[o] # "over" /\ NotYet(o, i)' => ~Underway(up'[o], OfStream, i) /\ entry'[o][i] = NoEntry
                      /\ Present(o)' /\ (Underway(up'[o], {"OPEN"}, i) \/ (page'[o] # "over" /\ NotYet(o, i)')) =>
                           streams'[room'[o]][i] = NoPair
    BY DEF OpensAreNew
  <2>1. UNCHANGED <<socket, room, myId, streams, page>>
    BY <1>2 DEF relayVars, roomVars
  <2>2. Opens(o, i) /\ up[o] \in Seq(UpFrame) /\ (Present(o)' <=> Present(o))
    BY <1>7, <2>1 DEF Opens, PageTypes, Present
  <2>3. CASE o # c
    <3>1. up'[o] = up[o] /\ entry'[o] = entry[o] /\ nextSeq'[o] = nextSeq[o]
      BY <1>2, <1>7, <2>3 DEF PageTypes
    <3> QED BY <1>7, <2>1, <2>2, <2>3, <3>1 DEF OpensAreNew, NotYet
  <2>4. CASE o = c
    <3>1. up'[c] = Append(up[c], f) /\ nextSeq'[c] = nextSeq[c] + 1 /\ entry'[c] = [entry[c] EXCEPT ![s] = n]
      BY <1>2, <1>7 DEF PageTypes
    <3>2. \A kinds : Underway(up'[c], kinds, i) <=> Underway(up[c], kinds, i) \/ (f.kind \in kinds /\ f.stream = i)
      BY <2>2, <2>4, <3>1, UnderwaySent
    <3>3. NotYet(c, i)' => NotYet(c, i) /\ i # s
      <4> SUFFICES ASSUME NotYet(c, i)' PROVE NotYet(c, i) /\ i # s
        OBVIOUS
      <4>1. PICK q \in nextSeq[c] + 1 .. SequenceSpan - 1 : i = StreamIdOf(myId[c], q)
        BY <2>1, <3>1 DEF NotYet
      <4>2. q \in nextSeq[c] .. SequenceSpan - 1 /\ q \in 1 .. SequenceSpan - 1 /\ q # nextSeq[c]
        BY <1>1, <4>1, PageConstants
      <4>3. i # s
        BY <1>1, <4>1, <4>2, NumbersTell DEF s
      <4> QED BY <4>1, <4>2, <4>3 DEF NotYet
    <3>4. OpenOnce(up'[c], i)
      <4>1. /\ DOMAIN up'[c] = DOMAIN up[c] \cup {Len(up[c]) + 1}
            /\ \A k \in DOMAIN up[c] : up'[c][k] = up[c][k]
            /\ up'[c][Len(up[c]) + 1] = f
        BY <2>2, <2>4, <3>1, Appended
      <4>2. OpenOnce(up[c], i)
        BY <1>7, <2>2, <2>4 DEF OpensAreNew
      <4>3. CASE i # s
        BY <1>3, <4>1, <4>2, <4>3 DEF OpenOnce
      <4>4. CASE i = s
        <5>1. ~Underway(up[c], OfStream, s)
          BY <1>1, <1>7 DEF OpensAreNew
        <5>2. \A k \in DOMAIN up[c] : ~(up[c][k].kind = "OPEN" /\ up[c][k].stream = s)
          BY <5>1 DEF Underway, OfStream
        <5> QED BY <4>1, <4>4, <5>2 DEF OpenOnce
      <4> QED BY <4>3, <4>4
    <3>5. NotYet(c, i)' => ~Underway(up'[c], OfStream, i) /\ entry'[c][i] = NoEntry
      <4> SUFFICES ASSUME NotYet(c, i)' PROVE ~Underway(up'[c], OfStream, i) /\ entry'[c][i] = NoEntry
        OBVIOUS
      <4>1. NotYet(c, i) /\ i # s
        BY <3>3
      <4>2. ~Underway(up[c], OfStream, i) /\ entry[c][i] = NoEntry
        BY <1>1, <1>7, <2>2, <2>4, <4>1 DEF OpensAreNew
      <4> QED BY <1>3, <3>1, <3>2, <4>1, <4>2
    <3>6. Present(c) /\ (Underway(up'[c], {"OPEN"}, i) \/ NotYet(c, i)') => streams[room[c]][i] = NoPair
      <4>1. Underway(up'[c], {"OPEN"}, i) \/ NotYet(c, i)' => Underway(up[c], {"OPEN"}, i) \/ NotYet(c, i)
        BY <1>1, <1>3, <3>2, <3>3
      <4> QED BY <1>1, <1>7, <2>2, <2>4, <4>1 DEF OpensAreNew
    <3> QED BY <2>1, <2>2, <2>4, <3>4, <3>5, <3>6
  <2> QED BY <2>3, <2>4
<1> QED BY <1>6, <1>8, CallKeeps

\* The other calls open nothing.
LEMMA OtherCalls ==
  ASSUME NetInv, RelayInv', NEW c \in Connection, Calling(c), UNCHANGED nextSeq,
         \A x \in Connection, i \in StreamId : entry'[x][i] = NoEntry \/ entry[x][i] # NoEntry,
         up' = up \/ \E f : /\ up' = [up EXCEPT ![c] = Append(@, f)] /\ f.kind # "OPEN"
                            /\ f.kind \in OfStream => entry[c][f.stream] # NoEntry
  PROVE  NetInv'
<1>1. /\ UNCHANGED <<socket, room, myId, streams, page, nextSeq>>
      /\ page[c] = "ready"
  BY DEF Calling, relayVars, roomVars
<1>2. PageTypes
  BY DEF NetInv
<1>4. \A x \in Connection : UpShrinks(x) \/ \E f : /\ up'[x] = Append(up[x], f) /\ f.kind # "OPEN"
                                                   /\ f.kind \in OfStream => entry[x][f.stream] # NoEntry
  BY <1>2 DEF PageTypes, UpShrinks
<1>5. OpensAreNew'
  <2>1. \A x \in Connection : page'[x] = "over" \/ (page[x] # "over" /\ nextSeq'[x] = nextSeq[x])
    BY <1>1
  <2>2. \A x \in Connection : Present(x)' => Present(x)
    BY <1>1 DEF Present
  <2> QED BY <1>1, <1>4, <2>1, <2>2, OpensKeep
<1> QED BY <1>5, CallKeeps

LEMMA PageSendsKeeps ==
  ASSUME NetInv, RelayInv', NEW c \in Connection, NEW s \in StreamId, PageSends(c, s)
  PROVE  NetInv'
<1> DEFINE body == [opener |-> entry[c][s].opener, n |-> entry[c][s].sent + 1]
           f    == ToMember("DATA", 0, s, body)
           n    == [entry[c][s] EXCEPT !.sent = @ + 1]
<1>1. /\ page[c] = "ready" /\ entry[c][s].open /\ entry[c][s].sent < MaxChunks /\ Calls(c)
      /\ up' = [up EXCEPT ![c] = Append(@, f)]
      /\ UNCHANGED <<relayVars, page, memberId, nextSeq, throttled>>
  BY DEF PageSends, Sends
<1>2. PageTypes /\ EntriesSound
  BY DEF NetInv
<1>3. entry' = [entry EXCEPT ![c][s] = n] /\ entry[c][s] \in Entry
  <2>1. entry \in [Connection -> [StreamId -> Entry]]
    BY <1>2 DEF PageTypes
  <2>2. entry[c] \in [StreamId -> Entry] /\ entry[c][s] \in Entry
    BY <2>1
  <2>3. entry' = [entry EXCEPT ![c][s].sent = @ + 1]
    BY DEF PageSends
  <2> QED BY <2>1, <2>2, <2>3
<1>4. entry[c][s] # NoEntry
  BY <1>1, NoEntryFields
<1>5. PICK o \in Connection : Opens(o, s) /\ entry[c][s].opener = o /\ c \in {o, room[o]}
  BY <1>2, <1>4 DEF EntriesSound
<1>6. n \in Entry /\ n.opener = entry[c][s].opener /\ n.peer = entry[c][s].peer
  BY <1>1, <1>3, EntrySends
<1>7. f \in UpFrame /\ f.kind = "DATA" /\ f.stream = s
  <2>1. entry[c][s].sent + 1 \in 1 .. MaxChunks
    <3>1. entry[c][s].sent \in 0 .. MaxChunks
      BY <1>3 DEF Entry
    <3>2. MaxChunks \in Nat
      BY PageConstants
    <3>3. entry[c][s].sent < MaxChunks
      BY <1>1
    <3> QED BY <3>1, <3>2, <3>3
  <2>2. body \in Body
    BY <1>5, <2>1, PageConstants DEF Chunk
  <2> HIDE DEF body
  <2> QED BY <2>2, StreamFrames DEF OfStream
<1> HIDE DEF f, n
<1>8. UpSound(c, f)
  <2>1. room[c] # NONE
    BY <1>1 DEF NetInv, PagesAgree
  <2>2. HasPart(c, s)
    BY <1>5 DEF HasPart
  <2> QED BY <1>7, <2>1, <2>2 DEF UpSound, OfStream
<1>9. Calling(c)
  BY <1>1, <1>3, <1>4, <1>6, <1>7, <1>8 DEF Calling
<1>10. \A x \in Connection, i \in StreamId : entry'[x][i] = NoEntry \/ entry[x][i] # NoEntry
  BY <1>2, <1>3, <1>4 DEF PageTypes
<1> QED BY <1>1, <1>4, <1>7, <1>9, <1>10, OtherCalls

LEMMA PageClosesStreamKeeps ==
  ASSUME NetInv, RelayInv', NEW c \in Connection, NEW s \in StreamId, PageClosesStream(c, s)
  PROVE  NetInv'
<1> DEFINE f == ToMember("CLOSE", 0, s, NONE)
<1>1. /\ entry[c][s] # NoEntry /\ Calls(c) /\ entry' = [entry EXCEPT ![c][s] = NoEntry]
      /\ up' = up \/ up' = [up EXCEPT ![c] = Append(@, f)]
      /\ UNCHANGED <<relayVars, page, memberId, nextSeq, throttled>>
  BY DEF PageClosesStream, Sends
<1>2. PageTypes /\ EntriesSound
  BY DEF NetInv
<1>3. PICK o \in Connection : page[c] = "ready" /\ Opens(o, s) /\ c \in {o, room[o]}
  BY <1>1, <1>2 DEF EntriesSound
<1>4. f \in UpFrame /\ f.kind = "CLOSE" /\ f.stream = s
  BY StreamFrames DEF OfStream
<1> HIDE DEF f
<1>5. UpSound(c, f)
  <2>1. room[c] # NONE
    BY <1>3 DEF NetInv, PagesAgree
  <2>2. HasPart(c, s)
    BY <1>3 DEF HasPart
  <2> QED BY <1>4, <2>1, <2>2 DEF UpSound, OfStream
<1>6. Calling(c)
  BY <1>1, <1>3, <1>4, <1>5, NoEntryFields DEF Calling
<1>7. \A x \in Connection, i \in StreamId : entry'[x][i] = NoEntry \/ entry[x][i] # NoEntry
  BY <1>1, <1>2 DEF PageTypes
<1> QED BY <1>1, <1>4, <1>6, <1>7, OtherCalls

LEMMA OtherFramesKeep ==
  ASSUME NetInv, RelayInv', NEW c \in Connection, PageSendsDgram(c) \/ PageLists(c)
  PROVE  NetInv'
<1>1. page[c] = "ready" /\ Calls(c) /\ UNCHANGED <<relayVars, page, memberId, entry, nextSeq, throttled>>
  BY DEF PageSendsDgram, PageLists
<1>2. room[c] # NONE /\ memberId[c] = myId[c]
  BY <1>1 DEF NetInv, PagesAgree
<1>3. PICK f \in UpFrame : /\ up' = [up EXCEPT ![c] = Append(@, f)]
                           /\ \/ f.kind = "DGRAM"
                              \/ f.kind \in {"PUBLISH", "UNLIST"} /\ memberId[c] = 1
  <2>1. CASE PageSendsDgram(c)
    <3>1. PICK i \in Member \cup {1} : Sends(c, ToMember("DGRAM", i, 0, NONE))
      BY <2>1 DEF PageSendsDgram
    <3>2. ToMember("DGRAM", i, 0, NONE) \in UpFrame /\ ToMember("DGRAM", i, 0, NONE).kind = "DGRAM"
      BY Constants DEF ToMember, UpFrame
    <3> QED BY <3>1, <3>2 DEF Sends
  <2>2. CASE PageLists(c)
    <3>1. PICK kind \in {"PUBLISH", "UNLIST"} : Sends(c, [kind |-> kind]) /\ memberId[c] = 1
      BY <2>2 DEF PageLists
    <3>2. [kind |-> kind] \in UpFrame
      BY DEF UpFrame
    <3> QED BY <3>1, <3>2 DEF Sends
  <2> QED BY <2>1, <2>2
<1>4. UpSound(c, f)
  BY <1>2, <1>3 DEF UpSound, OfStream
<1>5. Calling(c)
  BY <1>1, <1>3, <1>4 DEF Calling
<1>6. f.kind # "OPEN" /\ f.kind \notin OfStream
  BY <1>3 DEF OfStream
<1> QED BY <1>1, <1>3, <1>5, <1>6, OtherCalls

-----------------------------------------------------------------------------
(* The theorems.                                                             *)

\* What the pages and the wires do is, for the relay, what its clients may do.
LEMMA StepIsRelayStep ==
  ASSUME NetInv, [NetNext]_netVars
  PROVE  [RelayNext]_relayVars
<1>1. ASSUME NEW c \in Connection, Connect(c) PROVE RelayNext
  BY <1>1 DEF Connect, RelayNext
<1>2. ASSUME NEW c \in Connection, PageCloses(c) PROVE RelayNext
  BY <1>2 DEF PageCloses, RelayNext
<1>3. ASSUME NEW c \in Connection, PageReceives(c) PROVE RelayNext
  BY <1>3 DEF PageReceives, RelayNext
<1>4. ASSUME NEW c \in Connection,
             PageOpens(c) \/ PageSendsDgram(c) \/ PageLists(c) \/ \E s \in StreamId : PageSends(c, s) \/ PageClosesStream(c, s)
      PROVE  UNCHANGED relayVars
  BY <1>4 DEF PageOpens, PageSendsDgram, PageLists, PageSends, PageClosesStream
<1>5. ASSUME NEW c \in Connection, RelayReceives(c) PROVE RelayNext
  <2>1. Head(up[c]) \in UpFrame
    BY <1>5, FirstFrame DEF RelayReceives
  <2> QED BY <1>5, <2>1 DEF RelayReceives, RelayNext
<1>6. ASSUME NEW c \in Connection, RelayNotices(c) PROVE RelayNext
  BY <1>6 DEF RelayNotices, RelayNext
<1>7. CASE RelayTimers
  <2>1. hungUp \cup MayAnswerLate \subseteq Connection
    BY PageConstants DEF NetInv, RelayInv, RelayTypeOK
  <2> QED BY <1>7, <2>1 DEF RelayTimers, RelayNext
<1>8. CASE UNCHANGED netVars
  BY <1>8 DEF netVars
<1> QED BY <1>1, <1>2, <1>3, <1>4, <1>5, <1>6, <1>7, <1>8 DEF NetNext

LEMMA NetStepKeeps ==
  ASSUME NetInv, [NetNext]_netVars
  PROVE  NetInv'
<1>1. RelayInv'
  <2>1. RelayInv /\ [RelayNext]_relayVars
    BY StepIsRelayStep DEF NetInv
  <2> QED BY <2>1, StepKeeps
<1>2. ASSUME NEW c \in Connection, Connect(c) \/ PageCloses(c) \/ PageReceives(c) PROVE NetInv'
  BY <1>1, <1>2, ConnectKeeps, PageClosesKeeps, PageReceivesKeeps
<1>3. ASSUME NEW c \in Connection, PageOpens(c) \/ PageSendsDgram(c) \/ PageLists(c) PROVE NetInv'
  BY <1>1, <1>3, PageOpensKeeps, OtherFramesKeep
<1>4. ASSUME NEW c \in Connection, NEW s \in StreamId, PageSends(c, s) \/ PageClosesStream(c, s) PROVE NetInv'
  BY <1>1, <1>4, PageSendsKeeps, PageClosesStreamKeeps
<1>5. ASSUME NEW c \in Connection, RelayReceives(c) PROVE NetInv'
  <2>1. CASE room[c] = NONE
    BY <1>1, <1>5, <2>1, StrangerReceives, StrangerKeeps
  <2>2. CASE room[c] # NONE
    BY <1>1, <1>5, <2>2, MemberReceives, MemberKeeps
  <2> QED BY <2>1, <2>2
<1>6. ASSUME NEW c \in Connection, RelayNotices(c) PROVE NetInv'
  BY <1>1, <1>6, MemberLeaves, LeavesKeeps
<1>7. CASE RelayTimers
  BY <1>1, <1>7, TimersKeep
<1>8. CASE UNCHANGED netVars
  <2>1. UNCHANGED <<socket, room, myId, closed, streams, down, hungUp, page, memberId, entry, nextSeq, callsLeft, up,
                    throttled>>
    BY <1>8 DEF netVars, relayVars, roomVars, pageVars
  <2>2. UpsSound' /\ DownsSound'
    BY <2>1 DEF NetInv, UpsSound, DownsSound, UpSound, DownSound, HasPart, Opens
  <2>3. PageTypes' /\ PagesAgree' /\ FirstAnswers'
    BY <2>1 DEF NetInv, PageTypes, PagesAgree, FirstAnswers
  <2>4. EntriesSound' /\ PairsSound' /\ ClosedRoomsClose'
    BY <2>1 DEF NetInv, EntriesSound, PairsSound, Opens, ClosedRoomsClose
  <2>5. OpensAreNew'
    BY <2>1 DEF NetInv, OpensAreNew, Opens, NotYet, Present
  <2> QED BY <1>1, <2>2, <2>3, <2>4, <2>5 DEF NetInv
<1> QED BY <1>2, <1>3, <1>4, <1>5, <1>6, <1>7, <1>8 DEF NetNext

LEMMA NetStarts == NetInit => NetInv
<1> SUFFICES ASSUME NetInit PROVE NetInv
  OBVIOUS
<1>1. RelayInv
  BY InitKeeps DEF NetInit
<1>2. /\ \A c \in Connection : /\ page[c] = "none" /\ memberId[c] = 0 /\ nextSeq[c] = 1 /\ callsLeft[c] = MaxCalls[c]
                               /\ up[c] = << >> /\ socket[c] = "none" /\ room[c] = NONE /\ down[c] = << >>
      /\ \A c \in Connection, s \in StreamId : entry[c][s] = NoEntry /\ streams[c][s] = NoPair
      /\ closed = {} /\ hungUp = {} /\ throttled = {}
  BY DEF NetInit, RelayInit
<1>3. PageTypes
  <2>1. entry \in [Connection -> [StreamId -> Entry]]
    BY NoEntryFields DEF NetInit
  <2>2. callsLeft \in [Connection -> Nat] /\ nextSeq \in [Connection -> Nat \ {0}]
    BY PageConstants DEF NetInit
  <2> QED BY <2>1, <2>2 DEF NetInit, PageTypes
<1>4. PagesAgree
  BY <1>2, PageConstants DEF PagesAgree
<1>5. FirstAnswers /\ UpsSound /\ DownsSound
  BY <1>2 DEF FirstAnswers, UpsSound, DownsSound
<1>6. EntriesSound /\ PairsSound
  BY <1>2 DEF EntriesSound, PairsSound
<1>7. OpensAreNew
  BY <1>2 DEF OpensAreNew, Opens
<1>8. ClosedRoomsClose
  BY <1>2 DEF ClosedRoomsClose
<1> QED BY <1>1, <1>3, <1>4, <1>5, <1>6, <1>7, <1>8 DEF NetInv

\* Pages, relay and the frames between them always agree, as long as sequence numbers fit.
THEOREM PagesAndRelayAgree == NetSpec => []NetInv
<1>1. NetInit => NetInv
  BY NetStarts
<1>2. NetInv /\ [NetNext]_netVars => NetInv'
  BY NetStepKeeps
<1> QED BY <1>1, <1>2, PTL DEF NetSpec

\* The relay with its pages is the relay: what the pages and the network do to it is what the server's
\* handlers are proved against, whoever its clients are.
THEOREM PagesAreClients == NetSpec => RelaySpec
<1>1. NetInit => RelayInit
  BY DEF NetInit
<1>2. NetInv /\ [NetNext]_netVars => [RelayNext]_relayVars
  BY StepIsRelayStep
<1> QED BY <1>1, <1>2, PagesAndRelayAgree, PTL DEF NetSpec, RelaySpec

\* A page that is ready has its number from the relay, and nothing is left of a page that is over.
THEOREM PagesStayTyped == NetSpec => []NetTypeOK
<1>1. NetInv => NetTypeOK
  BY DEF NetInv, RelayInv, PageTypes, PagesAgree, EntriesSound, NetTypeOK
<1> QED BY <1>1, PagesAndRelayAgree, PTL

\* No page is thrown out for what its engine has sent: the relay accepts every frame of a member.
THEOREM FramesAlwaysAccepted == NetSpec => []EngineFramesAccepted
<1>1. ASSUME NetInv PROVE EngineFramesAccepted
  <2> SUFFICES ASSUME NEW c \in Connection, page[c] = "ready", up[c] # << >>, Present(c)
               PROVE  Acceptable(c, Head(up[c]))
    BY DEF EngineFramesAccepted
  <2>1. RelayInv /\ PairsSound /\ OpensAreNew /\ room[c] # NONE
    BY <1>1 DEF NetInv, PagesAgree
  <2>2. up[c] \in Seq(UpFrame) /\ UpSound(c, Head(up[c]))
    BY <1>1, FirstFrame
  <2> QED BY <2>1, <2>2, FramesAccepted
<1> QED BY <1>1, PagesAndRelayAgree, PTL

-----------------------------------------------------------------------------
(* What a wire has of a stream.                                              *)

Opening(wire, s) == Underway(wire, {"OPEN"}, s)
Closing(wire, s) == Underway(wire, {"CLOSE"}, s)
Busy(wire, s)    == Underway(wire, OfStream, s)

\* A wire that opens or closes the stream carries a frame of it.
LEMMA WiresBusy ==
  ASSUME NEW wire, NEW s
  PROVE  Opening(wire, s) \/ Closing(wire, s) => Busy(wire, s)
BY DEF Opening, Closing, Busy, Underway, OfStream

\* What a frame that is sent adds.
LEMMA FrameSent ==
  ASSUME NEW T, NEW wire \in Seq(T), NEW f, NEW s
  PROVE  /\ Opening(Append(wire, f), s) <=> Opening(wire, s) \/ (f.kind = "OPEN" /\ f.stream = s)
         /\ Closing(Append(wire, f), s) <=> Closing(wire, s) \/ (f.kind = "CLOSE" /\ f.stream = s)
         /\ Busy(Append(wire, f), s) <=> Busy(wire, s) \/ (f.kind \in OfStream /\ f.stream = s)
<1>1. \A kinds : Underway(Append(wire, f), kinds, s) <=> Underway(wire, kinds, s) \/ (f.kind \in kinds /\ f.stream = s)
  BY UnderwaySent
<1> QED BY <1>1 DEF Opening, Closing, Busy

\* What a frame that is taken leaves.
LEMMA FrameTaken ==
  ASSUME NEW T, NEW wire \in Seq(T), wire # << >>, NEW s
  PROVE  /\ Opening(wire, s) <=> Opening(Tail(wire), s) \/ (Head(wire).kind = "OPEN" /\ Head(wire).stream = s)
         /\ Closing(wire, s) <=> Closing(Tail(wire), s) \/ (Head(wire).kind = "CLOSE" /\ Head(wire).stream = s)
         /\ Busy(wire, s) <=> Busy(Tail(wire), s) \/ (Head(wire).kind \in OfStream /\ Head(wire).stream = s)
<1>1. \A kinds : Underway(wire, kinds, s) <=>
                   Underway(Tail(wire), kinds, s) \/ (Head(wire).kind \in kinds /\ Head(wire).stream = s)
  BY UnderwayTaken
<1> QED BY <1>1 DEF Opening, Closing, Busy

\* An empty wire.
LEMMA NothingBusy ==
  ASSUME NEW s
  PROVE  /\ ~Opening(<< >>, s) /\ ~Closing(<< >>, s) /\ ~Busy(<< >>, s)
         /\ \A i : ~Left(<< >>, i) /\ LeftIsLast(<< >>, i, s)
         /\ \A d : DataFrom(<< >>, s, d)
BY NothingUnderway DEF Opening, Closing, Busy, Left, LeftIsLast, DataFrom

\* On a wire that does not carry the stream there is nothing to say about it.
LEMMA IdleWire ==
  ASSUME NEW wire, NEW s, ~Busy(wire, s)
  PROVE  /\ ~Opening(wire, s) /\ ~Closing(wire, s) /\ OpenFirst(wire, s)
         /\ \A i : LeftIsLast(wire, i, s)
         /\ \A d : DataFrom(wire, s, d)
         /\ \A o : \A l \in Nat : Carries(wire, s, o, l, l) /\ \A h \in Nat : Carries(wire, s, o, l, h) => h = l
<1>1. ~Underway(wire, OfStream, s)
  BY DEF Busy
<1>2. \A o : \A l \in Nat : Carries(wire, s, o, l, l) /\ \A h \in Nat : Carries(wire, s, o, l, h) => h = l
  BY <1>1, CarriesNothing
<1>3. /\ OpenFirst(wire, s) /\ \A i : LeftIsLast(wire, i, s)
      /\ \A d : DataFrom(wire, s, d)
  BY <1>1 DEF Underway, OfStream, OpenFirst, LeftIsLast, DataFrom, IsData
<1> QED BY <1>2, <1>3, WiresBusy

\* A stream is opened by the first of its frames.
LEMMA OpenedFirst ==
  ASSUME NEW T, NEW wire \in Seq(T), wire # << >>, NEW s, Head(wire).kind \in OfStream, Head(wire).stream = s,
         Opening(wire, s) => OpenFirst(wire, s)
  PROVE  ~Opening(Tail(wire), s) /\ (Head(wire).kind # "OPEN" => ~Opening(wire, s))
<1>1. Opening(wire, s) <=> Opening(Tail(wire), s) \/ (Head(wire).kind = "OPEN" /\ Head(wire).stream = s)
  BY FrameTaken
<1>2. OpenFirst(wire, s) => ~Opening(Tail(wire), s)
  BY OpenFirstTaken DEF Opening
<1> QED BY <1>1, <1>2

\* Two wires that are the same to the stream.
LEMMA SameWire ==
  ASSUME NEW wire, NEW w, NEW s, Same(wire, w, s)
  PROVE  /\ Opening(w, s) <=> Opening(wire, s)
         /\ Closing(w, s) <=> Closing(wire, s)
         /\ Busy(w, s) <=> Busy(wire, s)
         /\ OpenFirst(wire, s) => OpenFirst(w, s)
         /\ \A o, l, h : Carries(wire, s, o, l, h) => Carries(w, s, o, l, h)
         /\ \A d : DataFrom(wire, s, d) => DataFrom(w, s, d)
<1>1. {"OPEN"} \in SUBSET OfStream /\ {"CLOSE"} \in SUBSET OfStream /\ OfStream \in SUBSET OfStream
  BY DEF OfStream
<1> QED BY <1>1 DEF Same, Opening, Closing, Busy

LEMMA SameItself == ASSUME NEW wire, NEW s PROVE Same(wire, wire, s)
BY DEF Same

-----------------------------------------------------------------------------
(* Streams, as long as no number is used twice in their rooms.               *)

\* s is a number for streams that o opens to g.
Stream(o, g, s) == Opens(o, s) /\ g = room[o] /\ ~IdReused(g)

\* Nobody but o knows of the stream.
Quiet(o, g, s) ==
  /\ streams[g][s] = NoPair /\ entry[g][s] = NoEntry
  /\ ~Busy(up[g], s) /\ ~Busy(down[o], s) /\ ~Busy(down[g], s)

\* A stream is opened once, and nothing of it is anywhere before.
Begins(o, g, s) ==
  /\ page[o] # "over" /\ NotYet(o, s) => Quiet(o, g, s)
  /\ Opening(up[o], s) =>
       /\ Quiet(o, g, s) /\ OpenFirst(up[o], s) /\ entry[o][s].chunks = << >>
       /\ Present(g) => entry[o][s].open \/ Closing(up[o], s) \/ o \in hungUp
  /\ Opening(down[g], s) =>
       /\ OpenFirst(down[g], s) /\ entry[g][s] = NoEntry /\ entry[o][s].chunks = << >>
       /\ ~Busy(up[g], s) /\ ~Busy(down[o], s)
  /\ LeftIsLast(down[g], myId[o], s)

IsOpen(x, s) == entry[x][s].open \/ Opening(down[x], s)

\* The end c of a stream whose other end is d: it is open as long as the relay has the stream, unless it
\* is being closed, and no longer than news of it are on the way.
Ends(o, g, s, c, d) ==
  /\ Closing(up[c], s) => entry[c][s] = NoEntry /\ ~Opening(down[c], s)
  /\ Closing(down[c], s) => streams[g][s] = NoPair
  /\ streams[g][s] # NoPair => IsOpen(c, s) \/ Closing(up[c], s) \/ socket[c] = "closing" \/ c \in hungUp
  /\ IsOpen(c, s) /\ socket[c] = "open" /\ streams[g][s] = NoPair /\ ~Opening(up[o], s) =>
       Closing(down[c], s) \/ Left(down[c], myId[d])

\* c has, or will have, what the other end sends.
Awaits(o, s, c) == entry[c][s] # NoEntry \/ (c # o /\ (Opening(up[o], s) \/ Opening(down[c], s)))

\* Nothing of it can have been lost.
Flowing(o, g, s, c) == Opening(up[o], s) \/ (streams[g][s] # NoPair /\ socket[c] = "open")

Got(o, s, c, d) ==
  \A k \in DOMAIN entry[c][s].chunks :
    entry[c][s].chunks[k] = [body |-> [opener |-> o, n |-> k], from |-> d]

\* What c has got and what is on its way to it are the first chunks that d has sent; the last of them
\* are on their way to the relay, and what is missing between the two the relay has lost.
Flows(o, g, s, c, d) ==
  d \notin throttled /\ Awaits(o, s, c) =>
    /\ Got(o, s, c, d) /\ DataFrom(down[c], s, d)
    /\ \E m, l, h \in 0 .. MaxChunks :
         /\ Carries(down[c], s, o, Len(entry[c][s].chunks), m)
         /\ Carries(up[d], s, o, l, h)
         /\ entry[d][s] # NoEntry => entry[d][s].sent = h
         /\ Flowing(o, g, s, c) => l = m

StreamInv(o, g, s) ==
  /\ Begins(o, g, s)
  /\ Ends(o, g, s, o, g) /\ Ends(o, g, s, g, o)
  /\ Flows(o, g, s, o, g) /\ Flows(o, g, s, g, o)

StreamsInv == \A o, g \in Connection, s \in StreamId : Stream(o, g, s) => StreamInv(o, g, s)

-----------------------------------------------------------------------------
(* What is known of the two ends.                                            *)

\* The two ends are two members of one room, the second its creator; each is alone with its number.
LEMMA EndsOfStream ==
  ASSUME NetInv, NEW o \in Connection, NEW g, NEW s, Stream(o, g, s)
  PROVE  /\ g \in Connection /\ o # g /\ g # NONE /\ room[o] = g /\ room[g] = g /\ s # 0
         /\ myId[g] = 1 /\ myId[o] \in Member /\ myId[o] # 1
         /\ \A x \in Connection : room[x] = g /\ myId[x] = myId[o] => x = o
         /\ \A x \in Connection : room[x] = g /\ myId[x] = 1 => x = g
<1>1. /\ g \in Connection /\ o # g /\ g # NONE /\ room[o] = g /\ room[g] = g /\ s # 0
      /\ myId[g] = 1 /\ myId[o] \in Member /\ myId[o] # 1
  BY Opened DEF NetInv, Stream
<1> QED BY <1>1 DEF Stream, IdReused

\* Nobody else in the room has to do with the stream's number.
LEMMA PartOfStream ==
  ASSUME NetInv, NEW o \in Connection, NEW g, NEW s, Stream(o, g, s),
         NEW x \in Connection, room[x] = g
  PROVE  /\ Opens(x, s) => x = o
         /\ HasPart(x, s) => x \in {o, g}
<1>1. \A y \in Connection : Opens(y, s) /\ room[y] = g => y = o
  BY EndsOfStream, SameNumbers DEF NetInv, Stream
<1>2. ASSUME NEW y \in Connection, Opens(y, s), x \in {y, room[y]} PROVE x \in {o, g}
  <2>1. room[y] = g
    BY <1>2, EndsOfStream, Opened DEF NetInv
  <2> QED BY <1>1, <1>2, <2>1
<1> QED BY <1>1, <1>2 DEF HasPart

\* What a page has under the stream's number is this stream.
LEMMA EntriesOfStream ==
  ASSUME NetInv, NEW o \in Connection, NEW g, NEW s \in StreamId, Stream(o, g, s),
         NEW x \in {o, g}, entry[x][s] # NoEntry
  PROVE  /\ page[x] = "ready" /\ x \notin hungUp /\ entry[x][s].opener = o
         /\ entry[x][s].peer = IF x = o THEN 1 ELSE myId[o]
<1>1. x \in Connection /\ room[x] = g
  BY EndsOfStream
<1>2. PICK p \in Connection : /\ page[x] = "ready" /\ Opens(p, s) /\ entry[x][s].opener = p
                              /\ \/ x = p /\ entry[x][s].peer = 1
                                 \/ x = room[p] /\ entry[x][s].peer = myId[p]
  BY <1>1 DEF NetInv, EntriesSound
<1>3. room[p] = g
  BY <1>1, <1>2, Opened, EndsOfStream DEF NetInv
<1>4. p = o
  BY <1>2, <1>3, PartOfStream
<1>5. x \notin hungUp
  BY <1>1, <1>2 DEF NetInv, PagesAgree
<1> QED BY <1>1, <1>2, <1>4, <1>5, EndsOfStream

LEMMA EntryTyped ==
  ASSUME NetInv, NEW x \in Connection, NEW s \in StreamId
  PROVE  /\ entry[x][s] \in Entry /\ entry[x][s].sent \in 0 .. MaxChunks /\ entry[x][s].open \in BOOLEAN
         /\ Len(entry[x][s].chunks) \in Nat
<1>1. entry[x][s] \in Entry
  BY DEF NetInv, PageTypes
<1> QED BY <1>1 DEF Entry

LEMMA WiresTyped ==
  ASSUME NetInv, NEW x \in Connection
  PROVE  up[x] \in Seq(UpFrame) /\ down[x] \in Seq(DownFrame)
BY DEF NetInv, PageTypes, RelayInv, RelayTypeOK

\* Only the opener opens the stream, and only to the creator; PEER_LEFT comes when the other end's socket has closed.
LEMMA WiresOfStream ==
  ASSUME NetInv, NEW o \in Connection, NEW g, NEW s \in StreamId, Stream(o, g, s)
  PROVE  /\ ~Opening(up[g], s) /\ ~Opening(down[o], s)
         /\ o \in hungUp => down[o] = << >> /\ entry[o][s] = NoEntry
         /\ g \in hungUp => down[g] = << >> /\ entry[g][s] = NoEntry
         /\ Left(down[g], myId[o]) => socket[o] = "closed"
         /\ Left(down[o], 1) => socket[g] = "closed"
<1>1. g \in Connection /\ o # g /\ room[o] = g /\ room[g] = g
  BY EndsOfStream
<1>2. ASSUME NEW k \in DOMAIN up[g], up[g][k].kind \in {"OPEN"}, up[g][k].stream = s PROVE FALSE
  <2>1. Opens(g, s)
    BY <1>1, <1>2 DEF NetInv, UpsSound, UpSound
  <2> QED BY <1>1, <2>1, PartOfStream
<1>3. ASSUME NEW k \in DOMAIN down[o], down[o][k].kind \in {"OPEN"}, down[o][k].stream = s PROVE FALSE
  <2>1. PICK y \in Connection : Opens(y, s) /\ room[y] = o
    BY <1>3 DEF NetInv, DownsSound, DownSound
  <2>2. room[o] = o
    BY <2>1, Opened DEF NetInv
  <2> QED BY <1>1, <2>2
<1>4. ASSUME NEW x \in {o, g}, x \in hungUp PROVE down[x] = << >> /\ entry[x][s] = NoEntry
  BY <1>1, <1>4, EntriesOfStream DEF NetInv, PagesAgree
<1>5. ASSUME NEW x \in {o, g}, NEW i, Left(down[x], i)
      PROVE  \E y \in Connection : room[y] = g /\ myId[y] = i /\ socket[y] = "closed"
  <2>1. PICK k \in DOMAIN down[x] : down[x][k].kind = "PEER_LEFT" /\ down[x][k].member = i
    BY <1>5 DEF Left
  <2>2. DownSound(x, down[x][k])
    BY <1>1 DEF NetInv, DownsSound
  <2> QED BY <1>1, <2>1, <2>2 DEF DownSound
<1>6. Left(down[g], myId[o]) => socket[o] = "closed"
  BY <1>5, EndsOfStream
<1>7. Left(down[o], 1) => socket[g] = "closed"
  BY <1>5, EndsOfStream
<1> QED BY <1>2, <1>3, <1>4, <1>6, <1>7 DEF Opening, Underway

\* The relay's pair for the number is these two members, and both are there.
LEMMA PairOfEnds ==
  ASSUME NetInv, NEW o \in Connection, NEW g, NEW s \in StreamId, Stream(o, g, s), streams[g][s] # NoPair
  PROVE  streams[g][s] = [a |-> myId[o], b |-> 1] /\ Present(o) /\ Present(g)
<1>1. /\ g \in Connection /\ room[o] = g /\ Opens(o, s)
      /\ \A x \in Connection : room[x] = g /\ myId[x] = myId[o] => x = o
      /\ \A x \in Connection : room[x] = g /\ myId[x] = 1 => x = g
      /\ myId[o] \in Member /\ 1 \in Member
  BY EndsOfStream, Constants DEF Stream
<1>2. streams[g][s] = [a |-> myId[o], b |-> 1]
  BY <1>1, PairOfStream DEF NetInv
<1>3. members[g][myId[o]] # NONE /\ members[g][1] # NONE
  BY <1>1, <1>2 DEF NetInv, RelayInv, StreamsJoinMembers
<1>4. \A i \in Member : members[g][i] # NONE =>
        members[g][i] \in Connection /\ Present(members[g][i]) /\ room[members[g][i]] = g /\ myId[members[g][i]] = i
  BY <1>1 DEF NetInv, RelayInv, RelayTypeOK, MembersAreThere
<1> QED BY <1>1, <1>2, <1>3, <1>4

\* As long as nobody comes, the same streams are spoken of.
LEMMA StreamStays ==
  ASSUME UNCHANGED <<room, myId>>, NEW o, NEW g, NEW s
  PROVE  Stream(o, g, s)' <=> Stream(o, g, s)
BY DEF Stream, Opens, IdReused

-----------------------------------------------------------------------------
(* Steps that a stream hears nothing of.                                     *)

\* A direction whose frames and chunks stay as they are.
LEMMA FlowKeeps ==
  ASSUME NEW o, NEW g, NEW s, NEW c, NEW d, Flows(o, g, s, c, d),
         d \in throttled => d \in throttled',
         Awaits(o, s, c)' => Awaits(o, s, c),
         entry'[c][s].chunks = entry[c][s].chunks,
         DataFrom(down[c], s, d) => DataFrom(down'[c], s, d),
         \A l, h : Carries(down[c], s, o, l, h) => Carries(down'[c], s, o, l, h),
         \A l, h : Carries(up[d], s, o, l, h) => Carries(up'[d], s, o, l, h),
         entry'[d][s] # NoEntry => entry[d][s] # NoEntry /\ entry'[d][s].sent = entry[d][s].sent,
         Flowing(o, g, s, c)' => Flowing(o, g, s, c)
  PROVE  Flows(o, g, s, c, d)'
<1> SUFFICES ASSUME d \notin throttled', Awaits(o, s, c)'
             PROVE  /\ Got(o, s, c, d)' /\ DataFrom(down'[c], s, d)
                    /\ \E m, l, h \in 0 .. MaxChunks :
                         /\ Carries(down'[c], s, o, Len(entry'[c][s].chunks), m)
                         /\ Carries(up'[d], s, o, l, h)
                         /\ entry'[d][s] # NoEntry => entry'[d][s].sent = h
                         /\ Flowing(o, g, s, c)' => l = m
  BY DEF Flows
<1>1. Got(o, s, c, d) /\ DataFrom(down[c], s, d)
  BY DEF Flows
<1>2. PICK m \in 0 .. MaxChunks, l \in 0 .. MaxChunks, h \in 0 .. MaxChunks :
        /\ Carries(down[c], s, o, Len(entry[c][s].chunks), m)
        /\ Carries(up[d], s, o, l, h)
        /\ entry[d][s] # NoEntry => entry[d][s].sent = h
        /\ Flowing(o, g, s, c) => l = m
  BY DEF Flows
<1>3. Got(o, s, c, d)'
  BY <1>1 DEF Got
<1> QED BY <1>1, <1>2, <1>3

Unheard(o, g, s) ==
  /\ UNCHANGED <<myId[o], myId[g], streams[g][s]>>
  /\ \A x \in {o, g} :
       /\ Same(up[x], up'[x], s) /\ Same(down[x], down'[x], s) /\ entry'[x][s] = entry[x][s]
       /\ socket'[x] = socket[x] \/ (socket[x] = "open" /\ socket'[x] = "closing")
       /\ x \in hungUp' <=> x \in hungUp
       /\ x \in throttled => x \in throttled'
  /\ Left(down[g], myId[o]) => Left(down'[g], myId[o])
  /\ Left(down[o], myId[g]) => Left(down'[o], myId[g])
  /\ LeftIsLast(down[g], myId[o], s) => LeftIsLast(down'[g], myId[o], s)
  /\ page'[o] # "over" /\ NotYet(o, s)' => page[o] # "over" /\ NotYet(o, s)

\* The stream hears nothing of a step that leaves its frames, entries and sockets as they are.
LEMMA UnheardKeeps ==
  ASSUME NEW o, NEW g, NEW s, Unheard(o, g, s), StreamInv(o, g, s)
  PROVE  StreamInv(o, g, s)'
<1>1. ASSUME NEW x \in {o, g}
      PROVE  /\ Opening(up'[x], s) <=> Opening(up[x], s)
             /\ Closing(up'[x], s) <=> Closing(up[x], s)
             /\ Busy(up'[x], s) <=> Busy(up[x], s)
             /\ Opening(down'[x], s) <=> Opening(down[x], s)
             /\ Closing(down'[x], s) <=> Closing(down[x], s)
             /\ Busy(down'[x], s) <=> Busy(down[x], s)
             /\ OpenFirst(up[x], s) => OpenFirst(up'[x], s)
             /\ OpenFirst(down[x], s) => OpenFirst(down'[x], s)
  BY SameWire DEF Unheard
<1>2. ASSUME NEW x \in {o, g}
      PROVE  /\ \A l, h : Carries(up[x], s, o, l, h) => Carries(up'[x], s, o, l, h)
             /\ \A l, h : Carries(down[x], s, o, l, h) => Carries(down'[x], s, o, l, h)
             /\ \A d : DataFrom(down[x], s, d) => DataFrom(down'[x], s, d)
  BY SameWire DEF Unheard
<1>3. \A x \in {o, g} : entry'[x][s] = entry[x][s] /\ (x \in hungUp' <=> x \in hungUp)
                        /\ (Present(x)' => Present(x)) /\ (socket'[x] = "open" => socket[x] = "open")
                        /\ (socket[x] = "closing" => socket'[x] = "closing")
  BY DEF Unheard, Present
<1>4. streams'[g][s] = streams[g][s] /\ myId'[o] = myId[o] /\ myId'[g] = myId[g]
  BY DEF Unheard
<1>5. Quiet(o, g, s) => Quiet(o, g, s)'
  BY <1>1, <1>3, <1>4 DEF Quiet
<1>6. Begins(o, g, s)'
  <2>1. page'[o] # "over" /\ NotYet(o, s)' => Quiet(o, g, s)'
    BY <1>5 DEF StreamInv, Begins, Unheard
  <2>2. Opening(up'[o], s) =>
          /\ Quiet(o, g, s)' /\ OpenFirst(up'[o], s) /\ entry'[o][s].chunks = << >>
          /\ Present(g)' => entry'[o][s].open \/ Closing(up'[o], s) \/ o \in hungUp'
    BY <1>1, <1>3, <1>5 DEF StreamInv, Begins
  <2>3. Opening(down'[g], s) =>
          /\ OpenFirst(down'[g], s) /\ entry'[g][s] = NoEntry /\ entry'[o][s].chunks = << >>
          /\ ~Busy(up'[g], s) /\ ~Busy(down'[o], s)
    BY <1>1, <1>3 DEF StreamInv, Begins
  <2>4. LeftIsLast(down'[g], myId'[o], s)
    BY <1>4 DEF StreamInv, Begins, Unheard
  <2> QED BY <2>1, <2>2, <2>3, <2>4 DEF Begins
<1>7. ASSUME NEW c \in {o, g}, NEW d \in {o, g}, Ends(o, g, s, c, d),
             Left(down[c], myId[d]) => Left(down'[c], myId[d])
      PROVE  Ends(o, g, s, c, d)'
  <2>1. IsOpen(c, s)' <=> IsOpen(c, s)
    BY <1>1, <1>3 DEF IsOpen
  <2> QED BY <1>1, <1>3, <1>4, <1>7, <2>1 DEF Ends
<1>8. Ends(o, g, s, o, g)' /\ Ends(o, g, s, g, o)'
  BY <1>7 DEF StreamInv, Unheard
<1>9. ASSUME NEW c \in {o, g}, NEW d \in {o, g}, Flows(o, g, s, c, d)
      PROVE  Flows(o, g, s, c, d)'
  <2>1. d \in throttled => d \in throttled'
    BY DEF Unheard
  <2>2. Awaits(o, s, c)' => Awaits(o, s, c)
    BY <1>1, <1>3 DEF Awaits
  <2>3. Flowing(o, g, s, c)' => Flowing(o, g, s, c)
    BY <1>1, <1>3, <1>4 DEF Flowing
  <2>4. DataFrom(down[c], s, d) => DataFrom(down'[c], s, d)
    BY <1>2
  <2>5. \A l, h : Carries(down[c], s, o, l, h) => Carries(down'[c], s, o, l, h)
    BY <1>2
  <2>6. \A l, h : Carries(up[d], s, o, l, h) => Carries(up'[d], s, o, l, h)
    BY <1>2
  <2> QED BY <1>3, <1>9, <2>1, <2>2, <2>3, <2>4, <2>5, <2>6, FlowKeeps
<1> QED BY <1>6, <1>8, <1>9 DEF StreamInv

\* A frame that has nothing to do with the stream, and a wire on which nothing happens to it.
Foreign(f, s) == f.kind \notin OfStream \/ f.stream # s

Elsewhere(wire, w, s) ==
  \/ w = wire
  \/ \E f : w = Append(wire, f) /\ Foreign(f, s)
  \/ wire # << >> /\ w = Tail(wire) /\ Foreign(Head(wire), s)

Tells(f, i) == f.kind = "PEER_LEFT" /\ f.member = i

\* A wire that gains or loses a frame that is not of the stream is the same to it.
LEMMA SameElsewhere ==
  ASSUME NEW T, NEW wire \in Seq(T), NEW w, NEW s, Elsewhere(wire, w, s)
  PROVE  /\ Same(wire, w, s)
         /\ \A i : LeftIsLast(wire, i, s) => LeftIsLast(w, i, s)
         /\ \A i : Left(wire, i) => Left(w, i) \/ (wire # << >> /\ w = Tail(wire) /\ Tells(Head(wire), i))
<1>1. CASE w = wire
  BY <1>1, SameItself
<1>2. ASSUME NEW f, w = Append(wire, f), Foreign(f, s)
      PROVE  /\ Same(wire, w, s)
             /\ \A i : LeftIsLast(wire, i, s) => LeftIsLast(w, i, s)
             /\ \A i : Left(wire, i) => Left(w, i)
  <2>1. Same(wire, w, s)
    BY <1>2, SameSent DEF Foreign
  <2>2. f.kind # "OPEN" \/ f.stream # s
    BY <1>2 DEF Foreign, OfStream
  <2> QED BY <1>2, <2>1, <2>2, LeftSent
<1>3. CASE wire # << >> /\ w = Tail(wire) /\ Foreign(Head(wire), s)
  <2>1. Same(wire, w, s)
    BY <1>3, SameTaken DEF Foreign
  <2> QED BY <1>3, <2>1, LeftTaken DEF Tells
<1> QED BY <1>1, <1>2, <1>3 DEF Elsewhere

\* Nor of one that only puts other frames onto the wires or takes them off.
LEMMA ElsewhereKeeps ==
  ASSUME NetInv, NEW o \in Connection, NEW g, NEW s \in StreamId, Stream(o, g, s), StreamInv(o, g, s),
         UNCHANGED <<myId[o], myId[g], streams[g][s]>>,
         \A x \in {o, g} :
           /\ Elsewhere(up[x], up'[x], s) /\ Elsewhere(down[x], down'[x], s) /\ entry'[x][s] = entry[x][s]
           /\ socket'[x] = socket[x] \/ (socket[x] = "open" /\ socket'[x] = "closing")
           /\ x \in hungUp' <=> x \in hungUp
           /\ x \in throttled => x \in throttled',
         down[g] # << >> /\ down'[g] = Tail(down[g]) => ~Tells(Head(down[g]), myId[o]),
         down[o] # << >> /\ down'[o] = Tail(down[o]) => ~Tells(Head(down[o]), myId[g]),
         page'[o] # "over" /\ NotYet(o, s)' => page[o] # "over" /\ NotYet(o, s)
  PROVE  StreamInv(o, g, s)'
<1>1. o \in Connection /\ g \in Connection
  BY EndsOfStream
<1>2. \A x \in {o, g} : up[x] \in Seq(UpFrame) /\ down[x] \in Seq(DownFrame)
  BY <1>1, WiresTyped
<1>3. ASSUME NEW x \in {o, g}
      PROVE  /\ Same(up[x], up'[x], s) /\ Same(down[x], down'[x], s)
             /\ \A i : LeftIsLast(down[x], i, s) => LeftIsLast(down'[x], i, s)
             /\ \A i : Left(down[x], i) =>
                  Left(down'[x], i) \/ (down[x] # << >> /\ down'[x] = Tail(down[x]) /\ Tells(Head(down[x]), i))
  <2>1. Same(up[x], up'[x], s)
    BY <1>2, SameElsewhere
  <2> DEFINE wire == down[x]
             w    == down'[x]
  <2>2. wire \in Seq(DownFrame) /\ Elsewhere(wire, w, s)
    BY <1>2
  <2> HIDE DEF wire, w
  <2>3. /\ Same(wire, w, s)
        /\ \A i : LeftIsLast(wire, i, s) => LeftIsLast(w, i, s)
        /\ \A i : Left(wire, i) => Left(w, i) \/ (wire # << >> /\ w = Tail(wire) /\ Tells(Head(wire), i))
    BY <2>2, SameElsewhere
  <2> QED BY <2>1, <2>3 DEF wire, w
<1>4. Unheard(o, g, s)
  BY <1>3 DEF Unheard
<1> QED BY <1>4, UnheardKeeps

\* What the relay sends for a frame is of the stream that the frame is of.
LEMMA MemberTells ==
  ASSUME NetInv, NEW c \in Connection, room[c] # NONE, NEW f, MemberFrame(c, f), NEW x \in Connection
  PROVE  \/ down'[x] = down[x]
         \/ /\ room[x] = room[c]
            /\ \E h : /\ down'[x] = Append(down[x], h) /\ h.kind # "PEER_LEFT"
                      /\ h.kind \in OfStream => f.kind \in OfStream /\ h.stream = f.stream
<1>1. RelayInv
  BY DEF NetInv
<1>2. room[c] \in Connection /\ room[room[c]] = room[c]
  BY <1>1, CreatorsRoom
<1>3. CASE Passes(c, f)
  <2>1. CASE down' = down
    BY <2>1
  <2>2. ASSUME NEW d \in Connection, room[d] = room[c], SentTo(d, ToClient("DGRAM", myId[c], 0, c, f.body))
        PROVE  \/ down'[x] = down[x]
               \/ /\ room[x] = room[c]
                  /\ \E h : /\ down'[x] = Append(down[x], h) /\ h.kind # "PEER_LEFT"
                            /\ h.kind \in OfStream => f.kind \in OfStream /\ h.stream = f.stream
    BY <2>2 DEF SentTo, ToClient, OfStream
  <2> QED BY <1>3, <2>1, <2>2 DEF Passes
<1>4. CASE Cuts(c) \/ Loses(c, f)
  BY <1>4 DEF Cuts, Loses
<1>5. CASE Refuses(c, f)
  BY <1>5 DEF Refuses, SentTo, ToClient, OfStream
<1>6. CASE Pairs(c, f)
  BY <1>2, <1>6 DEF Pairs, SentTo, ToClient, OfStream
<1>7. ASSUME NEW d \in Connection, Forwards(c, f, d)
      PROVE  \/ down'[x] = down[x]
             \/ /\ room[x] = room[c]
                /\ \E h : /\ down'[x] = Append(down[x], h) /\ h.kind # "PEER_LEFT"
                          /\ h.kind \in OfStream => f.kind \in OfStream /\ h.stream = f.stream
  BY <1>7 DEF Forwards, SentTo, ToClient, OfStream
<1> QED BY <1>3, <1>4, <1>5, <1>6, <1>7 DEF MemberFrame

\* The relay handles a frame that is not of the stream.
LEMMA MemberElsewhere ==
  ASSUME NetInv, NEW o \in Connection, NEW g, NEW s \in StreamId, Stream(o, g, s), StreamInv(o, g, s),
         NEW c \in Connection, room[c] # NONE, NEW f, MemberFrame(c, f), room[c] # g \/ Foreign(f, s)
  PROVE  StreamInv(o, g, s)'
<1>1. /\ Present(c) /\ up[c] # << >> /\ f = Head(up[c]) /\ up' = [up EXCEPT ![c] = Tail(@)]
      /\ UNCHANGED <<room, myId, hungUp, page, entry, nextSeq>> /\ SocketsClose
  BY DEF MemberFrame, roomVars, pageVars
<1>2. /\ o \in Connection /\ g \in Connection /\ room[o] = g /\ room[g] = g
      /\ room[c] \in Connection
  <2>1. RelayInv
    BY DEF NetInv
  <2> QED BY <2>1, EndsOfStream, CreatorsRoom
<1>3. ASSUME NEW x \in {o, g} PROVE Elsewhere(up[x], up'[x], s)
  <2>1. up'[x] = IF x = c THEN Tail(up[c]) ELSE up[x]
    BY <1>1, <1>2 DEF NetInv, PageTypes
  <2>2. x = c => Foreign(f, s)
    BY <1>2
  <2> QED BY <1>1, <2>1, <2>2 DEF Elsewhere
<1>4. ASSUME NEW x \in {o, g} PROVE down'[x] = down[x] \/ \E h : down'[x] = Append(down[x], h) /\ Foreign(h, s)
  <2>1. \/ down'[x] = down[x]
        \/ /\ room[x] = room[c]
           /\ \E h : /\ down'[x] = Append(down[x], h) /\ h.kind # "PEER_LEFT"
                     /\ h.kind \in OfStream => f.kind \in OfStream /\ h.stream = f.stream
    BY <1>2, MemberTells
  <2> QED BY <1>2, <2>1 DEF Foreign
<1>5. \A x \in {o, g} : /\ Elsewhere(down[x], down'[x], s)
                        /\ ~(down[x] # << >> /\ down'[x] = Tail(down[x]))
  <2> SUFFICES ASSUME NEW x \in {o, g}
               PROVE  Elsewhere(down[x], down'[x], s) /\ ~(down[x] # << >> /\ down'[x] = Tail(down[x]))
    OBVIOUS
  <2>1. down[x] \in Seq(DownFrame)
    BY <1>2, WiresTyped
  <2> DEFINE wire == down[x]
             w    == down'[x]
  <2>2. wire \in Seq(DownFrame) /\ (w = wire \/ \E h : w = Append(wire, h) /\ Foreign(h, s))
    BY <1>4, <2>1
  <2> HIDE DEF wire, w
  <2>3. Elsewhere(wire, w, s)
    BY <2>2 DEF Elsewhere
  <2>4. w = wire => ~(wire # << >> /\ w = Tail(wire))
    BY <2>2
  <2>5. \A h : w = Append(wire, h) => ~(wire # << >> /\ w = Tail(wire))
    BY <2>2
  <2> QED BY <2>2, <2>3, <2>4, <2>5 DEF wire, w
<1>6. streams'[g][s] = streams[g][s]
  <2>1. streams \in [Connection -> [StreamId -> Pair \cup {NoPair}]]
    BY DEF NetInv, RelayInv, RelayTypeOK
  <2>2. CASE UNCHANGED streams
    BY <2>2
  <2>3. ASSUME f.kind \in OfStream, NEW pair, streams' = [streams EXCEPT ![room[c]][f.stream] = pair]
        PROVE  streams'[g][s] = streams[g][s]
    BY <1>2, <2>1, <2>3 DEF Foreign
  <2> QED BY <2>2, <2>3 DEF MemberFrame, Passes, Cuts, Refuses, Pairs, Loses, Forwards, OfStream
<1>7. \A x \in {o, g} : x \in throttled => x \in throttled'
  BY DEF MemberFrame, Passes, Cuts, Refuses, Pairs, Loses, Forwards
<1>8. page'[o] # "over" /\ NotYet(o, s)' => page[o] # "over" /\ NotYet(o, s)
  BY <1>1 DEF NotYet
<1>9. \A x \in {o, g} : socket'[x] = socket[x] \/ (socket[x] = "open" /\ socket'[x] = "closing")
  BY <1>1, <1>2 DEF SocketsClose
<1> QED BY <1>1, <1>3, <1>5, <1>6, <1>7, <1>8, <1>9, ElsewhereKeeps

-----------------------------------------------------------------------------
(* The relay takes a frame of the stream from one of its ends.               *)

Both(o, g, c, d) == (c = o /\ d = g) \/ (c = g /\ d = o)

\* The invariant is symmetric but for its beginning.
LEMMA StreamOfBoth ==
  ASSUME NEW o, NEW g, NEW s, NEW c, NEW d, Both(o, g, c, d)
  PROVE  /\ StreamInv(o, g, s) <=>
              /\ Begins(o, g, s) /\ Ends(o, g, s, c, d) /\ Ends(o, g, s, d, c)
              /\ Flows(o, g, s, c, d) /\ Flows(o, g, s, d, c)
         /\ StreamInv(o, g, s)' <=>
              /\ Begins(o, g, s)' /\ Ends(o, g, s, c, d)' /\ Ends(o, g, s, d, c)'
              /\ Flows(o, g, s, c, d)' /\ Flows(o, g, s, d, c)'
BY DEF StreamInv, Both

\* f is the first frame that c has on its way to the relay, and it is of the stream.
FrameOf(o, g, s, c, f) == c \in {o, g} /\ up[c] # << >> /\ f = Head(up[c]) /\ f.kind \in OfStream /\ f.stream = s

\* The first frame of the stream that an end has under way to the relay: what is known when it is taken.
LEMMA TakenUp ==
  ASSUME NetInv, NEW o \in Connection, NEW g, NEW s \in StreamId, Stream(o, g, s), StreamInv(o, g, s),
         NEW c, NEW f, FrameOf(o, g, s, c, f)
  PROVE  /\ ~(page[o] # "over" /\ NotYet(o, s)) /\ ~Opening(Tail(up[c]), s)
         /\ c = g \/ f.kind # "OPEN" => ~Opening(up[o], s)
         /\ c = g => ~Opening(down[g], s)
         /\ f.kind = "OPEN" => c = o /\ Opening(up[o], s)
         /\ Closing(up[c], s) <=> Closing(Tail(up[c]), s) \/ f.kind = "CLOSE"
<1>1. /\ c \in {o, g} /\ up[c] # << >> /\ f = Head(up[c]) /\ f.kind \in OfStream /\ f.stream = s
      /\ o \in Connection /\ g \in Connection
  BY EndsOfStream DEF FrameOf
<1>2. up[c] \in Seq(UpFrame)
  BY <1>1, WiresTyped
<1>3. /\ Opening(up[c], s) <=> Opening(Tail(up[c]), s) \/ f.kind = "OPEN"
      /\ Closing(up[c], s) <=> Closing(Tail(up[c]), s) \/ f.kind = "CLOSE"
      /\ Busy(up[c], s)
  BY <1>1, <1>2, FrameTaken
<1>4. ~Opening(up[g], s)
  BY WiresOfStream
<1>5. c = g => ~Opening(up[o], s) /\ ~Opening(down[g], s)
  BY <1>3 DEF StreamInv, Begins, Quiet
<1>6. Opening(up[o], s) => OpenFirst(up[o], s)
  BY DEF StreamInv, Begins
<1>7. c = o => ~Opening(Tail(up[c]), s) /\ (f.kind # "OPEN" => ~Opening(up[o], s))
  BY <1>1, <1>2, <1>6, OpenedFirst
<1>8. ~(page[o] # "over" /\ NotYet(o, s))
  <2>1. CASE c = o
    BY <1>3, <2>1 DEF Stream, NetInv, OpensAreNew, Busy
  <2>2. CASE c = g
    BY <1>3, <2>2 DEF StreamInv, Begins, Quiet
  <2> QED BY <1>1, <2>1, <2>2
<1> QED BY <1>1, <1>3, <1>4, <1>5, <1>7, <1>8

\* Once that frame is taken, the stream has begun.
LEMMA TakenBegins ==
  ASSUME NetInv, NEW o \in Connection, NEW g, NEW s \in StreamId, Stream(o, g, s), StreamInv(o, g, s),
         NEW c, NEW f, FrameOf(o, g, s, c, f),
         up'[c] = Tail(up[c]), \A x \in {o, g} \ {c} : up'[x] = up[x],
         UNCHANGED <<entry[o][s], entry[g][s], page[o], nextSeq[o], myId[o]>>,
         down'[g] = down[g] \/ \E h : down'[g] = Append(down[g], h) /\ h.kind # "OPEN",
         down'[o] = down[o] \/ ~Opening(down[g], s)
  PROVE  Begins(o, g, s)' /\ ~Opening(up'[o], s)
<1>1. /\ ~(page[o] # "over" /\ NotYet(o, s)) /\ ~Opening(Tail(up[c]), s)
      /\ c = g => ~Opening(up[o], s) /\ ~Opening(down[g], s)
  BY TakenUp
<1>2. c \in {o, g} /\ down[g] \in Seq(DownFrame)
  BY EndsOfStream, WiresTyped DEF FrameOf
<1>3. ~Opening(up'[o], s)
  BY <1>1, <1>2
<1>4. ~(page'[o] # "over" /\ NotYet(o, s)')
  BY <1>1 DEF NotYet
<1>5. Opening(down'[g], s) => Opening(down[g], s) /\ (OpenFirst(down[g], s) => OpenFirst(down'[g], s))
  <2>1. CASE down'[g] = down[g]
    BY <2>1
  <2>2. ASSUME NEW h, down'[g] = Append(down[g], h), h.kind # "OPEN"
        PROVE  Opening(down'[g], s) => Opening(down[g], s) /\ (OpenFirst(down[g], s) => OpenFirst(down'[g], s))
    BY <1>2, <2>2, FrameSent, OpenFirstSent
  <2> QED BY <2>1, <2>2
<1>6. LeftIsLast(down'[g], myId'[o], s)
  <2>1. LeftIsLast(down[g], myId[o], s)
    BY DEF StreamInv, Begins
  <2>2. ASSUME NEW h, down'[g] = Append(down[g], h), h.kind # "OPEN"
        PROVE  LeftIsLast(down'[g], myId'[o], s)
    BY <1>2, <2>1, <2>2, LeftSent
  <2> QED BY <2>1, <2>2
<1>7. Opening(down'[g], s) =>
        /\ OpenFirst(down'[g], s) /\ entry'[g][s] = NoEntry /\ entry'[o][s].chunks = << >>
        /\ ~Busy(up'[g], s) /\ ~Busy(down'[o], s)
  <2> SUFFICES ASSUME Opening(down'[g], s)
               PROVE  /\ OpenFirst(down'[g], s) /\ entry'[g][s] = NoEntry /\ entry'[o][s].chunks = << >>
                      /\ ~Busy(up'[g], s) /\ ~Busy(down'[o], s)
    OBVIOUS
  <2>1. Opening(down[g], s) /\ c # g /\ down'[o] = down[o]
    BY <1>1, <1>5
  <2>2. /\ OpenFirst(down[g], s) /\ entry[g][s] = NoEntry /\ entry[o][s].chunks = << >>
        /\ ~Busy(up[g], s) /\ ~Busy(down[o], s)
    BY <2>1 DEF StreamInv, Begins
  <2>3. up'[g] = up[g]
    BY <2>1
  <2> QED BY <1>5, <2>1, <2>2, <2>3
<1> QED BY <1>3, <1>4, <1>6, <1>7 DEF Begins

\* What is taken from the sender's wire does not reach the other end any more.
LEMMA FlowLess ==
  ASSUME NetInv, NEW o \in Connection, NEW g, NEW s \in StreamId, NEW c \in Connection, NEW d \in Connection,
         Flows(o, g, s, d, c), up[c] # << >>, up'[c] = Tail(up[c]),
         c \in throttled => c \in throttled',
         UNCHANGED <<entry[c][s], entry[d][s]>>,
         Awaits(o, s, d)' => Awaits(o, s, d), ~Flowing(o, g, s, d)',
         DataFrom(down[d], s, c) => DataFrom(down'[d], s, c),
         \A l, h : Carries(down[d], s, o, l, h) => Carries(down'[d], s, o, l, h)
  PROVE  Flows(o, g, s, d, c)'
<1>1. up[c] \in Seq(UpFrame)
  BY WiresTyped
<1>2. CASE ~IsData(Head(up[c]), s)
  <2>1. \A l, h : Carries(up[c], s, o, l, h) => Carries(up'[c], s, o, l, h)
    BY <1>1, <1>2, CarriesTaken
  <2> QED BY <2>1, FlowKeeps
<1>3. CASE IsData(Head(up[c]), s)
  <2> SUFFICES ASSUME c \notin throttled', Awaits(o, s, d)'
               PROVE  /\ Got(o, s, d, c)' /\ DataFrom(down'[d], s, c)
                      /\ \E m, l, h \in 0 .. MaxChunks :
                           /\ Carries(down'[d], s, o, Len(entry'[d][s].chunks), m)
                           /\ Carries(up'[c], s, o, l, h)
                           /\ entry'[c][s] # NoEntry => entry'[c][s].sent = h
    BY DEF Flows
  <2>1. Got(o, s, d, c) /\ DataFrom(down[d], s, c)
    BY DEF Flows
  <2>2. PICK m \in 0 .. MaxChunks, l \in 0 .. MaxChunks, h \in 0 .. MaxChunks :
          /\ Carries(down[d], s, o, Len(entry[d][s].chunks), m)
          /\ Carries(up[c], s, o, l, h)
          /\ entry[c][s] # NoEntry => entry[c][s].sent = h
    BY DEF Flows
  <2>3. MaxChunks \in Nat
    BY PageConstants
  <2>4. l \in Nat /\ h \in Nat /\ h <= MaxChunks
    BY <2>3
  <2>5. l + 1 <= h /\ Carries(Tail(up[c]), s, o, l + 1, h)
    BY <1>1, <1>3, <2>2, <2>4, CarriesLess
  <2>6. l + 1 \in 0 .. MaxChunks
    BY <2>3, <2>4, <2>5
  <2>7. Got(o, s, d, c)'
    BY <2>1 DEF Got
  <2> QED BY <2>1, <2>2, <2>5, <2>6, <2>7
<1> QED BY <1>2, <1>3

\* What holds when the relay handles a frame of the stream, whatever it makes of it.
LEMMA FrameOfEnds ==
  ASSUME NetInv, NEW o \in Connection, NEW g, NEW s \in StreamId, Stream(o, g, s), StreamInv(o, g, s),
         NEW c, NEW d, Both(o, g, c, d), NEW f, MemberFrame(c, f), FrameOf(o, g, s, c, f)
  PROVE  /\ c \in Connection /\ d \in Connection /\ g \in Connection /\ c # d /\ room[c] = g /\ room[d] = g
         /\ up[c] # << >> /\ f = Head(up[c]) /\ f.kind \in OfStream /\ f.stream = s
         /\ up'[c] = Tail(up[c]) /\ up'[d] = up[d] /\ Present(c)
         /\ UNCHANGED <<hungUp, myId, entry, page, nextSeq>>
         /\ \A x \in {c, d} : socket'[x] = socket[x] \/ (socket[x] = "open" /\ socket'[x] = "closing")
         /\ up[c] \in Seq(UpFrame) /\ down[c] \in Seq(DownFrame) /\ down[d] \in Seq(DownFrame)
         /\ Ends(o, g, s, c, d) /\ Ends(o, g, s, d, c) /\ Flows(o, g, s, c, d) /\ Flows(o, g, s, d, c)
<1>1. c \in Connection /\ d \in Connection /\ g \in Connection /\ c # d /\ room[c] = g /\ room[d] = g
  BY EndsOfStream DEF Both
<1>2. up[c] # << >> /\ f = Head(up[c]) /\ f.kind \in OfStream /\ f.stream = s
  BY DEF FrameOf
<1>3. up'[c] = Tail(up[c]) /\ up'[d] = up[d] /\ Present(c) /\ UNCHANGED <<hungUp, myId, entry, page, nextSeq>>
  BY <1>1 DEF MemberFrame, roomVars, pageVars, NetInv, PageTypes
<1>4. \A x \in {c, d} : socket'[x] = socket[x] \/ (socket[x] = "open" /\ socket'[x] = "closing")
  BY <1>1 DEF MemberFrame, SocketsClose
<1>5. Ends(o, g, s, c, d) /\ Ends(o, g, s, d, c) /\ Flows(o, g, s, c, d) /\ Flows(o, g, s, d, c)
  BY StreamOfBoth
<1> QED BY <1>1, <1>2, <1>3, <1>4, <1>5, WiresTyped

\* The relay throws out the end that sent it.
LEMMA CutKeeps ==
  ASSUME NetInv, NEW o \in Connection, NEW g, NEW s \in StreamId, Stream(o, g, s), StreamInv(o, g, s),
         NEW c, NEW d, Both(o, g, c, d), NEW f, MemberFrame(c, f), FrameOf(o, g, s, c, f), Cuts(c)
  PROVE  StreamInv(o, g, s)'
<1>1. /\ c \in Connection /\ d \in Connection /\ c # d
      /\ up'[c] = Tail(up[c]) /\ up'[d] = up[d] /\ Present(c)
      /\ UNCHANGED <<hungUp, myId, entry, page, nextSeq>>
      /\ \A x \in {c, d} : socket'[x] = socket[x] \/ (socket[x] = "open" /\ socket'[x] = "closing")
      /\ Ends(o, g, s, c, d) /\ Ends(o, g, s, d, c) /\ Flows(o, g, s, c, d)
  BY FrameOfEnds
<1>2. UNCHANGED <<streams, down>> /\ socket'[c] = "closing" /\ c \in throttled' /\ throttled \subseteq throttled'
  BY <1>1 DEF Cuts, Present
<1>3. Begins(o, g, s)' /\ ~Opening(up'[o], s)
  <2>1. \A x \in {o, g} \ {c} : up'[x] = up[x]
    BY <1>1 DEF Both
  <2> QED BY <1>1, <1>2, <2>1, TakenBegins
<1>4. Closing(up'[c], s) => Closing(up[c], s)
  BY <1>1, TakenUp
<1>5. (IsOpen(c, s)' <=> IsOpen(c, s)) /\ (IsOpen(d, s)' <=> IsOpen(d, s))
  BY <1>1, <1>2 DEF IsOpen
<1>6. Ends(o, g, s, c, d)'
  BY <1>1, <1>2, <1>4, <1>5 DEF Ends
<1>7. Ends(o, g, s, d, c)'
  <2>1. Opening(up[o], s) => ~IsOpen(d, s)
    <3>1. Opening(up[o], s) => c = o /\ Quiet(o, g, s)
      BY TakenUp DEF StreamInv, Begins, FrameOf
    <3> QED BY <3>1, NoEntryFields, WiresBusy, <1>1 DEF IsOpen, Quiet, Both
  <2> QED BY <1>1, <1>2, <1>5, <2>1 DEF Ends
<1>8. Flows(o, g, s, c, d)'
  <2>1. ~Flowing(o, g, s, c)'
    BY <1>2, <1>3 DEF Flowing
  <2>2. Awaits(o, s, c)' => Awaits(o, s, c)
    BY <1>1, <1>2, <1>3 DEF Awaits
  <2> QED BY <1>1, <1>2, <2>1, <2>2, FlowKeeps
<1>9. Flows(o, g, s, d, c)'
  BY <1>2 DEF Flows
<1> QED BY <1>3, <1>6, <1>7, <1>8, <1>9, StreamOfBoth

\* The relay has no such stream any more, and drops it.
LEMMA LossKeeps ==
  ASSUME NetInv, NEW o \in Connection, NEW g, NEW s \in StreamId, Stream(o, g, s), StreamInv(o, g, s),
         NEW c, NEW d, Both(o, g, c, d), NEW f, MemberFrame(c, f), FrameOf(o, g, s, c, f), Loses(c, f)
  PROVE  StreamInv(o, g, s)'
<1>1. /\ c \in Connection /\ d \in Connection /\ c # d /\ room[c] = g /\ f.stream = s /\ up[c] # << >>
      /\ up'[c] = Tail(up[c]) /\ up'[d] = up[d]
      /\ UNCHANGED <<hungUp, myId, entry, page, nextSeq>>
      /\ \A x \in {c, d} : socket'[x] = socket[x] \/ (socket[x] = "open" /\ socket'[x] = "closing")
      /\ Ends(o, g, s, c, d) /\ Ends(o, g, s, d, c) /\ Flows(o, g, s, c, d) /\ Flows(o, g, s, d, c)
  BY FrameOfEnds
<1>2. UNCHANGED <<streams, down, throttled>> /\ streams[g][s] = NoPair /\ f.kind # "OPEN"
  BY <1>1 DEF Loses
<1>3. Begins(o, g, s)' /\ ~Opening(up'[o], s)
  <2>1. \A x \in {o, g} \ {c} : up'[x] = up[x]
    BY <1>1 DEF Both
  <2> QED BY <1>1, <1>2, <2>1, TakenBegins
<1>4. ~Opening(up[o], s) /\ (Closing(up'[c], s) => Closing(up[c], s))
  BY <1>1, <1>2, TakenUp
<1>5. (IsOpen(c, s)' <=> IsOpen(c, s)) /\ (IsOpen(d, s)' <=> IsOpen(d, s))
  BY <1>1, <1>2 DEF IsOpen
<1>6. Ends(o, g, s, c, d)' /\ Ends(o, g, s, d, c)'
  BY <1>1, <1>2, <1>4, <1>5 DEF Ends
<1>7. \A x \in {c, d} : ~Flowing(o, g, s, x)' /\ (Awaits(o, s, x)' => Awaits(o, s, x))
  BY <1>1, <1>2, <1>3 DEF Flowing, Awaits
<1>8. Flows(o, g, s, c, d)'
  BY <1>1, <1>2, <1>7, FlowKeeps
<1>9. Flows(o, g, s, d, c)'
  BY <1>1, <1>2, <1>7, FlowLess
<1> QED BY <1>3, <1>6, <1>8, <1>9, StreamOfBoth

\* There is no room for the stream, or nobody to take it.
LEMMA RefusalKeeps ==
  ASSUME NetInv, NEW o \in Connection, NEW g, NEW s \in StreamId, Stream(o, g, s), StreamInv(o, g, s),
         NEW f, MemberFrame(o, f), FrameOf(o, g, s, o, f), Refuses(o, f)
  PROVE  StreamInv(o, g, s)'
<1> DEFINE back == ToClient("CLOSE", 0, s, NONE, NONE)
<1>0. Both(o, g, o, g)
  BY DEF Both
<1>1. /\ g \in Connection /\ o # g /\ f.stream = s /\ up[o] # << >> /\ f = Head(up[o])
      /\ up'[o] = Tail(up[o]) /\ up'[g] = up[g]
      /\ UNCHANGED <<hungUp, myId, entry, page, nextSeq>>
      /\ \A x \in {o, g} : socket'[x] = socket[x] \/ (socket[x] = "open" /\ socket'[x] = "closing")
      /\ Ends(o, g, s, o, g) /\ Ends(o, g, s, g, o) /\ Flows(o, g, s, o, g) /\ Flows(o, g, s, g, o)
      /\ down[o] \in Seq(DownFrame)
  BY <1>0, FrameOfEnds
<1>2. /\ f.kind = "OPEN" /\ UNCHANGED <<streams, throttled>>
      /\ (down' = down /\ socket'[o] # "open") \/ SentTo(o, back)
  BY <1>1 DEF Refuses
<1>3. /\ Opening(up[o], s) /\ ~Opening(Tail(up[o]), s)
      /\ Closing(up[o], s) <=> Closing(Tail(up[o]), s)
  BY <1>2, TakenUp
<1>4. Quiet(o, g, s)
  BY <1>3 DEF StreamInv, Begins
<1>5. /\ streams[g][s] = NoPair /\ entry[g][s] = NoEntry /\ entry[g][s].open = FALSE
      /\ ~Opening(down[g], s) /\ ~Closing(down[g], s) /\ ~Closing(up[g], s) /\ ~Opening(down[o], s)
  BY <1>4, NoEntryFields, WiresBusy DEF Quiet
<1>6. back.kind = "CLOSE" /\ back.stream = s
  BY DEF ToClient
<1> HIDE DEF back
<1>7. /\ down'[g] = down[g]
      /\ down'[o] = down[o] \/ down'[o] = Append(down[o], back)
      /\ down'[o] = down[o] => o \in hungUp \/ socket'[o] # "open"
  <2>1. CASE down' = down /\ socket'[o] # "open"
    BY <2>1
  <2>2. CASE SentTo(o, back)
    <3>1. down'[o] = Append(down[o], back) => down'[o] # down[o]
      BY <1>1
    <3> QED BY <1>1, <2>2, <3>1 DEF SentTo
  <2> QED BY <1>2, <2>1, <2>2
<1>8. /\ ~Opening(down'[o], s)
      /\ down'[o] = Append(down[o], back) => Closing(down'[o], s)
      /\ \A l, h : Carries(down[o], s, o, l, h) => Carries(down'[o], s, o, l, h)
      /\ DataFrom(down[o], s, g) => DataFrom(down'[o], s, g)
  <2>1. CASE down'[o] = down[o]
    <3>1. down[o] # Append(down[o], back)
      BY <1>1
    <3> QED BY <1>5, <2>1, <3>1
  <2>2. CASE down'[o] = Append(down[o], back)
    <3>1. ~IsData(back, s)
      BY <1>6 DEF IsData
    <3>2. ~Opening(down'[o], s) /\ Closing(down'[o], s)
      BY <1>1, <1>5, <1>6, <2>2, FrameSent
    <3>3. \A l, h : Carries(down[o], s, o, l, h) => Carries(down'[o], s, o, l, h)
      BY <1>1, <2>2, <3>1, CarriesSent
    <3>4. DataFrom(down[o], s, g) => DataFrom(down'[o], s, g)
      BY <1>1, <2>2, <3>1, DataFromSent
    <3> QED BY <3>2, <3>3, <3>4
  <2> QED BY <1>7, <2>1, <2>2
<1>9. Begins(o, g, s)' /\ ~Opening(up'[o], s)
  <2>1. \A x \in {o, g} \ {o} : up'[x] = up[x]
    BY <1>1
  <2> QED BY <1>1, <1>5, <1>7, <2>1, TakenBegins
<1>10. Ends(o, g, s, o, g)'
  <2>1. Closing(up'[o], s) => entry'[o][s] = NoEntry
    BY <1>1, <1>3 DEF Ends
  <2>2. IsOpen(o, s)' => entry[o][s].open
    BY <1>1, <1>8 DEF IsOpen
  <2>3. entry[o][s].open => o \notin hungUp
    BY NoEntryFields, WiresOfStream
  <2>4. IsOpen(o, s)' /\ socket'[o] = "open" => Closing(down'[o], s)
    BY <1>7, <1>8, <2>2, <2>3
  <2> QED BY <1>2, <1>5, <1>8, <2>1, <2>4 DEF Ends
<1>11. Ends(o, g, s, g, o)'
  BY <1>1, <1>2, <1>5, <1>7 DEF Ends, IsOpen
<1>12. ~Flowing(o, g, s, o)' /\ ~Awaits(o, s, g)' /\ (Awaits(o, s, o)' => Awaits(o, s, o))
  BY <1>1, <1>2, <1>5, <1>7, <1>9 DEF Flowing, Awaits
<1>13. Flows(o, g, s, o, g)'
  BY <1>1, <1>2, <1>8, <1>12, FlowKeeps
<1>14. Flows(o, g, s, g, o)'
  BY <1>12 DEF Flows
<1> QED BY <1>9, <1>10, <1>11, <1>13, <1>14 DEF StreamInv

\* The relay joins the two ends.
LEMMA PairKeeps ==
  ASSUME NetInv, RelayInv', NEW o \in Connection, NEW g, NEW s \in StreamId, Stream(o, g, s), StreamInv(o, g, s),
         NEW f, MemberFrame(o, f), FrameOf(o, g, s, o, f), Pairs(o, f)
  PROVE  StreamInv(o, g, s)'
<1> DEFINE h == ToClient("OPEN", myId[o], s, o, f.body)
<1>0. Both(o, g, o, g)
  BY DEF Both
<1>1. /\ g \in Connection /\ o # g /\ room[o] = g /\ f.stream = s /\ up[o] # << >> /\ f = Head(up[o])
      /\ up'[o] = Tail(up[o]) /\ up'[g] = up[g] /\ Present(o)
      /\ UNCHANGED <<hungUp, myId, entry, page, nextSeq>>
      /\ \A x \in {o, g} : socket'[x] = socket[x] \/ (socket[x] = "open" /\ socket'[x] = "closing")
      /\ Ends(o, g, s, o, g) /\ Ends(o, g, s, g, o) /\ Flows(o, g, s, o, g) /\ Flows(o, g, s, g, o)
      /\ up[o] \in Seq(UpFrame) /\ down[g] \in Seq(DownFrame)
  BY <1>0, FrameOfEnds
<1>2. /\ f.kind = "OPEN" /\ throttled' = throttled /\ SentTo(g, h)
      /\ streams' = [streams EXCEPT ![g][s] = [a |-> myId[o], b |-> 1]]
  BY <1>1 DEF Pairs
<1>3. /\ Opening(up[o], s) /\ ~Opening(Tail(up[o]), s)
      /\ Closing(up[o], s) <=> Closing(Tail(up[o]), s)
      /\ ~(page[o] # "over" /\ NotYet(o, s))
  BY <1>2, TakenUp
<1>4. /\ Quiet(o, g, s) /\ entry[o][s].chunks = << >>
      /\ Present(g) => entry[o][s].open \/ Closing(up[o], s) \/ o \in hungUp
  BY <1>3 DEF StreamInv, Begins
<1>5. /\ entry[g][s] = NoEntry /\ ~Busy(up[g], s) /\ ~Busy(down[o], s) /\ ~Busy(down[g], s)
      /\ ~Opening(down[g], s) /\ ~Closing(down[g], s) /\ ~Closing(up[g], s) /\ ~Closing(down[o], s)
  BY <1>4, WiresBusy DEF Quiet
<1>6. h.kind = "OPEN" /\ h.stream = s
  BY DEF ToClient
<1> HIDE DEF h
<1>7. streams'[g][s] # NoPair /\ Present(g)
  <2>1. RelayInv /\ streams \in [Connection -> [StreamId -> Pair \cup {NoPair}]]
    BY DEF NetInv, RelayInv, RelayTypeOK
  <2>2. streams'[g][s] = [a |-> myId[o], b |-> 1]
    BY <1>1, <1>2, <2>1
  <2>3. streams'[g][s] # NoPair /\ streams'[g][s].b = 1
    BY <2>2 DEF NoPair
  <2>4. members'[g][1] # NONE
    BY <1>1, <2>3 DEF RelayInv, StreamsJoinMembers
  <2>5. members' = members
    BY DEF MemberFrame, roomVars
  <2>6. members[g][1] \in Connection /\ Present(members[g][1]) /\ room[members[g][1]] = g /\ myId[members[g][1]] = 1
    BY <1>1, <2>1, <2>4, <2>5, Constants DEF RelayInv, RelayTypeOK, MembersAreThere
  <2>7. members[g][1] = g
    BY <2>6, EndsOfStream
  <2> QED BY <2>3, <2>6, <2>7
<1>8. /\ down'[o] = down[o]
      /\ down'[g] = Append(down[g], h) \/ (down'[g] = down[g] /\ (g \in hungUp \/ socket'[g] # "open"))
  BY <1>1, <1>2 DEF SentTo
<1>9. /\ down'[g] = Append(down[g], h) => Opening(down'[g], s)
      /\ ~Closing(down'[g], s)
      /\ Opening(down'[g], s) => OpenFirst(down'[g], s)
      /\ LeftIsLast(down'[g], myId[o], s)
      /\ \A l, n : Carries(down[g], s, o, l, n) => Carries(down'[g], s, o, l, n)
      /\ DataFrom(down[g], s, o) => DataFrom(down'[g], s, o)
  <2>0. OpenFirst(down[g], s) /\ LeftIsLast(down[g], myId[o], s)
    BY <1>5, IdleWire DEF StreamInv, Begins
  <2>1. CASE down'[g] = down[g]
    <3>1. down[g] # Append(down[g], h)
      BY <1>1
    <3> QED BY <1>5, <2>0, <2>1, <3>1
  <2>2. CASE down'[g] = Append(down[g], h)
    <3>1. ~IsData(h, s)
      BY <1>6 DEF IsData
    <3>2. Opening(down'[g], s) /\ ~Closing(down'[g], s)
      BY <1>1, <1>5, <1>6, <2>2, FrameSent
    <3>3. OpenFirst(down'[g], s)
      BY <1>1, <1>5, <2>0, <2>2, OpenFirstSent DEF Busy
    <3>4. ~Left(down[g], myId[o])
      BY <1>1, WiresOfStream DEF Present
    <3>5. LeftIsLast(down'[g], myId[o], s)
      BY <1>1, <2>0, <2>2, <3>4, LeftSent
    <3>6. \A l, n : Carries(down[g], s, o, l, n) => Carries(down'[g], s, o, l, n)
      BY <1>1, <2>2, <3>1, CarriesSent
    <3>7. DataFrom(down[g], s, o) => DataFrom(down'[g], s, o)
      BY <1>1, <2>2, <3>1, DataFromSent
    <3> QED BY <3>2, <3>3, <3>5, <3>6, <3>7
  <2> QED BY <1>8, <2>1, <2>2
<1>10. ~Opening(up'[o], s)
  BY <1>1, <1>3
<1>11. Begins(o, g, s)'
  <2>1. ~(page'[o] # "over" /\ NotYet(o, s)')
    BY <1>1, <1>3 DEF NotYet
  <2> QED BY <1>1, <1>4, <1>5, <1>8, <1>9, <1>10, <2>1 DEF Begins
<1>12. Ends(o, g, s, o, g)'
  <2>1. Closing(up'[o], s) => entry'[o][s] = NoEntry /\ ~Opening(down'[o], s)
    BY <1>1, <1>3, <1>8 DEF Ends
  <2>2. IsOpen(o, s)' \/ Closing(up'[o], s) \/ o \in hungUp'
    BY <1>1, <1>3, <1>4, <1>7 DEF IsOpen
  <2> QED BY <1>5, <1>7, <1>8, <2>1, <2>2 DEF Ends
<1>13. Ends(o, g, s, g, o)'
  <2>1. ~Closing(up'[g], s)
    BY <1>1, <1>5
  <2>2. IsOpen(g, s)' \/ socket'[g] = "closing" \/ g \in hungUp'
    BY <1>1, <1>7, <1>8, <1>9 DEF IsOpen, Present
  <2> QED BY <1>7, <1>9, <2>1, <2>2 DEF Ends
<1>14. \A x \in {o, g} : Flowing(o, g, s, x) /\ (Awaits(o, s, x)' => Awaits(o, s, x))
  BY <1>1, <1>3, <1>8 DEF Flowing, Awaits
<1>15. Flows(o, g, s, o, g)'
  BY <1>1, <1>2, <1>8, <1>14, FlowKeeps
<1>16. Flows(o, g, s, g, o)'
  <2>1. ~IsData(Head(up[o]), s)
    BY <1>1, <1>2 DEF IsData
  <2>2. \A l, n : Carries(up[o], s, o, l, n) => Carries(up'[o], s, o, l, n)
    BY <1>1, <2>1, CarriesTaken
  <2> QED BY <1>1, <1>2, <1>9, <1>14, <2>2, FlowKeeps
<1> QED BY <1>11, <1>12, <1>13, <1>15, <1>16 DEF StreamInv

\* What the relay sends on to the other end.
LEMMA SentOn ==
  ASSUME NEW T, NEW d \in Connection, down[d] \in Seq(T), NEW h, NEW s, SentTo(d, h),
         h.kind \in {"DATA", "CLOSE"}, h.stream = s
  PROVE  /\ \/ down'[d] = Append(down[d], h) /\ socket[d] = "open"
            \/ down'[d] = down[d] /\ (d \in hungUp \/ socket'[d] # "open")
         /\ Opening(down'[d], s) <=> Opening(down[d], s)
         /\ Closing(down[d], s) => Closing(down'[d], s)
         /\ h.kind = "CLOSE" /\ down'[d] = Append(down[d], h) => Closing(down'[d], s)
         /\ h.kind = "DATA" /\ Closing(down'[d], s) => Closing(down[d], s)
         /\ h.kind = "CLOSE" => /\ \A o, l, n : Carries(down[d], s, o, l, n) => Carries(down'[d], s, o, l, n)
                                /\ \A c : DataFrom(down[d], s, c) => DataFrom(down'[d], s, c)
<1>1. \/ down'[d] = Append(down[d], h) /\ socket[d] = "open"
      \/ down'[d] = down[d] /\ (d \in hungUp \/ socket'[d] # "open")
  BY DEF SentTo
<1>2. CASE down'[d] = Append(down[d], h)
  <2>1. /\ Opening(down'[d], s) <=> Opening(down[d], s)
        /\ Closing(down'[d], s) <=> Closing(down[d], s) \/ h.kind = "CLOSE"
    BY <1>2, FrameSent
  <2>2. h.kind = "CLOSE" => ~IsData(h, s)
    BY DEF IsData
  <2>3. h.kind = "CLOSE" => /\ \A o, l, n : Carries(down[d], s, o, l, n) => Carries(down'[d], s, o, l, n)
                            /\ \A c : DataFrom(down[d], s, c) => DataFrom(down'[d], s, c)
    BY <1>2, <2>2, CarriesSent, DataFromSent
  <2> QED BY <1>1, <2>1, <2>3
<1>3. CASE down'[d] = down[d]
  <2>1. down[d] # Append(down[d], h)
    OBVIOUS
  <2> QED BY <1>1, <1>3, <2>1
<1> QED BY <1>1, <1>2, <1>3

\* The relay hands a chunk, or the end of the stream, on to the other end.
LEMMA ForwardKeeps ==
  ASSUME NetInv, NEW o \in Connection, NEW g, NEW s \in StreamId, Stream(o, g, s), StreamInv(o, g, s),
         NEW c, NEW d, Both(o, g, c, d), NEW f, MemberFrame(c, f), FrameOf(o, g, s, c, f), Forwards(c, f, d)
  PROVE  StreamInv(o, g, s)'
<1> DEFINE h == ToClient(f.kind, 0, s, c, f.body)
<1>1. /\ c \in Connection /\ d \in Connection /\ g \in Connection /\ c # d /\ room[c] = g
      /\ up[c] # << >> /\ f = Head(up[c]) /\ f.stream = s
      /\ up'[c] = Tail(up[c]) /\ up'[d] = up[d]
      /\ UNCHANGED <<hungUp, myId, entry, page, nextSeq>>
      /\ \A x \in {c, d} : socket'[x] = socket[x] \/ (socket[x] = "open" /\ socket'[x] = "closing")
      /\ Ends(o, g, s, c, d) /\ Ends(o, g, s, d, c) /\ Flows(o, g, s, c, d) /\ Flows(o, g, s, d, c)
      /\ up[c] \in Seq(UpFrame) /\ down[d] \in Seq(DownFrame)
  BY FrameOfEnds
<1>2. /\ f.kind \in {"DATA", "CLOSE"} /\ streams[g][s] # NoPair /\ throttled' = throttled /\ SentTo(d, h)
      /\ streams' = IF f.kind = "CLOSE" THEN [streams EXCEPT ![g][s] = NoPair] ELSE streams
  BY <1>1 DEF Forwards
<1>3. streams'[g][s] = IF f.kind = "CLOSE" THEN NoPair ELSE streams[g][s]
  BY <1>1, <1>2 DEF NetInv, RelayInv, RelayTypeOK
<1>4. h.kind = f.kind /\ h.stream = s /\ h.from = c /\ h.body = f.body
  BY DEF ToClient
<1> HIDE DEF h
<1>5. /\ \/ down'[d] = Append(down[d], h) /\ socket[d] = "open"
         \/ down'[d] = down[d] /\ (d \in hungUp \/ socket'[d] # "open")
      /\ Opening(down'[d], s) <=> Opening(down[d], s)
      /\ Closing(down[d], s) => Closing(down'[d], s)
      /\ f.kind = "CLOSE" /\ down'[d] = Append(down[d], h) => Closing(down'[d], s)
      /\ f.kind = "DATA" /\ Closing(down'[d], s) => Closing(down[d], s)
      /\ f.kind = "CLOSE" => /\ \A l, n : Carries(down[d], s, o, l, n) => Carries(down'[d], s, o, l, n)
                             /\ DataFrom(down[d], s, c) => DataFrom(down'[d], s, c)
  <2>1. d \in Connection /\ down[d] \in Seq(DownFrame) /\ SentTo(d, h) /\ h.kind \in {"DATA", "CLOSE"} /\ h.stream = s
    BY <1>1, <1>2, <1>4
  <2>2. /\ \/ down'[d] = Append(down[d], h) /\ socket[d] = "open"
           \/ down'[d] = down[d] /\ (d \in hungUp \/ socket'[d] # "open")
        /\ Opening(down'[d], s) <=> Opening(down[d], s)
        /\ Closing(down[d], s) => Closing(down'[d], s)
        /\ h.kind = "CLOSE" /\ down'[d] = Append(down[d], h) => Closing(down'[d], s)
        /\ h.kind = "DATA" /\ Closing(down'[d], s) => Closing(down[d], s)
        /\ h.kind = "CLOSE" => /\ \A a, l, n : Carries(down[d], s, a, l, n) => Carries(down'[d], s, a, l, n)
                               /\ \A a : DataFrom(down[d], s, a) => DataFrom(down'[d], s, a)
    BY <2>1, SentOn
  <2> QED BY <1>4, <2>2
<1>6. down'[c] = down[c]
  BY <1>1, <1>2 DEF SentTo
<1>7. /\ ~Opening(up[o], s) /\ (Closing(up[c], s) <=> Closing(Tail(up[c]), s) \/ f.kind = "CLOSE")
      /\ c = g => ~Opening(down[g], s)
  BY <1>2, TakenUp
<1>8. Begins(o, g, s)' /\ ~Opening(up'[o], s)
  <2>1. \A x \in {o, g} \ {c} : up'[x] = up[x]
    BY <1>1 DEF Both
  <2>2. down'[g] = down[g] \/ \E k : down'[g] = Append(down[g], k) /\ k.kind # "OPEN"
    BY <1>2, <1>4, <1>5, <1>6 DEF Both
  <2>3. down'[o] = down[o] \/ ~Opening(down[g], s)
    BY <1>6, <1>7 DEF Both
  <2> QED BY <1>1, <2>1, <2>2, <2>3, TakenBegins
<1>9. (IsOpen(c, s)' <=> IsOpen(c, s)) /\ (IsOpen(d, s)' <=> IsOpen(d, s))
  BY <1>1, <1>5, <1>6 DEF IsOpen
<1>10. d \in hungUp => down[d] = << >> /\ entry[d][s] = NoEntry /\ ~Opening(down[d], s) /\ ~IsOpen(d, s)
  <2>1. d \in hungUp => down[d] = << >> /\ entry[d][s] = NoEntry
    BY WiresOfStream DEF Both
  <2> QED BY <2>1, NothingBusy, NoEntryFields DEF IsOpen
<1>11. Ends(o, g, s, c, d)'
  <2>1. f.kind = "CLOSE" => ~IsOpen(c, s)
    BY <1>1, <1>7, NoEntryFields DEF Ends, IsOpen
  <2> QED BY <1>1, <1>2, <1>3, <1>6, <1>7, <1>9, <2>1 DEF Ends
<1>12. Ends(o, g, s, d, c)'
  <2>1. Closing(up'[d], s) => entry'[d][s] = NoEntry /\ ~Opening(down'[d], s)
    BY <1>1, <1>5 DEF Ends
  <2>2. Closing(down'[d], s) => streams'[g][s] = NoPair
    BY <1>1, <1>2, <1>3, <1>5 DEF Ends
  <2>3. streams'[g][s] # NoPair => IsOpen(d, s)' \/ Closing(up'[d], s) \/ socket'[d] = "closing" \/ d \in hungUp'
    BY <1>1, <1>2, <1>9 DEF Ends
  <2>4. IsOpen(d, s)' /\ socket'[d] = "open" /\ streams'[g][s] = NoPair => Closing(down'[d], s)
    BY <1>2, <1>3, <1>5, <1>9, <1>10
  <2> QED BY <2>1, <2>2, <2>3, <2>4 DEF Ends
<1>13. \A x \in {c, d} : Awaits(o, s, x)' => Awaits(o, s, x)
  BY <1>1, <1>5, <1>6, <1>8 DEF Awaits
<1>14. Flows(o, g, s, c, d)'
  <2>1. Flowing(o, g, s, c)' => Flowing(o, g, s, c)
    BY <1>1, <1>2, <1>8 DEF Flowing
  <2> QED BY <1>1, <1>2, <1>6, <1>13, <2>1, FlowKeeps
<1>15. CASE f.kind = "CLOSE" \/ down'[d] = down[d]
  <2>1. /\ \A l, n : Carries(down[d], s, o, l, n) => Carries(down'[d], s, o, l, n)
        /\ DataFrom(down[d], s, c) => DataFrom(down'[d], s, c)
    BY <1>5, <1>15
  <2>2. ASSUME Flowing(o, g, s, d)' PROVE Flows(o, g, s, d, c)'
    <3>1. f.kind # "CLOSE" /\ socket'[d] = "open"
      BY <1>3, <1>8, <2>2 DEF Flowing
    <3>2. d \in hungUp
      <4>1. down[d] # Append(down[d], h)
        BY <1>1
      <4> QED BY <1>5, <1>15, <3>1, <4>1
    <3>3. ~Awaits(o, s, d)'
      BY <1>1, <1>5, <1>8, <1>10, <3>2 DEF Awaits, Both
    <3> QED BY <3>3 DEF Flows
  <2>3. ASSUME ~Flowing(o, g, s, d)' PROVE Flows(o, g, s, d, c)'
    BY <1>1, <1>2, <1>13, <2>1, <2>3, FlowLess
  <2>4. Flows(o, g, s, d, c)'
    BY <2>2, <2>3
  <2> QED BY <1>8, <1>11, <1>12, <1>14, <2>4, StreamOfBoth
<1>16. CASE f.kind = "DATA" /\ down'[d] = Append(down[d], h)
  <2>1. socket[d] = "open"
    <3>1. down[d] # Append(down[d], h)
      BY <1>1
    <3> QED BY <1>5, <1>16, <3>1
  <2>2. Flowing(o, g, s, d)
    BY <1>2, <2>1 DEF Flowing
  <2>3. IsData(h, s) /\ IsData(Head(up[c]), s)
    BY <1>1, <1>4, <1>16 DEF IsData
  <2>4. Flows(o, g, s, d, c)'
    <3> SUFFICES ASSUME c \notin throttled', Awaits(o, s, d)'
                 PROVE  /\ Got(o, s, d, c)' /\ DataFrom(down'[d], s, c)
                        /\ \E m, l, n \in 0 .. MaxChunks :
                             /\ Carries(down'[d], s, o, Len(entry'[d][s].chunks), m)
                             /\ Carries(up'[c], s, o, l, n)
                             /\ entry'[c][s] # NoEntry => entry'[c][s].sent = n
                             /\ Flowing(o, g, s, d)' => l = m
      BY DEF Flows
    <3>1. c \notin throttled /\ Awaits(o, s, d)
      BY <1>1, <1>2, <1>13
    <3>2. Got(o, s, d, c) /\ DataFrom(down[d], s, c)
      BY <1>1, <3>1 DEF Flows
    <3>3. PICK m \in 0 .. MaxChunks, l \in 0 .. MaxChunks, n \in 0 .. MaxChunks :
            /\ Carries(down[d], s, o, Len(entry[d][s].chunks), m)
            /\ Carries(up[c], s, o, l, n)
            /\ entry[c][s] # NoEntry => entry[c][s].sent = n
            /\ l = m
      BY <1>1, <2>2, <3>1 DEF Flows
    <3>4. MaxChunks \in Nat /\ l \in Nat /\ n \in Nat /\ n <= MaxChunks
      BY PageConstants
    <3>5. f.body = [opener |-> o, n |-> l + 1] /\ l + 1 <= n /\ Carries(Tail(up[c]), s, o, l + 1, n)
      BY <1>1, <2>3, <3>3, <3>4, CarriesLess
    <3>6. l + 1 \in 0 .. MaxChunks
      BY <3>4, <3>5
    <3>7. Len(entry[d][s].chunks) \in Nat
      BY <1>1, EntryTyped
    <3>8. Carries(down'[d], s, o, Len(entry[d][s].chunks), l + 1)
      BY <1>1, <1>4, <1>16, <2>3, <3>3, <3>4, <3>5, <3>7, CarriesMore
    <3>9. DataFrom(down'[d], s, c)
      BY <1>1, <1>4, <1>16, <3>2, DataFromSent
    <3>10. Got(o, s, d, c)'
      BY <1>1, <3>2 DEF Got
    <3> QED BY <1>1, <3>3, <3>5, <3>6, <3>8, <3>9, <3>10
  <2> QED BY <1>8, <1>11, <1>12, <1>14, <2>4, StreamOfBoth
<1> QED BY <1>2, <1>5, <1>15, <1>16

\* The relay handles any frame of a member.
LEMMA MemberFrameKeeps ==
  ASSUME NetInv, RelayInv', NEW o \in Connection, NEW g, NEW s \in StreamId, Stream(o, g, s), StreamInv(o, g, s),
         NEW c \in Connection, room[c] # NONE, NEW f, MemberFrame(c, f)
  PROVE  StreamInv(o, g, s)'
<1>1. /\ Present(c) /\ up[c] # << >> /\ f = Head(up[c]) /\ UpSound(c, f)
      /\ \/ Passes(c, f) \/ Cuts(c) \/ Refuses(c, f) \/ Pairs(c, f) \/ Loses(c, f)
         \/ \E x \in Connection : Forwards(c, f, x)
  BY DEF MemberFrame
<1>2. CASE room[c] # g \/ Foreign(f, s)
  BY <1>2, MemberElsewhere
<1>3. CASE room[c] = g /\ ~Foreign(f, s)
  <2>1. c \in {o, g}
    BY <1>1, <1>3, PartOfStream DEF UpSound, Foreign
  <2>2. FrameOf(o, g, s, c, f)
    BY <1>1, <1>3, <2>1 DEF FrameOf, Foreign
  <2> DEFINE d == IF c = o THEN g ELSE o
  <2>3. Both(o, g, c, d)
    BY <2>1 DEF Both
  <2> HIDE DEF d
  <2>4. ~Passes(c, f)
    BY <2>2 DEF Passes, FrameOf
  <2>5. CASE Cuts(c)
    BY <2>2, <2>3, <2>5, CutKeeps
  <2>6. CASE f.kind = "OPEN" /\ (Refuses(c, f) \/ Pairs(c, f))
    <3>1. c = o
      BY <2>2, <2>6, TakenUp
    <3>2. MemberFrame(o, f) /\ FrameOf(o, g, s, o, f) /\ (Refuses(o, f) \/ Pairs(o, f))
      BY <2>2, <2>6, <3>1
    <3>3. Refuses(o, f) => StreamInv(o, g, s)'
      BY <3>2, RefusalKeeps
    <3>4. Pairs(o, f) => StreamInv(o, g, s)'
      BY <3>2, PairKeeps
    <3> QED BY <3>2, <3>3, <3>4
  <2>7. CASE Loses(c, f)
    BY <2>2, <2>3, <2>7, LossKeeps
  <2>8. ASSUME NEW x \in Connection, Forwards(c, f, x) PROVE StreamInv(o, g, s)'
    <3>1. /\ f.stream = s /\ streams[g][s] # NoPair /\ room[x] = g /\ x # c
          /\ \/ myId[c] = 1 /\ myId[x] = streams[g][s].a
             \/ myId[c] = streams[g][s].a /\ myId[x] = 1
      BY <1>3, <2>2, <2>8 DEF Forwards, FrameOf
    <3>2. streams[g][s].a = myId[o]
      <4>1. streams[g][s] = [a |-> myId[o], b |-> 1]
        BY <3>1, PairOfEnds
      <4> QED BY <4>1
    <3>3. x \in {o, g}
      BY <3>1, <3>2, EndsOfStream
    <3>4. x = d
      BY <2>3, <3>1, <3>3 DEF Both
    <3> QED BY <2>2, <2>3, <2>8, <3>4, ForwardKeeps
  <2>9. (Refuses(c, f) \/ Pairs(c, f)) => f.kind = "OPEN"
    BY DEF Refuses, Pairs
  <2> QED BY <1>1, <2>4, <2>5, <2>6, <2>7, <2>8, <2>9
<1> QED BY <1>2, <1>3 DEF Foreign

-----------------------------------------------------------------------------
(* Somebody leaves.                                                          *)

\* Who is not an end of the stream may leave without its being noticed.
LEMMA LeavesElsewhere ==
  ASSUME NetInv, NEW o \in Connection, NEW g, NEW s \in StreamId, Stream(o, g, s), StreamInv(o, g, s),
         NEW c \in Connection, Leaves(c), c \notin {o, g}
  PROVE  StreamInv(o, g, s)'
<1>1. /\ up' = [up EXCEPT ![c] = << >>] /\ UNCHANGED <<throttled, room, myId, hungUp, page, entry, nextSeq>>
      /\ \A x \in Connection \ {c} : socket'[x] = socket[x] \/ (socket[x] = "open" /\ socket'[x] = "closing")
      /\ \A x \in Connection : down'[x] = down[x] \/ Told(c, x)
  BY DEF Leaves, pageVars
<1>2. /\ o \in Connection /\ g \in Connection /\ room[o] = g /\ room[g] = g /\ g # NONE
      /\ \A x \in Connection : room[x] = g /\ myId[x] = myId[o] => x = o
      /\ \A x \in Connection : room[x] = g /\ myId[x] = 1 => x = g
  BY EndsOfStream
<1>3. \A x \in {o, g} : Elsewhere(up[x], up'[x], s)
  BY <1>1, <1>2 DEF Elsewhere, NetInv, PageTypes
<1>4. \A x \in {o, g} : /\ Elsewhere(down[x], down'[x], s)
                        /\ ~(down[x] # << >> /\ down'[x] = Tail(down[x]))
  <2> SUFFICES ASSUME NEW x \in {o, g}
               PROVE  Elsewhere(down[x], down'[x], s) /\ ~(down[x] # << >> /\ down'[x] = Tail(down[x]))
    OBVIOUS
  <2> DEFINE wire == down[x]
             w    == down'[x]
             h    == ToClient("PEER_LEFT", myId[c], 0, NONE, NONE)
  <2>1. wire \in Seq(DownFrame) /\ (w = wire \/ w = Append(wire, h))
    BY <1>1, <1>2, WiresTyped DEF Told
  <2>2. Foreign(h, s)
    BY DEF Foreign, ToClient, OfStream
  <2> HIDE DEF wire, w, h
  <2>3. Elsewhere(wire, w, s)
    BY <2>1, <2>2 DEF Elsewhere
  <2>4. w = wire => ~(wire # << >> /\ w = Tail(wire))
    BY <2>1
  <2>5. w = Append(wire, h) => ~(wire # << >> /\ w = Tail(wire))
    BY <2>1
  <2> QED BY <2>1, <2>3, <2>4, <2>5 DEF wire, w
<1>5. streams'[g][s] = streams[g][s]
  <2>1. CASE room[c] # g
    BY <2>1, <1>2 DEF Leaves, NetInv, RelayInv, RelayTypeOK
  <2>2. CASE room[c] = g
    <3>1. streams' = [streams EXCEPT ![g] = StreamsWithout(g, myId[c])]
      BY <1>2, <2>2 DEF Leaves
    <3>2. streams'[g][s] = IF myId[c] \in {streams[g][s].a, streams[g][s].b} THEN NoPair ELSE streams[g][s]
      <4>1. streams'[g] = StreamsWithout(g, myId[c])
        BY <1>2, <3>1 DEF NetInv, RelayInv, RelayTypeOK
      <4> QED BY <4>1 DEF StreamsWithout
    <3>3. myId[c] # myId[o] /\ myId[c] # 1
      BY <1>2, <2>2
    <3>4. streams[g][s] # NoPair => streams[g][s].a = myId[o] /\ streams[g][s].b = 1
      <4>1. streams[g][s] # NoPair => streams[g][s] = [a |-> myId[o], b |-> 1]
        BY PairOfEnds
      <4> QED BY <4>1
    <3> QED BY <3>2, <3>3, <3>4
  <2> QED BY <2>1, <2>2
<1>6. page'[o] # "over" /\ NotYet(o, s)' => page[o] # "over" /\ NotYet(o, s)
  BY <1>1 DEF NotYet
<1> QED BY <1>1, <1>2, <1>3, <1>4, <1>5, <1>6, ElsewhereKeeps

\* An end has left: the relay forgets the stream, and the other end is told or is on its way out.
LEMMA LeavesEnds ==
  ASSUME NetInv, NEW o \in Connection, NEW g, NEW s \in StreamId, Stream(o, g, s), StreamInv(o, g, s),
         NEW c, NEW d, Both(o, g, c, d), Leaves(c)
  PROVE  /\ c \in Connection /\ d \in Connection /\ g \in Connection /\ c # d
         /\ up'[c] = << >> /\ up'[d] = up[d] /\ socket'[c] = "closed"
         /\ UNCHANGED <<throttled, myId, hungUp, entry, page, nextSeq>>
         /\ socket'[d] = socket[d] \/ (socket[d] = "open" /\ socket'[d] = "closing")
         /\ streams'[g][s] = NoPair
         /\ down'[c] = down[c] /\ Same(down[d], down'[d], s)
         /\ \A i : LeftIsLast(down[d], i, s) => LeftIsLast(down'[d], i, s)
         /\ Told(c, d) => Left(down'[d], myId[c])
         /\ ~Opening(up'[c], s) /\ ~Closing(up'[c], s) /\ ~Busy(up'[c], s)
         /\ Ends(o, g, s, c, d) /\ Ends(o, g, s, d, c) /\ Flows(o, g, s, c, d) /\ Flows(o, g, s, d, c)
<1> DEFINE h == ToClient("PEER_LEFT", myId[c], 0, NONE, NONE)
<1>1. c \in Connection /\ d \in Connection /\ g \in Connection /\ c # d /\ room[c] = g /\ room[d] = g /\ g # NONE
  BY EndsOfStream DEF Both
<1>2. /\ up' = [up EXCEPT ![c] = << >>] /\ socket'[c] = "closed"
      /\ UNCHANGED <<throttled, myId, hungUp, entry, page, nextSeq>>
      /\ \A x \in Connection \ {c} : socket'[x] = socket[x] \/ (socket[x] = "open" /\ socket'[x] = "closing")
      /\ \A x \in Connection : down'[x] = down[x] \/ Told(c, x)
      /\ streams' = [streams EXCEPT ![g] = StreamsWithout(g, myId[c])]
  BY <1>1 DEF Leaves, pageVars
<1>3. up'[c] = << >> /\ up'[d] = up[d]
  BY <1>1, <1>2 DEF NetInv, PageTypes
<1>4. streams'[g][s] = NoPair
  <2>1. streams'[g] = StreamsWithout(g, myId[c])
    BY <1>1, <1>2 DEF NetInv, RelayInv, RelayTypeOK
  <2>2. streams[g][s] # NoPair => streams[g][s] = [a |-> myId[o], b |-> 1]
    BY PairOfEnds
  <2>3. myId[c] \in {myId[o], 1}
    BY EndsOfStream DEF Both
  <2>4. streams[g][s] # NoPair => myId[c] \in {streams[g][s].a, streams[g][s].b}
    BY <2>2, <2>3
  <2> QED BY <2>1, <2>4 DEF StreamsWithout
<1>5. down'[c] = down[c]
  BY <1>1, <1>2 DEF Told
<1>6. /\ Same(down[d], down'[d], s)
      /\ \A i : LeftIsLast(down[d], i, s) => LeftIsLast(down'[d], i, s)
  <2> DEFINE wire == down[d]
             w    == down'[d]
  <2>1. wire \in Seq(DownFrame) /\ (w = wire \/ w = Append(wire, h))
    BY <1>1, <1>2, WiresTyped DEF Told
  <2>2. Foreign(h, s)
    BY DEF Foreign, ToClient, OfStream
  <2> HIDE DEF wire, w, h
  <2>3. Elsewhere(wire, w, s)
    BY <2>1, <2>2 DEF Elsewhere
  <2>4. Same(wire, w, s) /\ \A i : LeftIsLast(wire, i, s) => LeftIsLast(w, i, s)
    BY <2>1, <2>3, SameElsewhere
  <2> QED BY <2>4 DEF wire, w
<1>7. Told(c, d) => Left(down'[d], myId[c])
  <2> SUFFICES ASSUME Told(c, d) PROVE Left(down'[d], myId[c])
    OBVIOUS
  <2>1. down[d] \in Seq(DownFrame) /\ down'[d] = Append(down[d], h)
    BY <1>1, WiresTyped DEF Told
  <2>2. h.kind = "PEER_LEFT" /\ h.member = myId[c]
    BY DEF ToClient
  <2> HIDE DEF h
  <2> DEFINE wire == down[d]
             i    == myId[c]
  <2>3. wire \in Seq(DownFrame) /\ h.kind = "PEER_LEFT" /\ h.member = i /\ down'[d] = Append(wire, h)
    BY <2>1, <2>2
  <2> HIDE DEF wire, i
  <2>4. Left(Append(wire, h), i)
    BY <2>3, LeftSent
  <2>5. Left(down'[d], i)
    BY <2>3, <2>4
  <2> QED BY <2>5 DEF i
<1>8. ~Opening(up'[c], s) /\ ~Closing(up'[c], s) /\ ~Busy(up'[c], s)
  BY <1>3, NothingBusy
<1>9. Ends(o, g, s, c, d) /\ Ends(o, g, s, d, c) /\ Flows(o, g, s, c, d) /\ Flows(o, g, s, d, c)
  BY StreamOfBoth
<1>10. socket'[d] = socket[d] \/ (socket[d] = "open" /\ socket'[d] = "closing")
  BY <1>1, <1>2
<1> QED BY <1>1, <1>2, <1>3, <1>4, <1>5, <1>6, <1>7, <1>8, <1>9, <1>10

\* What was on its way from c has not been lost after it had been.
LEMMA FlowEnds ==
  ASSUME NetInv, NEW o \in Connection, NEW g, NEW s \in StreamId, NEW c \in Connection, NEW d \in Connection,
         Flows(o, g, s, d, c), up'[c] = << >>, throttled' = throttled, UNCHANGED <<entry[c][s], entry[d][s]>>,
         Awaits(o, s, d)' => Awaits(o, s, d),
         Flowing(o, g, s, d)' => Flowing(o, g, s, d) /\ ~Busy(up[c], s),
         DataFrom(down[d], s, c) => DataFrom(down'[d], s, c),
         \A l, h : Carries(down[d], s, o, l, h) => Carries(down'[d], s, o, l, h)
  PROVE  Flows(o, g, s, d, c)'
<1> SUFFICES ASSUME c \notin throttled', Awaits(o, s, d)'
             PROVE  /\ Got(o, s, d, c)' /\ DataFrom(down'[d], s, c)
                    /\ \E m, l, h \in 0 .. MaxChunks :
                         /\ Carries(down'[d], s, o, Len(entry'[d][s].chunks), m)
                         /\ Carries(up'[c], s, o, l, h)
                         /\ entry'[c][s] # NoEntry => entry'[c][s].sent = h
                         /\ Flowing(o, g, s, d)' => l = m
  BY DEF Flows
<1>1. Got(o, s, d, c) /\ DataFrom(down[d], s, c)
  BY DEF Flows
<1>2. PICK m \in 0 .. MaxChunks, l \in 0 .. MaxChunks, h \in 0 .. MaxChunks :
        /\ Carries(down[d], s, o, Len(entry[d][s].chunks), m)
        /\ Carries(up[c], s, o, l, h)
        /\ entry[c][s] # NoEntry => entry[c][s].sent = h
        /\ Flowing(o, g, s, d) => l = m
  BY DEF Flows
<1>3. l \in Nat /\ h \in Nat
  BY PageConstants
<1>4. Carries(up'[c], s, o, h, h)
  <2>1. ~Busy(up'[c], s)
    BY NothingBusy
  <2> QED BY <1>3, <2>1, IdleWire
<1>5. Flowing(o, g, s, d)' => h = m
  <2>1. ~Busy(up[c], s) => h = l
    BY <1>2, <1>3, IdleWire
  <2> QED BY <1>2, <2>1
<1>6. Got(o, s, d, c)'
  BY <1>1 DEF Got
<1> QED BY <1>1, <1>2, <1>4, <1>5, <1>6

\* The opener leaves.
LEMMA OpenerLeaves ==
  ASSUME NetInv, NEW o \in Connection, NEW g, NEW s \in StreamId, Stream(o, g, s), StreamInv(o, g, s), Leaves(o)
  PROVE  StreamInv(o, g, s)'
<1>0. Both(o, g, o, g)
  BY DEF Both
<1>1. /\ g \in Connection /\ o # g /\ up'[o] = << >> /\ up'[g] = up[g] /\ socket'[o] = "closed"
      /\ UNCHANGED <<throttled, myId, hungUp, entry, page, nextSeq>>
      /\ socket'[g] = socket[g] \/ (socket[g] = "open" /\ socket'[g] = "closing")
      /\ streams'[g][s] = NoPair
      /\ down'[o] = down[o] /\ Same(down[g], down'[g], s)
      /\ \A i : LeftIsLast(down[g], i, s) => LeftIsLast(down'[g], i, s)
      /\ Told(o, g) => Left(down'[g], myId[o])
      /\ ~Opening(up'[o], s) /\ ~Closing(up'[o], s) /\ ~Busy(up'[o], s)
      /\ Ends(o, g, s, o, g) /\ Ends(o, g, s, g, o) /\ Flows(o, g, s, o, g) /\ Flows(o, g, s, g, o)
  BY <1>0, LeavesEnds
<1>2. /\ Opening(down'[g], s) <=> Opening(down[g], s)
      /\ Closing(down'[g], s) <=> Closing(down[g], s)
      /\ Busy(down'[g], s) <=> Busy(down[g], s)
      /\ OpenFirst(down[g], s) => OpenFirst(down'[g], s)
      /\ \A l, h : Carries(down[g], s, o, l, h) => Carries(down'[g], s, o, l, h)
      /\ DataFrom(down[g], s, o) => DataFrom(down'[g], s, o)
  BY <1>1, SameWire
<1>3. Begins(o, g, s)'
  <2>1. page'[o] # "over" /\ NotYet(o, s)' => Quiet(o, g, s)
    BY <1>1 DEF StreamInv, Begins, NotYet
  <2>2. Quiet(o, g, s) => Quiet(o, g, s)'
    BY <1>1, <1>2 DEF Quiet
  <2>3. Opening(down'[g], s) =>
          /\ OpenFirst(down'[g], s) /\ entry'[g][s] = NoEntry /\ entry'[o][s].chunks = << >>
          /\ ~Busy(up'[g], s) /\ ~Busy(down'[o], s)
    BY <1>1, <1>2 DEF StreamInv, Begins
  <2>4. LeftIsLast(down'[g], myId'[o], s)
    BY <1>1 DEF StreamInv, Begins
  <2> QED BY <1>1, <2>1, <2>2, <2>3, <2>4 DEF Begins
<1>4. Ends(o, g, s, o, g)'
  BY <1>1 DEF Ends
<1>5. Ends(o, g, s, g, o)'
  <2>1. IsOpen(g, s)' => IsOpen(g, s)
    BY <1>1, <1>2 DEF IsOpen
  <2>2. ASSUME IsOpen(g, s), socket'[g] = "open" PROVE Left(down'[g], myId[o])
    <3>1. g \notin hungUp
      <4>1. g \in hungUp => down[g] = << >> /\ entry[g][s] = NoEntry
        BY WiresOfStream
      <4> QED BY <2>2, <4>1, NothingBusy, NoEntryFields DEF IsOpen
    <3>2. room[o] = g /\ room[g] = g /\ g # NONE
      BY EndsOfStream
    <3>3. socket[g] = "open" /\ Present(g)
      BY <1>1, <2>2 DEF Present
    <3>4. g \notin closed
      BY <1>1, <3>2, <3>3 DEF NetInv, ClosedRoomsClose
    <3>5. Told(o, g)
      BY <1>1, <2>2, <3>1, <3>2, <3>3, <3>4 DEF Leaves
    <3> QED BY <1>1, <3>5
  <2>3. Closing(up'[g], s) => entry'[g][s] = NoEntry /\ ~Opening(down'[g], s)
    BY <1>1, <1>2 DEF Ends
  <2> QED BY <1>1, <2>1, <2>2, <2>3 DEF Ends
<1>6. \A x \in {o, g} : (Awaits(o, s, x)' => Awaits(o, s, x)) /\ ~Flowing(o, g, s, x)'
  BY <1>1, <1>2 DEF Awaits, Flowing
<1>7. Flows(o, g, s, o, g)'
  BY <1>1, <1>6, FlowKeeps
<1>8. Flows(o, g, s, g, o)'
  BY <1>1, <1>2, <1>6, FlowEnds
<1> QED BY <1>3, <1>4, <1>5, <1>7, <1>8 DEF StreamInv

\* The creator leaves, and with him everybody.
LEMMA CreatorLeaves ==
  ASSUME NetInv, NEW o \in Connection, NEW g, NEW s \in StreamId, Stream(o, g, s), StreamInv(o, g, s), Leaves(g)
  PROVE  StreamInv(o, g, s)'
<1>0. Both(o, g, g, o)
  BY DEF Both
<1>1. /\ g \in Connection /\ o # g /\ up'[g] = << >> /\ up'[o] = up[o] /\ socket'[g] = "closed"
      /\ UNCHANGED <<throttled, myId, hungUp, entry, page, nextSeq>>
      /\ streams'[g][s] = NoPair
      /\ down'[g] = down[g] /\ Same(down[o], down'[o], s)
      /\ ~Opening(up'[g], s) /\ ~Closing(up'[g], s) /\ ~Busy(up'[g], s)
      /\ Ends(o, g, s, o, g) /\ Ends(o, g, s, g, o) /\ Flows(o, g, s, o, g) /\ Flows(o, g, s, g, o)
  BY <1>0, LeavesEnds
<1>2. /\ Opening(down'[o], s) <=> Opening(down[o], s)
      /\ Closing(down'[o], s) <=> Closing(down[o], s)
      /\ Busy(down'[o], s) <=> Busy(down[o], s)
      /\ \A l, h : Carries(down[o], s, o, l, h) => Carries(down'[o], s, o, l, h)
      /\ DataFrom(down[o], s, g) => DataFrom(down'[o], s, g)
  BY <1>1, SameWire
<1>3. Quiet(o, g, s) => Quiet(o, g, s)'
  BY <1>1, <1>2 DEF Quiet
<1>4. Begins(o, g, s)'
  <2>1. page'[o] # "over" /\ NotYet(o, s)' => Quiet(o, g, s)
    BY <1>1 DEF StreamInv, Begins, NotYet
  <2>2. Opening(up'[o], s) => Quiet(o, g, s) /\ OpenFirst(up'[o], s) /\ entry'[o][s].chunks = << >>
    BY <1>1 DEF StreamInv, Begins
  <2>3. Opening(down'[g], s) =>
          /\ OpenFirst(down'[g], s) /\ entry'[g][s] = NoEntry /\ entry'[o][s].chunks = << >>
          /\ ~Busy(up'[g], s) /\ ~Busy(down'[o], s)
    BY <1>1, <1>2 DEF StreamInv, Begins
  <2>4. LeftIsLast(down'[g], myId'[o], s)
    BY <1>1 DEF StreamInv, Begins
  <2>5. ~Present(g)'
    BY <1>1 DEF Present
  <2> QED BY <1>3, <2>1, <2>2, <2>3, <2>4, <2>5 DEF Begins
<1>5. Ends(o, g, s, g, o)'
  BY <1>1 DEF Ends
<1>6. Ends(o, g, s, o, g)'
  <2>1. socket'[o] # "open"
    BY <1>1, EndsOfStream DEF Leaves
  <2> QED BY <1>1, <1>2, <2>1 DEF Ends
<1>7. \A x \in {o, g} : (Awaits(o, s, x)' => Awaits(o, s, x)) /\ (Flowing(o, g, s, x)' => Opening(up[o], s))
  BY <1>1, <1>2 DEF Awaits, Flowing
<1>8. Opening(up[o], s) => Flowing(o, g, s, o) /\ Flowing(o, g, s, g) /\ ~Busy(up[g], s)
  BY DEF Flowing, StreamInv, Begins, Quiet
<1>9. Flows(o, g, s, o, g)'
  BY <1>1, <1>2, <1>7, <1>8, FlowEnds
<1>10. Flows(o, g, s, g, o)'
  BY <1>1, <1>7, <1>8, FlowKeeps
<1> QED BY <1>4, <1>5, <1>6, <1>9, <1>10 DEF StreamInv

\* Anybody leaves.
LEMMA LeavingKeeps ==
  ASSUME NetInv, NEW o \in Connection, NEW g, NEW s \in StreamId, Stream(o, g, s), StreamInv(o, g, s),
         NEW c \in Connection, Leaves(c)
  PROVE  StreamInv(o, g, s)'
<1>1. CASE c \notin {o, g}
  BY <1>1, LeavesElsewhere
<1>2. CASE c = o
  <2>1. Leaves(o)
    BY <1>2
  <2> QED BY <2>1, OpenerLeaves
<1>3. CASE c = g
  <2>1. Leaves(g)
    BY <1>3
  <2> QED BY <2>1, CreatorLeaves
<1> QED BY <1>1, <1>2, <1>3

-----------------------------------------------------------------------------
(* Connections come, are told to close, and pages go.                        *)

\* Who connects is no end of a stream yet.
LEMMA ConnectStream ==
  ASSUME NetInv, NEW o \in Connection, NEW g, NEW s \in StreamId, Stream(o, g, s), StreamInv(o, g, s),
         NEW c \in Connection, Connect(c)
  PROVE  StreamInv(o, g, s)'
<1>1. /\ socket[c] = "none" /\ socket' = [socket EXCEPT ![c] = "open"] /\ page' = [page EXCEPT ![c] = "connecting"]
      /\ UNCHANGED <<room, myId, streams, down, hungUp, entry, nextSeq, throttled>>
      /\ \E f : up' = [up EXCEPT ![c] = <<f>>]
  BY DEF Connect, Upgrade, roomVars
<1>2. g \in Connection /\ room[o] = g /\ room[g] = g /\ g # NONE
  BY EndsOfStream
<1>3. c \notin {o, g}
  BY <1>1, <1>2 DEF NetInv, RelayInv, HandlersAgree
<1>4. \A x \in {o, g} : up'[x] = up[x] /\ socket'[x] = socket[x] /\ page'[x] = page[x]
  BY <1>1, <1>2, <1>3 DEF NetInv, PageTypes, RelayInv, RelayTypeOK
<1>5. Unheard(o, g, s)
  BY <1>1, <1>4, SameItself DEF Unheard, NotYet
<1> QED BY <1>5, UnheardKeeps

\* Neither timers nor nothing at all.
LEMMA QuietStream ==
  ASSUME NetInv, NEW o \in Connection, NEW g, NEW s \in StreamId, Stream(o, g, s), StreamInv(o, g, s),
         RelayTimers \/ UNCHANGED netVars
  PROVE  StreamInv(o, g, s)'
<1>1. /\ \A x \in Connection : socket'[x] = socket[x] \/ (socket[x] = "open" /\ socket'[x] = "closing")
      /\ UNCHANGED <<room, myId, streams, down, hungUp, page, entry, nextSeq, up, throttled>>
  <2>1. CASE RelayTimers
    <3>1. RelayTypeOK
      BY DEF NetInv, RelayInv
    <3> QED BY <2>1, <3>1, TimersClose DEF SocketsClose, roomVars, pageVars
  <2>2. CASE UNCHANGED netVars
    BY <2>2 DEF netVars, relayVars, roomVars, pageVars
  <2> QED BY <2>1, <2>2
<1>2. o \in Connection /\ g \in Connection
  BY EndsOfStream
<1>3. Unheard(o, g, s)
  BY <1>1, <1>2, SameItself DEF Unheard, NotYet
<1> QED BY <1>3, UnheardKeeps

\* A page that is over has nothing any more, and nothing reaches it.
LEMMA PageCloseds ==
  ASSUME NetInv, NEW c \in Connection, PageCloses(c)
  PROVE  /\ page'[c] = "over" /\ down'[c] = << >> /\ c \in hungUp' /\ c \notin hungUp
         /\ \A s \in StreamId : entry'[c][s] = NoEntry
         /\ \A x \in Connection \ {c} :
              /\ page'[x] = page[x] /\ down'[x] = down[x] /\ entry'[x] = entry[x] /\ nextSeq'[x] = nextSeq[x]
              /\ x \in hungUp' <=> x \in hungUp
         /\ UNCHANGED <<socket, room, myId, streams, up, throttled>>
<1>1. /\ page[c] \in {"connecting", "ready"} /\ c \notin hungUp
      /\ page' = [page EXCEPT ![c] = "over"] /\ entry' = [entry EXCEPT ![c] = [s \in StreamId |-> NoEntry]]
      /\ nextSeq' = [nextSeq EXCEPT ![c] = 1]
      /\ hungUp' = hungUp \cup {c} /\ down' = [down EXCEPT ![c] = << >>]
      /\ UNCHANGED <<socket, room, myId, streams, up, throttled>>
  BY DEF PageCloses, On, Over, HangUp, roomVars
<1>2. PageTypes /\ RelayTypeOK
  BY DEF NetInv, RelayInv
<1> QED BY <1>1, <1>2 DEF PageTypes, RelayTypeOK

\* Two wires that have nothing of the stream are the same to it.
LEMMA IdleSame ==
  ASSUME NEW wire, NEW w, NEW s, ~Busy(wire, s), ~Busy(w, s)
  PROVE  Same(wire, w, s)
<1>1. \A k \in DOMAIN w : ~(w[k].kind \in OfStream /\ w[k].stream = s)
  BY DEF Busy, Underway
<1>2. \A k \in DOMAIN wire : ~(wire[k].kind \in OfStream /\ wire[k].stream = s)
  BY DEF Busy, Underway
<1>3. \A k \in DOMAIN w : ~IsData(w[k], s)
  BY <1>1 DEF IsData, OfStream
<1>4. \A k \in DOMAIN wire : ~IsData(wire[k], s)
  BY <1>2 DEF IsData, OfStream
<1>5. \A o, l, h : Carries(wire, s, o, l, h) => Carries(w, s, o, l, h)
  BY <1>3, <1>4 DEF Carries
<1>6. OpenFirst(w, s)
  BY <1>1 DEF OpenFirst
<1>7. \A d : DataFrom(w, s, d)
  BY <1>3 DEF DataFrom
<1>8. \A kinds \in SUBSET OfStream : Underway(w, kinds, s) <=> Underway(wire, kinds, s)
  BY <1>1, <1>2 DEF Underway
<1> QED BY <1>5, <1>6, <1>7, <1>8 DEF Same

\* The opener's page is over.
LEMMA OpenerCloses ==
  ASSUME NetInv, NEW o \in Connection, NEW g, NEW s \in StreamId, Stream(o, g, s), StreamInv(o, g, s), PageCloses(o)
  PROVE  StreamInv(o, g, s)'
<1>1. /\ page'[o] = "over" /\ down'[o] = << >> /\ o \in hungUp' /\ entry'[o][s] = NoEntry
      /\ UNCHANGED <<socket, myId, streams, up, throttled>>
  BY PageCloseds
<1>2. g \in Connection /\ o # g
  BY EndsOfStream
<1>3. /\ down'[g] = down[g] /\ entry'[g] = entry[g] /\ (g \in hungUp' <=> g \in hungUp)
  BY <1>2, PageCloseds
<1>4. ~Opening(down'[o], s) /\ ~Closing(down'[o], s) /\ ~Busy(down'[o], s)
  BY <1>1, NothingBusy
<1>5. entry'[o][s].open = FALSE /\ entry'[o][s].chunks = << >>
  BY <1>1, NoEntryFields
<1>6. Begins(o, g, s) /\ Ends(o, g, s, o, g) /\ Ends(o, g, s, g, o) /\ Flows(o, g, s, o, g) /\ Flows(o, g, s, g, o)
  BY DEF StreamInv
<1>7. Quiet(o, g, s) => Quiet(o, g, s)'
  BY <1>1, <1>3, <1>4 DEF Quiet
<1>8. Begins(o, g, s)'
  BY <1>1, <1>3, <1>4, <1>5, <1>6, <1>7 DEF Begins
<1>9. Ends(o, g, s, o, g)'
  <2>1. ~IsOpen(o, s)'
    BY <1>4, <1>5 DEF IsOpen
  <2> QED BY <1>1, <1>4, <2>1 DEF Ends
<1>10. Ends(o, g, s, g, o)'
  <2>1. IsOpen(g, s)' <=> IsOpen(g, s)
    BY <1>3 DEF IsOpen
  <2> QED BY <1>1, <1>3, <1>6, <2>1 DEF Ends
<1>11. Flows(o, g, s, o, g)'
  BY <1>1 DEF Flows, Awaits
<1>12. Flows(o, g, s, g, o)'
  <2>1. Awaits(o, s, g)' => Awaits(o, s, g)
    BY <1>1, <1>3 DEF Awaits
  <2>2. Flowing(o, g, s, g)' => Flowing(o, g, s, g)
    BY <1>1 DEF Flowing
  <2> QED BY <1>1, <1>3, <1>6, <2>1, <2>2, FlowKeeps
<1> QED BY <1>8, <1>9, <1>10, <1>11, <1>12 DEF StreamInv

\* The creator's page is over.
LEMMA CreatorCloses ==
  ASSUME NetInv, NEW o \in Connection, NEW g, NEW s \in StreamId, Stream(o, g, s), StreamInv(o, g, s), PageCloses(g)
  PROVE  StreamInv(o, g, s)'
<1>0. g \in Connection /\ o # g
  BY EndsOfStream
<1>1. /\ down'[g] = << >> /\ g \in hungUp' /\ entry'[g][s] = NoEntry
      /\ UNCHANGED <<socket, myId, streams, up, throttled>>
  BY <1>0, PageCloseds
<1>3. /\ down'[o] = down[o] /\ entry'[o] = entry[o] /\ page'[o] = page[o] /\ nextSeq'[o] = nextSeq[o]
      /\ o \in hungUp' <=> o \in hungUp
  BY <1>0, PageCloseds
<1>4. ~Opening(down'[g], s) /\ ~Closing(down'[g], s) /\ ~Busy(down'[g], s) /\ LeftIsLast(down'[g], myId[o], s)
  BY <1>1, NothingBusy
<1>5. entry'[g][s].open = FALSE /\ entry'[g][s].chunks = << >> /\ Len(entry'[g][s].chunks) = 0
  BY <1>1, NoEntryFields
<1>6. Begins(o, g, s) /\ Ends(o, g, s, o, g) /\ Ends(o, g, s, g, o) /\ Flows(o, g, s, o, g) /\ Flows(o, g, s, g, o)
  BY DEF StreamInv
<1>7. Quiet(o, g, s) => Quiet(o, g, s)'
  BY <1>1, <1>3, <1>4 DEF Quiet
<1>8. Begins(o, g, s)'
  <2>1. Present(g)' => Present(g)
    BY <1>1 DEF Present
  <2>2. NotYet(o, s)' => NotYet(o, s)
    BY <1>1, <1>3 DEF NotYet
  <2> QED BY <1>1, <1>3, <1>4, <1>6, <1>7, <2>1, <2>2 DEF Begins
<1>9. Ends(o, g, s, g, o)'
  <2>1. ~IsOpen(g, s)'
    BY <1>4, <1>5 DEF IsOpen
  <2> QED BY <1>1, <1>4, <2>1 DEF Ends
<1>10. Ends(o, g, s, o, g)'
  <2>1. IsOpen(o, s)' <=> IsOpen(o, s)
    BY <1>3 DEF IsOpen
  <2> QED BY <1>1, <1>3, <1>6, <2>1 DEF Ends
<1>11. Flows(o, g, s, o, g)'
  <2>1. Awaits(o, s, o)' => Awaits(o, s, o)
    BY <1>3 DEF Awaits
  <2>2. Flowing(o, g, s, o)' => Flowing(o, g, s, o)
    BY <1>1 DEF Flowing
  <2> QED BY <1>1, <1>3, <1>6, <2>1, <2>2, FlowKeeps
<1>12. Flows(o, g, s, g, o)'
  <2> SUFFICES ASSUME o \notin throttled, Awaits(o, s, g)' PROVE Flows(o, g, s, g, o)'
    BY <1>1 DEF Flows
  <2>1. Opening(up[o], s)
    BY <1>1, <1>4 DEF Awaits
  <2>2. Quiet(o, g, s)
    BY <1>6, <2>1 DEF Begins
  <2>3. Awaits(o, s, g)
    BY <1>0, <2>1 DEF Awaits
  <2>4. entry[g][s].chunks = << >> /\ entry[g][s] = NoEntry
    BY <2>2, NoEntryFields DEF Quiet
  <2>5. Awaits(o, s, g)' => Awaits(o, s, g)
    BY <2>3
  <2>6. \A l, h : Carries(down[g], s, o, l, h) => Carries(down'[g], s, o, l, h)
    <3>1. Same(down[g], down'[g], s)
      <4>1. ~Busy(down[g], s)
        BY <2>2 DEF Quiet
      <4> QED BY <1>4, <4>1, IdleSame
    <3> QED BY <3>1, SameWire
  <2>7. DataFrom(down'[g], s, o)
    BY <1>1, NothingBusy
  <2>8. Flowing(o, g, s, g)' => Flowing(o, g, s, g)
    BY <1>1 DEF Flowing
  <2> QED BY <1>1, <1>3, <1>5, <1>6, <2>4, <2>5, <2>6, <2>7, <2>8, FlowKeeps
<1> QED BY <1>8, <1>9, <1>10, <1>11, <1>12 DEF StreamInv

\* Any page is over.
LEMMA PageClosesStays ==
  ASSUME NetInv, NEW o \in Connection, NEW g, NEW s \in StreamId, Stream(o, g, s), StreamInv(o, g, s),
         NEW c \in Connection, PageCloses(c)
  PROVE  StreamInv(o, g, s)'
<1>0. g \in Connection
  BY EndsOfStream
<1>1. CASE c = o
  <2>1. PageCloses(o)
    BY <1>1
  <2> QED BY <2>1, OpenerCloses
<1>2. CASE c = g
  <2>1. PageCloses(g)
    BY <1>2
  <2> QED BY <2>1, CreatorCloses
<1>3. CASE c \notin {o, g}
  <2>1. UNCHANGED <<socket, myId, streams, up, throttled>>
    BY PageCloseds
  <2>2. \A x \in {o, g} : /\ page'[x] = page[x] /\ down'[x] = down[x] /\ entry'[x] = entry[x] /\ nextSeq'[x] = nextSeq[x]
                          /\ x \in hungUp' <=> x \in hungUp
    BY <1>0, <1>3, PageCloseds
  <2>3. Unheard(o, g, s)
    BY <2>1, <2>2, SameItself DEF Unheard, NotYet
  <2> QED BY <2>3, UnheardKeeps
<1> QED BY <1>1, <1>2, <1>3

-----------------------------------------------------------------------------
(* A page handles a frame.                                                   *)

Chunked(f) == [body |-> f.body, from |-> f.from]

\* Nothing of it becomes of no entry; what is closed keeps its chunks.
Shut(e, n) ==
  /\ ~n.open /\ n.chunks = e.chunks /\ n.sent = e.sent
  /\ e = NoEntry => n = NoEntry

\* What a frame does to the entry of one stream.
LEMMA EntryHandled ==
  ASSUME NetInv, NEW c \in Connection, PageReceives(c), NEW s \in StreamId
  PROVE  LET f == Head(down[c])
             e == entry[c][s]
             n == entry'[c][s]
         IN  /\ Foreign(f, s) /\ ~Tells(f, e.peer) => n = e
             /\ f.kind = "PEER_LEFT" => n = e \/ Shut(e, n)
             /\ Tells(f, e.peer) => Shut(e, n)
             /\ f.kind = "OPEN" /\ f.stream = s => n = NewEntry(f.member, f.from)
             /\ f.kind = "DATA" /\ f.stream = s =>
                  IF e = NoEntry THEN n = NoEntry
                  ELSE n.chunks = Append(e.chunks, Chunked(f)) /\ n.open = e.open /\ n.sent = e.sent
             /\ f.kind = "CLOSE" /\ f.stream = s => Shut(e, n)
<1> DEFINE f == Head(down[c])
           e == entry[c][s]
           n == entry'[c][s]
<1>1. f \in DownFrame /\ f.kind # "ERROR"
  BY FirstHandled
<1>2. Handles(c, f)
  BY DEF PageReceives
<1>3. entry \in [Connection -> [StreamId -> Entry]] /\ e \in Entry
  <2>1. entry \in [Connection -> [StreamId -> Entry]]
    BY DEF NetInv, PageTypes
  <2> QED BY <2>1
<1>4. e.open \in BOOLEAN /\ Shut(e, [e EXCEPT !.open = FALSE])
  <2> HIDE DEF e
  <2>1. e.open \in BOOLEAN
    BY <1>3 DEF Entry
  <2> QED BY <1>3, <2>1, EntryCloses DEF Shut
<1> HIDE DEF f
<1>5. CASE f.kind \in {"WELCOME", "DGRAM"}
  <2>1. entry' = entry
    BY <1>2, <1>5 DEF Handles
  <2> QED BY <1>5, <2>1 DEF Tells, f
<1>6. CASE f.kind = "OPEN"
  <2>1. entry' = [entry EXCEPT ![c][f.stream] = NewEntry(f.member, f.from)]
    BY <1>2, <1>6 DEF Handles
  <2>2. n = IF f.stream = s THEN NewEntry(f.member, f.from) ELSE e
    BY <1>3, <2>1
  <2>3. ~Foreign(f, s) <=> f.stream = s
    BY <1>6 DEF Foreign, OfStream
  <2> HIDE DEF e, n
  <2>4. /\ Foreign(f, s) => n = e
        /\ f.stream = s => n = NewEntry(f.member, f.from)
    BY <2>2, <2>3
  <2> QED BY <1>6, <2>4 DEF Tells, f, e, n
<1>7. CASE f.kind = "DATA"
  <2>1. entry' = IF entry[c][f.stream] = NoEntry THEN entry
                 ELSE [entry EXCEPT ![c][f.stream].chunks = Append(@, Chunked(f))]
    BY <1>2, <1>7 DEF Handles, Chunked
  <2>2. f.stream # s => n = e
    BY <1>3, <2>1
  <2>3. f.stream = s /\ e = NoEntry => n = NoEntry
    BY <2>1
  <2>4. f.stream = s /\ e # NoEntry => n = [e EXCEPT !.chunks = Append(@, Chunked(f))]
    BY <1>3, <2>1
  <2>5. Chunked(f) \in [body : Body \cup {NONE}, from : Connection \cup {NONE}]
    BY <1>1 DEF DownFrame, Chunked
  <2>6. ~Foreign(f, s) <=> f.stream = s
    BY <1>7 DEF Foreign, OfStream
  <2> HIDE DEF e, n
  <2>7. f.stream = s /\ e # NoEntry =>
          n.chunks = Append(e.chunks, Chunked(f)) /\ n.open = e.open /\ n.sent = e.sent
    <3> DEFINE chunk == Chunked(f)
    <3> HIDE DEF chunk
    <3>2. chunk \in [body : Body \cup {NONE}, from : Connection \cup {NONE}]
      BY <2>5 DEF chunk
    <3> DEFINE m == [e EXCEPT !.chunks = Append(@, chunk)]
    <3>3. m.chunks = Append(e.chunks, chunk) /\ m.open = e.open /\ m.sent = e.sent
      BY <1>3, <3>2, EntryGets
    <3>4. f.stream = s /\ e # NoEntry => n = m
      BY <2>4 DEF chunk
    <3> HIDE DEF m
    <3> QED BY <3>3, <3>4 DEF chunk
  <2>8. Foreign(f, s) => n = e
    BY <2>2, <2>6
  <2> QED BY <1>7, <2>3, <2>7, <2>8 DEF Tells, f, e, n
<1>8. CASE f.kind = "CLOSE"
  <2>1. entry' = [entry EXCEPT ![c][f.stream].open = FALSE]
    BY <1>2, <1>8 DEF Handles
  <2>2. f.stream # s => n = e
    BY <1>3, <2>1
  <2>3. f.stream = s => n = [e EXCEPT !.open = FALSE]
    BY <1>3, <2>1
  <2>4. ~Foreign(f, s) <=> f.stream = s
    BY <1>8 DEF Foreign, OfStream
  <2> HIDE DEF e, n
  <2>5. f.stream = s => Shut(e, n)
    BY <1>4, <2>3
  <2>6. Foreign(f, s) => n = e
    BY <2>2, <2>4
  <2> QED BY <1>8, <2>5, <2>6 DEF Tells, f, e, n
<1>9. CASE f.kind = "PEER_LEFT"
  <2>1. entry' = [entry EXCEPT ![c] = EntriesClosed(c, {i \in StreamId : entry[c][i].peer = f.member})]
    BY <1>2, <1>9 DEF Handles
  <2>2. n = IF e.peer = f.member THEN [e EXCEPT !.open = FALSE] ELSE e
    BY <1>3, <2>1 DEF EntriesClosed
  <2> HIDE DEF e, n
  <2>3. e.peer = f.member => Shut(e, n)
    BY <1>4, <2>2
  <2>4. e.peer # f.member => n = e
    BY <2>2
  <2> QED BY <1>9, <2>3, <2>4 DEF Tells, f, e, n
<1> QED BY <1>1, <1>5, <1>6, <1>7, <1>8, <1>9 DEF DownFrame, f

\* A page takes a frame: what it does whatever the frame is.
LEMMA FrameHandled ==
  ASSUME NetInv, NEW c \in Connection, PageReceives(c)
  PROVE  /\ down[c] \in Seq(DownFrame) /\ down[c] # << >> /\ down'[c] = Tail(down[c]) /\ room[c] # NONE
         /\ DownSound(c, Head(down[c]))
         /\ page[c] # "over" /\ page'[c] # "over"
         /\ \A x \in Connection \ {c} : page'[x] = page[x] /\ down'[x] = down[x] /\ entry'[x] = entry[x]
         /\ UNCHANGED <<socket, room, myId, streams, hungUp, nextSeq, up, throttled>>
<1>1. /\ page[c] \in {"connecting", "ready"} /\ down' = [down EXCEPT ![c] = Tail(@)]
      /\ UNCHANGED <<socket, room, myId, streams, hungUp, nextSeq, up, throttled>>
  BY DEF PageReceives, On, TakeFrame, Handles, roomVars
<1>2. down \in [Connection -> Seq(DownFrame)] /\ page \in [Connection -> {"none", "connecting", "ready", "over"}]
  BY DEF NetInv, RelayInv, RelayTypeOK, PageTypes
<1>3. /\ down[c] \in Seq(DownFrame) /\ down[c] # << >> /\ room[c] # NONE /\ DownSound(c, Head(down[c]))
  BY FirstHandled
<1>4. page' = [page EXCEPT ![c] = "ready"] /\ \A x \in Connection \ {c} : entry'[x] = entry[x]
  BY Handled
<1> QED BY <1>1, <1>2, <1>3, <1>4

\* A page takes a frame that is not of the stream.
LEMMA ReceivesElsewhere ==
  ASSUME NetInv, NEW o \in Connection, NEW g, NEW s \in StreamId, Stream(o, g, s), StreamInv(o, g, s),
         NEW c \in Connection, PageReceives(c),
         c \in {o, g} => /\ Foreign(Head(down[c]), s)
                         /\ c = o => ~Tells(Head(down[c]), 1)
                         /\ c = g => ~Tells(Head(down[c]), myId[o])
  PROVE  StreamInv(o, g, s)'
<1> DEFINE f == Head(down[c])
<1>1. /\ down[c] \in Seq(DownFrame) /\ down[c] # << >> /\ down'[c] = Tail(down[c])
      /\ page[c] # "over" /\ page'[c] # "over"
      /\ \A x \in Connection \ {c} : page'[x] = page[x] /\ down'[x] = down[x] /\ entry'[x] = entry[x]
      /\ UNCHANGED <<socket, myId, streams, hungUp, nextSeq, up, throttled>>
  BY FrameHandled
<1>2. g \in Connection /\ o # g /\ myId[g] = 1
  BY EndsOfStream
<1>3. \A x \in {o, g} : entry'[x][s] = entry[x][s]
  <2> SUFFICES ASSUME c \in {o, g} PROVE entry'[c][s] = entry[c][s]
    BY <1>1, <1>2
  <2>1. Foreign(f, s)
    OBVIOUS
  <2>2. CASE entry[c][s] = NoEntry
    <3>1. /\ Foreign(f, s) /\ ~Tells(f, entry[c][s].peer) => entry'[c][s] = entry[c][s]
          /\ Tells(f, entry[c][s].peer) => Shut(entry[c][s], entry'[c][s])
      BY EntryHandled
    <3> QED BY <2>1, <2>2, <3>1 DEF Shut
  <2>3. CASE entry[c][s] # NoEntry
    <3>1. entry[c][s].peer = IF c = o THEN 1 ELSE myId[o]
      BY <2>3, EntriesOfStream
    <3>2. ~Tells(f, entry[c][s].peer)
      BY <1>2, <3>1
    <3>3. Foreign(f, s) /\ ~Tells(f, entry[c][s].peer) => entry'[c][s] = entry[c][s]
      BY EntryHandled
    <3> QED BY <2>1, <3>2, <3>3
  <2> QED BY <2>2, <2>3
<1>4. \A x \in {o, g} : Elsewhere(up[x], up'[x], s) /\ Elsewhere(down[x], down'[x], s)
  BY <1>1, <1>2 DEF Elsewhere
<1>5. \A x \in Connection \ {c} : ~(down[x] # << >> /\ down'[x] = Tail(down[x]))
  <2> SUFFICES ASSUME NEW x \in Connection \ {c}, down[x] # << >> PROVE down'[x] # Tail(down[x])
    OBVIOUS
  <2> DEFINE wire == down[x]
  <2>1. wire \in Seq(DownFrame) /\ wire # << >> /\ down'[x] = wire
    BY <1>1, WiresTyped
  <2> HIDE DEF wire
  <2>2. down'[x] # Tail(wire)
    BY <2>1
  <2> QED BY <2>2 DEF wire
<1>6. down[g] # << >> /\ down'[g] = Tail(down[g]) => ~Tells(Head(down[g]), myId[o])
  BY <1>2, <1>5
<1>7. down[o] # << >> /\ down'[o] = Tail(down[o]) => ~Tells(Head(down[o]), myId[g])
  BY <1>2, <1>5
<1>8. page'[o] # "over" /\ NotYet(o, s)' => page[o] # "over" /\ NotYet(o, s)
  BY <1>1 DEF NotYet
<1> QED BY <1>1, <1>3, <1>4, <1>6, <1>7, <1>8, ElsewhereKeeps

\* The news that the other end has left.
LEMMA HearsOfLeaving ==
  ASSUME NetInv, NEW o \in Connection, NEW g, NEW s \in StreamId, Stream(o, g, s), StreamInv(o, g, s),
         NEW c, NEW d, Both(o, g, c, d), PageReceives(c), Tells(Head(down[c]), myId[d])
  PROVE  StreamInv(o, g, s)'
<1> DEFINE f == Head(down[c])
           e == entry[c][s]
           n == entry'[c][s]
<1>1. /\ o \in Connection /\ g \in Connection /\ c \in Connection /\ d \in Connection /\ c # d /\ o # g
      /\ myId[g] = 1
  BY EndsOfStream DEF Both
<1>2. /\ down[c] \in Seq(DownFrame) /\ down[c] # << >> /\ down'[c] = Tail(down[c])
      /\ page[c] # "over" /\ page'[c] # "over"
      /\ page'[d] = page[d] /\ down'[d] = down[d] /\ entry'[d] = entry[d]
      /\ UNCHANGED <<socket, myId, streams, hungUp, nextSeq, up, throttled>>
  BY <1>1, FrameHandled
<1>3. f.kind = "PEER_LEFT" /\ f.member = myId[d] /\ Foreign(f, s)
  BY DEF Tells, Foreign, OfStream
<1>4. Left(down[c], myId[d])
  <2>1. 1 \in DOMAIN down[c] /\ down[c][1] = f
    BY <1>2
  <2> QED BY <1>3, <2>1 DEF Left
<1>5. socket[d] = "closed" /\ streams[g][s] = NoPair
  <2>1. /\ Left(down[g], myId[o]) => socket[o] = "closed"
        /\ Left(down[o], 1) => socket[g] = "closed"
    BY WiresOfStream
  <2>2. socket[d] = "closed"
    BY <1>1, <1>4, <2>1 DEF Both
  <2>3. streams[g][s] # NoPair => Present(o) /\ Present(g)
    BY PairOfEnds
  <2> QED BY <2>2, <2>3 DEF Present, Both
<1>6. n.chunks = e.chunks /\ n.sent = e.sent /\ (e = NoEntry => n = NoEntry) /\ ~n.open
  <2>1. /\ f.kind = "PEER_LEFT" => n = e \/ Shut(e, n)
        /\ Tells(f, e.peer) => Shut(e, n)
    BY <1>1, EntryHandled
  <2>2. e # NoEntry => e.peer = myId[d]
    <3>1. c \in {o, g}
      BY DEF Both
    <3>2. e # NoEntry => e.peer = IF c = o THEN 1 ELSE myId[o]
      BY <3>1, EntriesOfStream
    <3> QED BY <1>1, <3>2 DEF Both
  <2> HIDE DEF f, e, n
  <2>3. e # NoEntry => Shut(e, n)
    BY <1>3, <2>1, <2>2 DEF Tells
  <2>4. e = NoEntry => n = NoEntry
    BY <1>3, <2>1 DEF Shut
  <2>5. NoEntry.open = FALSE
    BY NoEntryFields
  <2> QED BY <2>3, <2>4, <2>5 DEF Shut
<1> HIDE DEF e, n
<1>7. /\ Opening(down'[c], s) <=> Opening(down[c], s)
      /\ Closing(down'[c], s) <=> Closing(down[c], s)
      /\ Busy(down'[c], s) <=> Busy(down[c], s)
      /\ OpenFirst(down[c], s) => OpenFirst(down'[c], s)
      /\ \A l, h : Carries(down[c], s, o, l, h) => Carries(down'[c], s, o, l, h)
      /\ DataFrom(down[c], s, d) => DataFrom(down'[c], s, d)
  <2>1. Same(down[c], Tail(down[c]), s)
    BY <1>2, <1>3, SameTaken DEF Foreign
  <2>2. Same(down[c], down'[c], s)
    BY <1>2, <2>1
  <2> QED BY <2>2, SameWire
<1>8. /\ c = g => LeftIsLast(down'[g], myId[o], s) /\ ~Opening(down[g], s)
      /\ ~Opening(down[o], s)
  <2>1. LeftIsLast(down[g], myId[o], s)
    BY DEF StreamInv, Begins
  <2>2. c = g => d = o
    BY <1>1 DEF Both
  <2>3. c = g => LeftIsLast(Tail(down[g]), myId[o], s) /\ ~Underway(down[g], {"OPEN"}, s)
    BY <1>2, <1>3, <2>1, <2>2, LeftTaken
  <2> QED BY <1>2, <2>3, WiresOfStream DEF Opening
<1>9. /\ Begins(o, g, s) /\ Ends(o, g, s, c, d) /\ Ends(o, g, s, d, c)
      /\ Flows(o, g, s, c, d) /\ Flows(o, g, s, d, c)
  BY StreamOfBoth
<1>10. Begins(o, g, s)'
  <2>1. /\ entry[o][s].chunks = << >> => entry'[o][s].chunks = << >>
        /\ entry[g][s] = NoEntry => entry'[g][s] = NoEntry
    BY <1>2, <1>6 DEF Both, e, n
  <2>2. /\ Busy(down'[o], s) <=> Busy(down[o], s)
        /\ Busy(down'[g], s) <=> Busy(down[g], s)
        /\ Opening(down'[g], s) <=> Opening(down[g], s)
        /\ OpenFirst(down[g], s) => OpenFirst(down'[g], s)
        /\ LeftIsLast(down[g], myId[o], s) => LeftIsLast(down'[g], myId[o], s)
    BY <1>2, <1>7, <1>8 DEF Both
  <2>3. Quiet(o, g, s) => Quiet(o, g, s)'
    BY <1>2, <2>1, <2>2 DEF Quiet
  <2>4. page'[o] # "over" /\ NotYet(o, s)' => page[o] # "over" /\ NotYet(o, s)
    BY <1>2 DEF NotYet, Both
  <2>5. Present(g)' => Present(g) /\ entry'[o] = entry[o]
    BY <1>1, <1>2, <1>5 DEF Present, Both
  <2> QED BY <1>2, <1>9, <2>1, <2>2, <2>3, <2>4, <2>5 DEF Begins
<1>11. Ends(o, g, s, c, d)'
  <2>1. ~Opening(down'[c], s) /\ ~IsOpen(c, s)'
    BY <1>6, <1>7, <1>8 DEF IsOpen, Both, n
  <2> QED BY <1>2, <1>5, <1>6, <1>9, <2>1 DEF Ends, e, n
<1>12. Ends(o, g, s, d, c)'
  BY <1>2, <1>9 DEF Ends, IsOpen
<1>13. Flowing(o, g, s, c)' <=> Flowing(o, g, s, c)
  BY <1>2 DEF Flowing
<1>14. Flowing(o, g, s, d)' <=> Flowing(o, g, s, d)
  BY <1>2 DEF Flowing
<1>15. Flows(o, g, s, c, d)'
  <2>1. Awaits(o, s, c)' => Awaits(o, s, c)
    BY <1>2, <1>6, <1>7 DEF Awaits, e, n
  <2>2. entry'[c][s].chunks = entry[c][s].chunks
    BY <1>6 DEF e, n
  <2> QED BY <1>2, <1>7, <1>9, <1>13, <2>1, <2>2, FlowKeeps
<1>16. Flows(o, g, s, d, c)'
  <2>1. Awaits(o, s, d)' => Awaits(o, s, d)
    BY <1>2 DEF Awaits
  <2>2. entry'[c][s] # NoEntry => entry[c][s] # NoEntry /\ entry'[c][s].sent = entry[c][s].sent
    BY <1>6 DEF e, n
  <2> QED BY <1>2, <1>9, <1>14, <2>1, <2>2, FlowKeeps
<1> QED BY <1>10, <1>11, <1>12, <1>15, <1>16, StreamOfBoth

\* A frame of the stream comes to its end c.
Comes(o, g, s, c, d) ==
  Both(o, g, c, d) /\ PageReceives(c) /\ Head(down[c]).kind \in OfStream /\ Head(down[c]).stream = s

\* What holds when an end takes a frame of the stream, whatever it makes of it.
LEMMA TakenDown ==
  ASSUME NetInv, NEW o \in Connection, NEW g, NEW s \in StreamId, Stream(o, g, s), StreamInv(o, g, s),
         NEW c, NEW d, Comes(o, g, s, c, d)
  PROVE  LET f == Head(down[c])
         IN  /\ c \in Connection /\ d \in Connection /\ g \in Connection /\ c # d /\ o # g /\ room[c] = g
             /\ down[c] \in Seq(DownFrame) /\ down[c] # << >> /\ down'[c] = Tail(down[c])
             /\ down'[d] = down[d] /\ entry'[d] = entry[d] /\ DownSound(c, f)
             /\ UNCHANGED <<socket, myId, streams, hungUp, up, throttled>>
             /\ ~Opening(up[o], s) /\ ~Opening(down'[o], s) /\ ~Opening(down'[g], s)
             /\ Opening(down[c], s) <=> f.kind = "OPEN"
             /\ Closing(down[c], s) <=> Closing(down'[c], s) \/ f.kind = "CLOSE"
             /\ Begins(o, g, s)'
             /\ \A i : Left(down[c], i) => Left(down'[c], i)
             /\ Ends(o, g, s, c, d) /\ Ends(o, g, s, d, c) /\ Ends(o, g, s, d, c)'
             /\ Flows(o, g, s, c, d) /\ Flows(o, g, s, d, c)
<1> DEFINE f == Head(down[c])
<1>1. /\ o \in Connection /\ g \in Connection /\ c \in Connection /\ d \in Connection /\ c # d /\ o # g
      /\ room[c] = g
  BY EndsOfStream DEF Comes, Both
<1>2. PageReceives(c) /\ f.kind \in OfStream /\ f.stream = s /\ Both(o, g, c, d)
  BY DEF Comes
<1>3. /\ down[c] \in Seq(DownFrame) /\ down[c] # << >> /\ down'[c] = Tail(down[c]) /\ DownSound(c, f)
      /\ page[c] # "over" /\ page'[c] # "over"
      /\ page'[d] = page[d] /\ down'[d] = down[d] /\ entry'[d] = entry[d]
      /\ UNCHANGED <<socket, room, myId, streams, hungUp, nextSeq, up, throttled>>
  BY <1>1, <1>2, FrameHandled
<1>4. /\ Begins(o, g, s) /\ Ends(o, g, s, c, d) /\ Ends(o, g, s, d, c)
      /\ Flows(o, g, s, c, d) /\ Flows(o, g, s, d, c)
  BY <1>2, StreamOfBoth
<1>5. /\ Opening(down[c], s) <=> Opening(down'[c], s) \/ f.kind = "OPEN"
      /\ Closing(down[c], s) <=> Closing(down'[c], s) \/ f.kind = "CLOSE"
      /\ Busy(down[c], s)
  BY <1>2, <1>3, FrameTaken
<1>6. ~Quiet(o, g, s)
  BY <1>2, <1>5 DEF Quiet, Both
<1>7. ~Opening(up[o], s) /\ ~(page[o] # "over" /\ NotYet(o, s))
  BY <1>4, <1>6 DEF Begins
<1>8. ~Opening(down[o], s)
  BY WiresOfStream
<1>9. ~Opening(down'[c], s)
  <2>1. CASE c = o
    BY <1>5, <1>8, <2>1
  <2>2. CASE c = g
    <3>1. Opening(down[c], s) => OpenFirst(down[c], s)
      BY <1>4, <2>2 DEF Begins
    <3>2. ~Opening(Tail(down[c]), s)
      BY <1>2, <1>3, <3>1, OpenedFirst
    <3> QED BY <1>3, <3>2
  <2> QED BY <1>2, <2>1, <2>2 DEF Both
<1>10. c = o => ~Opening(down[g], s)
  BY <1>4, <1>5 DEF Begins
<1>11. ~Opening(down'[o], s) /\ ~Opening(down'[g], s)
  BY <1>2, <1>3, <1>8, <1>9, <1>10 DEF Both
<1>12. f.kind # "PEER_LEFT"
  BY <1>2 DEF OfStream
<1>13. \A i : Left(down[c], i) => Left(down'[c], i)
  BY <1>3, <1>12, LeftTaken
<1>14. LeftIsLast(down'[g], myId'[o], s)
  <2>1. LeftIsLast(down[g], myId[o], s)
    BY <1>4 DEF Begins
  <2>2. c = g => LeftIsLast(Tail(down[g]), myId[o], s)
    BY <1>3, <2>1, LeftTaken
  <2> QED BY <1>2, <1>3, <2>1, <2>2 DEF Both
<1>15. ~(page'[o] # "over" /\ NotYet(o, s)')
  BY <1>2, <1>3, <1>7 DEF NotYet, Both
<1>16. Begins(o, g, s)'
  BY <1>3, <1>7, <1>11, <1>14, <1>15 DEF Begins
<1>17. Ends(o, g, s, d, c)'
  BY <1>3, <1>4 DEF Ends, IsOpen
<1> QED BY <1>1, <1>3, <1>4, <1>5, <1>7, <1>9, <1>11, <1>13, <1>16, <1>17

\* The creator's page is told of the stream.
LEMMA OpenComes ==
  ASSUME NetInv, NEW o \in Connection, NEW g, NEW s \in StreamId, Stream(o, g, s), StreamInv(o, g, s),
         NEW c, NEW d, Comes(o, g, s, c, d), Head(down[c]).kind = "OPEN"
  PROVE  StreamInv(o, g, s)'
<1> DEFINE f == Head(down[c])
<1>1. /\ c \in Connection /\ d \in Connection /\ g \in Connection /\ c # d /\ o # g /\ room[c] = g
      /\ down[c] \in Seq(DownFrame) /\ down[c] # << >> /\ down'[c] = Tail(down[c])
      /\ down'[d] = down[d] /\ entry'[d] = entry[d] /\ DownSound(c, f)
      /\ UNCHANGED <<socket, myId, streams, hungUp, up, throttled>>
      /\ ~Opening(up[o], s) /\ ~Opening(down'[o], s) /\ ~Opening(down'[g], s)
      /\ Opening(down[c], s)
      /\ Closing(down[c], s) <=> Closing(down'[c], s) \/ f.kind = "CLOSE"
      /\ Begins(o, g, s)'
      /\ \A i : Left(down[c], i) => Left(down'[c], i)
      /\ Ends(o, g, s, c, d) /\ Ends(o, g, s, d, c) /\ Ends(o, g, s, d, c)'
      /\ Flows(o, g, s, c, d) /\ Flows(o, g, s, d, c)
  BY TakenDown
<1>2. Both(o, g, c, d) /\ PageReceives(c) /\ f.stream = s /\ f.kind = "OPEN"
  BY DEF Comes
<1>3. c = g /\ d = o
  BY <1>1, <1>2, WiresOfStream DEF Both
<1>4. f.from = o /\ f.member = myId[o]
  <2>1. f.from \in Connection /\ Opens(f.from, s) /\ room[f.from] = g /\ f.member = myId[f.from]
    BY <1>1, <1>2, <1>3 DEF DownSound
  <2>2. f.from = o
    BY <2>1, PartOfStream
  <2> QED BY <2>1, <2>2
<1>5. entry'[g][s] = NewEntry(myId[o], o)
  <2>1. f.kind = "OPEN" /\ f.stream = s => entry'[c][s] = NewEntry(f.member, f.from)
    BY <1>1, <1>2, EntryHandled
  <2> QED BY <1>2, <1>3, <1>4, <2>1
<1>6. /\ entry'[g][s].open /\ entry'[g][s].chunks = << >> /\ entry'[g][s].sent = 0
      /\ entry[g][s].chunks = << >>
  <2>1. myId[o] \in Nat
    BY EndsOfStream, Constants
  <2>2. entry[g][s] = NoEntry
    BY <1>1, <1>3 DEF StreamInv, Begins
  <2>3. ASSUME NEW i \in Nat, NEW n, n = NewEntry(i, o) PROVE n.open /\ n.chunks = << >> /\ n.sent = 0
    BY <2>3, NewEntryFields
  <2>4. entry'[g][s].open /\ entry'[g][s].chunks = << >> /\ entry'[g][s].sent = 0
    BY <1>5, <2>1, <2>3
  <2>5. entry[g][s].chunks = << >>
    BY <2>2, NoEntryFields
  <2> QED BY <2>4, <2>5
<1>7. entry[o][s].chunks = << >> /\ ~Busy(up[g], s) /\ ~Busy(down[o], s)
  BY <1>1, <1>3 DEF StreamInv, Begins
<1>8. ~Closing(up[g], s) /\ ~Closing(down[o], s)
  BY <1>7, IdleWire
<1>9. Ends(o, g, s, g, o)'
  <2>1. IsOpen(g, s) /\ IsOpen(g, s)'
    BY <1>1, <1>3, <1>6 DEF IsOpen
  <2>2. Closing(down[g], s) <=> Closing(down'[g], s)
    BY <1>1, <1>2, <1>3
  <2>3. Left(down[g], myId[o]) => Left(down'[g], myId[o])
    BY <1>1, <1>3
  <2> QED BY <1>1, <1>3, <1>8, <2>1, <2>2, <2>3 DEF Ends
<1>10. Flows(o, g, s, o, g)'
  <2>1. 0 \in 0 .. MaxChunks /\ 0 \in Nat
    BY PageConstants
  <2>2. entry'[o][s].chunks = << >> /\ Len(entry'[o][s].chunks) = 0
    BY <1>1, <1>3, <1>7
  <2>3. Carries(down'[o], s, o, 0, 0) /\ Carries(up'[g], s, o, 0, 0) /\ DataFrom(down'[o], s, g)
    BY <1>1, <1>3, <1>7, <2>1, IdleWire
  <2>4. Got(o, s, o, g)'
    BY <2>2 DEF Got
  <2> QED BY <1>6, <2>1, <2>2, <2>3, <2>4 DEF Flows
<1>11. Flows(o, g, s, g, o)'
  <2>1. ~IsData(f, s)
    BY <1>2 DEF IsData
  <2>2. \A l, h : Carries(down[g], s, o, l, h) => Carries(down'[g], s, o, l, h)
    BY <1>1, <1>3, <2>1, CarriesTaken
  <2>3. DataFrom(down[g], s, o) => DataFrom(down'[g], s, o)
    BY <1>1, <1>3, DataFromTaken
  <2>4. Awaits(o, s, g)
    BY <1>1, <1>3 DEF Awaits
  <2>5. Flowing(o, g, s, g)' => Flowing(o, g, s, g)
    BY <1>1 DEF Flowing
  <2>6. /\ Flows(o, g, s, g, o) /\ throttled' = throttled /\ entry'[o] = entry[o] /\ up' = up
        /\ entry'[g][s].chunks = entry[g][s].chunks
    BY <1>1, <1>3, <1>6
  <2> QED BY <2>2, <2>3, <2>4, <2>5, <2>6, FlowKeeps
<1> QED BY <1>1, <1>3, <1>9, <1>10, <1>11 DEF StreamInv

\* An end is told that the stream has been closed.
LEMMA CloseComes ==
  ASSUME NetInv, NEW o \in Connection, NEW g, NEW s \in StreamId, Stream(o, g, s), StreamInv(o, g, s),
         NEW c, NEW d, Comes(o, g, s, c, d), Head(down[c]).kind = "CLOSE"
  PROVE  StreamInv(o, g, s)'
<1> DEFINE f == Head(down[c])
           e == entry[c][s]
           n == entry'[c][s]
<1>1. /\ c \in Connection /\ d \in Connection /\ g \in Connection /\ c # d /\ o # g
      /\ down[c] \in Seq(DownFrame) /\ down[c] # << >> /\ down'[c] = Tail(down[c])
      /\ down'[d] = down[d] /\ entry'[d] = entry[d]
      /\ UNCHANGED <<socket, myId, streams, hungUp, up, throttled>>
      /\ ~Opening(up[o], s) /\ ~Opening(down'[o], s) /\ ~Opening(down'[g], s)
      /\ Closing(down[c], s) <=> Closing(down'[c], s) \/ f.kind = "CLOSE"
      /\ Begins(o, g, s)'
      /\ Ends(o, g, s, c, d) /\ Ends(o, g, s, d, c) /\ Ends(o, g, s, d, c)'
      /\ Flows(o, g, s, c, d) /\ Flows(o, g, s, d, c)
  BY TakenDown
<1>2. Both(o, g, c, d) /\ PageReceives(c) /\ f.stream = s /\ f.kind = "CLOSE"
  BY DEF Comes
<1>3. streams[g][s] = NoPair
  BY <1>1, <1>2 DEF Ends
<1>4. Shut(e, n)
  <2>1. f.kind = "CLOSE" /\ f.stream = s => Shut(e, n)
    BY <1>1, <1>2, EntryHandled
  <2> QED BY <1>2, <2>1
<1>5. ~entry'[c][s].open /\ (entry[c][s] = NoEntry => entry'[c][s] = NoEntry)
      /\ entry'[c][s].chunks = entry[c][s].chunks /\ entry'[c][s].sent = entry[c][s].sent
  BY <1>4 DEF Shut
<1>6. Ends(o, g, s, c, d)'
  <2>1. ~Opening(down'[c], s)
    BY <1>1, <1>2 DEF Both
  <2>2. ~IsOpen(c, s)'
    BY <1>5, <2>1 DEF IsOpen
  <2> QED BY <1>1, <1>3, <1>5, <2>1, <2>2 DEF Ends
<1>7. Flows(o, g, s, c, d)'
  <2>1. ~IsData(f, s)
    BY <1>2 DEF IsData
  <2>2. \A l, h : Carries(down[c], s, o, l, h) => Carries(down'[c], s, o, l, h)
    BY <1>1, <2>1, CarriesTaken
  <2>3. DataFrom(down[c], s, d) => DataFrom(down'[c], s, d)
    BY <1>1, DataFromTaken
  <2>4. Awaits(o, s, c)' => Awaits(o, s, c)
    <3>1. ~Opening(down'[c], s)
      BY <1>1, <1>2 DEF Both
    <3> QED BY <1>1, <1>5, <3>1 DEF Awaits
  <2>5. Flowing(o, g, s, c)' => Flowing(o, g, s, c)
    BY <1>1 DEF Flowing
  <2>6. /\ Flows(o, g, s, c, d) /\ throttled' = throttled /\ entry'[d] = entry[d] /\ up' = up
        /\ entry'[c][s].chunks = entry[c][s].chunks
    BY <1>1, <1>5
  <2> QED BY <2>2, <2>3, <2>4, <2>5, <2>6, FlowKeeps
<1>8. Flows(o, g, s, d, c)'
  <2>1. Awaits(o, s, d)' => Awaits(o, s, d)
    BY <1>1 DEF Awaits
  <2>2. Flowing(o, g, s, d)' => Flowing(o, g, s, d)
    BY <1>1 DEF Flowing
  <2>3. /\ Flows(o, g, s, d, c) /\ throttled' = throttled /\ entry'[d] = entry[d] /\ up' = up /\ down'[d] = down[d]
        /\ entry'[c][s] # NoEntry => entry[c][s] # NoEntry /\ entry'[c][s].sent = entry[c][s].sent
    BY <1>1, <1>5
  <2> QED BY <2>1, <2>2, <2>3, FlowKeeps
<1> QED BY <1>1, <1>2, <1>6, <1>7, <1>8, StreamOfBoth

\* The next chunk comes out.
LEMMA DataComes ==
  ASSUME NetInv, NEW o \in Connection, NEW g, NEW s \in StreamId, Stream(o, g, s), StreamInv(o, g, s),
         NEW c, NEW d, Comes(o, g, s, c, d), Head(down[c]).kind = "DATA"
  PROVE  StreamInv(o, g, s)'
<1> DEFINE f == Head(down[c])
           e == entry[c][s]
           n == entry'[c][s]
<1>1. /\ c \in Connection /\ d \in Connection /\ g \in Connection /\ c # d /\ o # g
      /\ down[c] \in Seq(DownFrame) /\ down[c] # << >> /\ down'[c] = Tail(down[c])
      /\ down'[d] = down[d] /\ entry'[d] = entry[d]
      /\ UNCHANGED <<socket, myId, streams, hungUp, up, throttled>>
      /\ ~Opening(up[o], s) /\ ~Opening(down'[o], s) /\ ~Opening(down'[g], s)
      /\ Opening(down[c], s) <=> f.kind = "OPEN"
      /\ Closing(down[c], s) <=> Closing(down'[c], s) \/ f.kind = "CLOSE"
      /\ Begins(o, g, s)'
      /\ \A i : Left(down[c], i) => Left(down'[c], i)
      /\ Ends(o, g, s, c, d) /\ Ends(o, g, s, d, c) /\ Ends(o, g, s, d, c)'
      /\ Flows(o, g, s, c, d) /\ Flows(o, g, s, d, c)
  BY TakenDown
<1>2. Both(o, g, c, d) /\ PageReceives(c) /\ f.stream = s /\ f.kind = "DATA" /\ IsData(f, s)
  BY DEF Comes, IsData
<1>3. IF e = NoEntry THEN n = NoEntry
      ELSE n.chunks = Append(e.chunks, Chunked(f)) /\ n.open = e.open /\ n.sent = e.sent
  <2>1. f.kind = "DATA" /\ f.stream = s =>
          IF e = NoEntry THEN n = NoEntry
          ELSE n.chunks = Append(e.chunks, Chunked(f)) /\ n.open = e.open /\ n.sent = e.sent
    BY <1>1, <1>2, EntryHandled
  <2> QED BY <1>2, <2>1
<1>4. /\ entry'[c][s].open = entry[c][s].open /\ entry'[c][s].sent = entry[c][s].sent
      /\ entry[c][s] = NoEntry => entry'[c][s] = NoEntry
  BY <1>3
<1>5. Ends(o, g, s, c, d)'
  <2>1. ~Opening(down[c], s) /\ ~Opening(down'[c], s)
    BY <1>1, <1>2 DEF Both
  <2>2. IsOpen(c, s)' <=> IsOpen(c, s)
    BY <1>4, <2>1 DEF IsOpen
  <2>3. (Closing(down'[c], s) <=> Closing(down[c], s)) /\ (Left(down[c], myId[d]) => Left(down'[c], myId[d]))
    BY <1>1, <1>2
  <2> QED BY <1>1, <1>4, <2>1, <2>2, <2>3 DEF Ends
<1>6. Flows(o, g, s, d, c)'
  <2>1. Awaits(o, s, d)' => Awaits(o, s, d)
    BY <1>1 DEF Awaits
  <2>2. Flowing(o, g, s, d)' => Flowing(o, g, s, d)
    BY <1>1 DEF Flowing
  <2>3. /\ Flows(o, g, s, d, c) /\ throttled' = throttled /\ entry'[d] = entry[d] /\ up' = up /\ down'[d] = down[d]
        /\ entry'[c][s] # NoEntry => entry[c][s] # NoEntry /\ entry'[c][s].sent = entry[c][s].sent
    BY <1>1, <1>4
  <2> QED BY <2>1, <2>2, <2>3, FlowKeeps
<1>7. Flows(o, g, s, c, d)'
  <2> SUFFICES ASSUME d \notin throttled, Awaits(o, s, c)' PROVE Flows(o, g, s, c, d)'
    BY <1>1 DEF Flows
  <2>1. entry'[c][s] # NoEntry
    <3>1. ~Opening(down'[c], s)
      BY <1>1, <1>2 DEF Both
    <3> QED BY <1>1, <3>1 DEF Awaits
  <2>2. e # NoEntry /\ n.chunks = Append(e.chunks, Chunked(f))
    BY <1>3, <2>1
  <2>0. Flows(o, g, s, c, d) /\ Awaits(o, s, c)
    BY <1>1, <2>2 DEF Awaits
  <2>3. Got(o, s, c, d) /\ DataFrom(down[c], s, d)
    BY <2>0 DEF Flows
  <2>4. PICK m \in 0 .. MaxChunks, l \in 0 .. MaxChunks, h \in 0 .. MaxChunks :
          /\ Carries(down[c], s, o, Len(entry[c][s].chunks), m)
          /\ Carries(up[d], s, o, l, h)
          /\ entry[d][s] # NoEntry => entry[d][s].sent = h
          /\ Flowing(o, g, s, c) => l = m
    BY <2>0 DEF Flows
  <2>5. e.chunks \in Seq([body : Body \cup {NONE}, from : Connection \cup {NONE}]) /\ Len(e.chunks) \in Nat
    <3>1. e \in Entry
      BY <1>1, EntryTyped
    <3> HIDE DEF e
    <3> QED BY <3>1 DEF Entry
  <2>6. m \in Nat
    BY PageConstants
  <2>7. /\ f.body = [opener |-> o, n |-> Len(e.chunks) + 1]
        /\ Carries(down'[c], s, o, Len(e.chunks) + 1, m)
    <3> DEFINE low == Len(e.chunks)
               wire == down[c]
    <3>1. low \in Nat /\ wire \in Seq(DownFrame) /\ wire # << >> /\ IsData(Head(wire), s) /\ Carries(wire, s, o, low, m)
      BY <1>1, <1>2, <2>4, <2>5
    <3> HIDE DEF low, wire
    <3>2. /\ Head(wire).body = [opener |-> o, n |-> low + 1]
          /\ Carries(Tail(wire), s, o, low + 1, m)
      BY <2>6, <3>1, CarriesLess
    <3> QED BY <1>1, <3>2 DEF low, wire
  <2>8. f.from = d /\ DataFrom(down'[c], s, d)
    BY <1>1, <1>2, <2>3, DataFromTaken
  <2>9. Chunked(f) = [body |-> [opener |-> o, n |-> Len(e.chunks) + 1], from |-> d]
    BY <2>7, <2>8 DEF Chunked
  <2>10. Len(n.chunks) = Len(e.chunks) + 1
    <3> HIDE DEF e, n, f
    <3> QED BY <2>2, <2>5
  <2>11. Got(o, s, c, d)'
    <3>1. \A k \in DOMAIN e.chunks : e.chunks[k] = [body |-> [opener |-> o, n |-> k], from |-> d]
      BY <2>3 DEF Got
    <3>2. \A k \in DOMAIN n.chunks : n.chunks[k] = [body |-> [opener |-> o, n |-> k], from |-> d]
      <4> DEFINE chunks == e.chunks
                 all    == n.chunks
                 last   == Chunked(f)
                 T      == [body : Body \cup {NONE}, from : Connection \cup {NONE}]
      <4>1. /\ chunks \in Seq(T) /\ all = Append(chunks, last)
            /\ last = [body |-> [opener |-> o, n |-> Len(chunks) + 1], from |-> d]
            /\ \A k \in DOMAIN chunks : chunks[k] = [body |-> [opener |-> o, n |-> k], from |-> d]
        BY <2>2, <2>5, <2>9, <3>1
      <4> HIDE DEF chunks, all, last, T
      <4>2. /\ DOMAIN all = DOMAIN chunks \cup {Len(chunks) + 1}
            /\ \A k \in DOMAIN chunks : all[k] = chunks[k]
            /\ all[Len(chunks) + 1] = last
        BY <4>1, Appended
      <4>3. \A k \in DOMAIN all : all[k] = [body |-> [opener |-> o, n |-> k], from |-> d]
        BY <4>1, <4>2
      <4> QED BY <4>3 DEF all
    <3> QED BY <3>2 DEF Got
  <2>12. Flowing(o, g, s, c)' => Flowing(o, g, s, c)
    BY <1>1 DEF Flowing
  <2> QED BY <1>1, <2>4, <2>7, <2>8, <2>10, <2>11, <2>12 DEF Flows
<1> QED BY <1>1, <1>2, <1>5, <1>6, <1>7, StreamOfBoth

\* A page takes any frame.
LEMMA PageReceivesStays ==
  ASSUME NetInv, NEW o \in Connection, NEW g, NEW s \in StreamId, Stream(o, g, s), StreamInv(o, g, s),
         NEW c \in Connection, PageReceives(c)
  PROVE  StreamInv(o, g, s)'
<1> DEFINE f == Head(down[c])
<1>1. g \in Connection /\ o # g /\ myId[g] = 1 /\ room[o] = g /\ room[g] = g
  BY EndsOfStream
<1>2. CASE c \notin {o, g}
  BY <1>2, ReceivesElsewhere
<1>3. ASSUME NEW d, Both(o, g, c, d) PROVE StreamInv(o, g, s)'
  <2>1. CASE Foreign(f, s) /\ ~Tells(f, myId[d])
    <3>1. /\ c = o => ~Tells(f, 1)
          /\ c = g => ~Tells(f, myId[o])
      BY <1>1, <1>3, <2>1 DEF Both
    <3> QED BY <2>1, <3>1, ReceivesElsewhere
  <2>2. CASE Tells(f, myId[d])
    BY <1>3, <2>2, HearsOfLeaving
  <2>3. CASE ~Foreign(f, s)
    <3>1. Comes(o, g, s, c, d)
      BY <1>3, <2>3 DEF Comes, Foreign
    <3>2. f.kind \in {"OPEN", "DATA", "CLOSE"}
      BY <2>3 DEF Foreign, OfStream
    <3> QED BY <3>1, <3>2, OpenComes, DataComes, CloseComes
  <2> QED BY <2>1, <2>2, <2>3
<1>4. CASE c = o
  <2>1. Both(o, g, c, g)
    BY <1>4 DEF Both
  <2> QED BY <1>3, <2>1
<1>5. CASE c = g
  <2>1. Both(o, g, c, o)
    BY <1>5 DEF Both
  <2> QED BY <1>3, <2>1
<1> QED BY <1>2, <1>4, <1>5

-----------------------------------------------------------------------------
(* The engine's calls.                                                       *)

\* The engine calls for something else.
LEMMA CallElsewhere ==
  ASSUME NetInv, NEW o \in Connection, NEW g, NEW s \in StreamId, Stream(o, g, s), StreamInv(o, g, s),
         NEW c \in Connection, UNCHANGED <<relayVars, page, throttled>>,
         up' = up \/ \E f : up' = [up EXCEPT ![c] = Append(@, f)] /\ (c \in {o, g} => Foreign(f, s)),
         \A x \in {o, g} : entry'[x][s] = entry[x][s],
         NotYet(o, s)' => NotYet(o, s)
  PROVE  StreamInv(o, g, s)'
<1>1. UNCHANGED <<socket, myId, streams, down, hungUp, page, throttled>>
  BY DEF relayVars, roomVars
<1>2. o \in Connection /\ g \in Connection
  BY EndsOfStream
<1>3. \A x \in {o, g} : Same(up[x], up'[x], s)
  <2> SUFFICES ASSUME NEW x \in {o, g} PROVE Same(up[x], up'[x], s)
    OBVIOUS
  <2>1. up[x] \in Seq(UpFrame) /\ up \in [Connection -> Seq(UpFrame)]
    BY <1>2 DEF NetInv, PageTypes
  <2>2. CASE up'[x] = up[x]
    BY <2>2, SameItself
  <2>3. ASSUME NEW f, up'[x] = Append(up[x], f), Foreign(f, s) PROVE Same(up[x], up'[x], s)
    BY <2>1, <2>3, SameSent DEF Foreign
  <2>4. up'[x] = up[x] \/ \E f : up'[x] = Append(up[x], f) /\ Foreign(f, s)
    BY <1>2, <2>1
  <2> QED BY <2>2, <2>3, <2>4
<1>4. Unheard(o, g, s)
  BY <1>1, <1>3, SameItself DEF Unheard
<1> QED BY <1>4, UnheardKeeps

\* The engine opens the stream.
LEMMA OpensStream ==
  ASSUME NetInv, NEW o \in Connection, NEW g, NEW s \in StreamId, Stream(o, g, s), StreamInv(o, g, s),
         PageOpens(o), s = StreamIdOf(myId[o], nextSeq[o])
  PROVE  StreamInv(o, g, s)'
<1> DEFINE f == ToMember("OPEN", 1, s, NONE)
<1>1. /\ page[o] = "ready" /\ memberId[o] = myId[o] /\ NotYet(o, s)
      /\ nextSeq[o] \in 1 .. SequenceSpan - 1 /\ myId[o] \in Nat
  BY NextStream
<1>2. /\ UNCHANGED <<socket, myId, streams, down, hungUp, page, throttled>>
      /\ entry' = [entry EXCEPT ![o][s] = NewEntry(1, o)] /\ up' = [up EXCEPT ![o] = Append(@, f)]
      /\ nextSeq' = [nextSeq EXCEPT ![o] = @ + 1]
  BY <1>1 DEF PageOpens, Sends, relayVars, roomVars
<1>3. f.kind = "OPEN" /\ f.stream = s
  BY Constants, StreamFrames DEF OfStream
<1> HIDE DEF f
<1>4. g \in Connection /\ o # g
  BY EndsOfStream
<1>5. /\ entry'[o][s] = NewEntry(1, o) /\ entry'[g] = entry[g] /\ nextSeq'[o] = nextSeq[o] + 1
      /\ up'[o] = Append(up[o], f) /\ up'[g] = up[g] /\ up[o] \in Seq(UpFrame)
  BY <1>2, <1>4 DEF NetInv, PageTypes
<1>6. Quiet(o, g, s) /\ ~Busy(up[o], s)
  <2>1. Begins(o, g, s) /\ OpensAreNew
    BY DEF StreamInv, NetInv
  <2>2. Opens(o, s)
    BY DEF Stream
  <2> QED BY <1>1, <2>1, <2>2 DEF Begins, OpensAreNew, Busy
<1>7. /\ streams[g][s] = NoPair /\ entry[g][s] = NoEntry
      /\ ~Busy(up[g], s) /\ ~Busy(down[o], s) /\ ~Busy(down[g], s)
  BY <1>6 DEF Quiet
<1>8. /\ entry'[o][s].open /\ entry'[o][s].chunks = << >> /\ entry'[o][s].sent = 0 /\ Len(entry'[o][s].chunks) = 0
      /\ entry'[g][s] = NoEntry /\ ~entry'[g][s].open /\ entry'[g][s].chunks = << >> /\ Len(entry'[g][s].chunks) = 0
  <2>1. 1 \in Nat
    OBVIOUS
  <2>2. NewEntry(1, o).open /\ NewEntry(1, o).chunks = << >> /\ NewEntry(1, o).sent = 0
    BY <2>1, NewEntryFields
  <2> QED BY <1>5, <1>7, <2>2, NoEntryFields
<1>9. ~NotYet(o, s)'
  <2> SUFFICES ASSUME NotYet(o, s)' PROVE FALSE
    OBVIOUS
  <2>1. PICK q \in nextSeq[o] + 1 .. SequenceSpan - 1 : s = StreamIdOf(myId[o], q)
    BY <1>2, <1>5 DEF NotYet
  <2>2. q \in 1 .. SequenceSpan - 1 /\ q # nextSeq[o]
    BY <1>1, <2>1, PageConstants
  <2> DEFINE m == myId[o]
             n == nextSeq[o]
  <2>3. m \in Nat /\ q \in 1 .. SequenceSpan - 1 /\ n \in 1 .. SequenceSpan - 1 /\ q # n /\ StreamIdOf(m, q) = StreamIdOf(m, n)
    BY <1>1, <2>1, <2>2
  <2> HIDE DEF m, n
  <2> QED BY <2>3, NumbersTell
<1>10. /\ ~Opening(down[o], s) /\ ~Closing(down[o], s) /\ ~Opening(down[g], s) /\ ~Closing(down[g], s)
       /\ ~Closing(up[g], s) /\ ~Closing(up[o], s)
  BY <1>6, <1>7, IdleWire
<1>11. Opening(up'[o], s) /\ ~Closing(up'[o], s)
  BY <1>3, <1>5, <1>10, FrameSent
<1>12. Begins(o, g, s)'
  <2>1. Quiet(o, g, s)'
    BY <1>2, <1>5, <1>7, <1>8 DEF Quiet
  <2>2. OpenFirst(up'[o], s)
    <3>1. OpenFirst(up[o], s)
      BY <1>6, IdleWire
    <3> QED BY <1>5, <1>6, <3>1, OpenFirstSent DEF Busy
  <2>3. LeftIsLast(down'[g], myId'[o], s)
    BY <1>2 DEF StreamInv, Begins
  <2> QED BY <1>2, <1>8, <1>9, <1>10, <2>1, <2>2, <2>3 DEF Begins
<1>13. Ends(o, g, s, o, g)'
  BY <1>2, <1>7, <1>10, <1>11 DEF Ends
<1>14. Ends(o, g, s, g, o)'
  <2>1. ~IsOpen(g, s)'
    BY <1>2, <1>8, <1>10 DEF IsOpen
  <2> QED BY <1>2, <1>5, <1>7, <1>10, <2>1 DEF Ends
<1>15. 0 \in 0 .. MaxChunks /\ 0 \in Nat
  BY PageConstants
<1>16. Flows(o, g, s, o, g)'
  <2>1. Carries(down[o], s, o, 0, 0) /\ Carries(up[g], s, o, 0, 0) /\ DataFrom(down[o], s, g)
    BY <1>7, <1>15, IdleWire
  <2>2. Got(o, s, o, g)'
    BY <1>8 DEF Got
  <2>3. down' = down /\ up'[g] = up[g]
    BY <1>2, <1>5
  <2> QED BY <1>8, <1>15, <2>1, <2>2, <2>3 DEF Flows
<1>17. Flows(o, g, s, g, o)'
  <2>1. Carries(down[g], s, o, 0, 0) /\ Carries(up[o], s, o, 0, 0) /\ DataFrom(down[g], s, o)
    BY <1>6, <1>7, <1>15, IdleWire
  <2>2. ~IsData(f, s)
    BY <1>3 DEF IsData
  <2>3. Carries(up'[o], s, o, 0, 0)
    BY <1>5, <2>1, <2>2, CarriesSent
  <2>4. Got(o, s, g, o)'
    BY <1>8 DEF Got
  <2>5. down' = down
    BY <1>2
  <2> QED BY <1>8, <1>15, <2>1, <2>3, <2>4, <2>5 DEF Flows
<1> QED BY <1>12, <1>13, <1>14, <1>16, <1>17 DEF StreamInv

\* The engine opens any stream.
LEMMA PageOpensStays ==
  ASSUME NetInv, NEW o \in Connection, NEW g, NEW s \in StreamId, Stream(o, g, s), StreamInv(o, g, s),
         NEW c \in Connection, PageOpens(c)
  PROVE  StreamInv(o, g, s)'
<1> DEFINE i == StreamIdOf(myId[c], nextSeq[c])
           f == ToMember("OPEN", 1, i, NONE)
<1>1. memberId[c] = myId[c] /\ i \in StreamId /\ Opens(c, i) /\ nextSeq[c] \in 1 .. SequenceSpan - 1
  BY NextStream
<1>2. /\ UNCHANGED <<relayVars, page, throttled>>
      /\ entry' = [entry EXCEPT ![c][i] = NewEntry(1, c)] /\ up' = [up EXCEPT ![c] = Append(@, f)]
      /\ nextSeq' = [nextSeq EXCEPT ![c] = @ + 1]
  BY <1>1 DEF PageOpens, Sends
<1>3. f.stream = i
  <2>1. i \in StreamId
    BY <1>1
  <2> HIDE DEF i
  <2> QED BY <2>1, Constants, StreamFrames DEF OfStream
<1>4. CASE c = o /\ i = s
  <2>1. PageOpens(o) /\ s = StreamIdOf(myId[o], nextSeq[o])
    BY <1>4
  <2> QED BY <2>1, OpensStream
<1> HIDE DEF i, f
<1>5. CASE ~(c = o /\ i = s)
  <2>1. c # g /\ g \in Connection
    BY <1>1, EndsOfStream DEF Opens
  <2>2. \A x \in {o, g} : entry'[x][s] = entry[x][s]
    BY <1>1, <1>2, <1>5, <2>1 DEF NetInv, PageTypes
  <2>3. c \in {o, g} => Foreign(f, s)
    BY <1>3, <1>5, <2>1 DEF Foreign
  <2>4. NotYet(o, s)' => NotYet(o, s)
    <3>1. nextSeq \in [Connection -> Nat \ {0}] /\ SequenceSpan \in Nat
      BY PageConstants DEF NetInv, PageTypes
    <3>2. nextSeq[o] \in Nat /\ nextSeq'[o] \in {nextSeq[o], nextSeq[o] + 1}
      BY <1>2, <3>1
    <3>3. \A q \in nextSeq'[o] .. SequenceSpan - 1 : q \in nextSeq[o] .. SequenceSpan - 1
      BY <3>1, <3>2
    <3>4. myId' = myId
      BY <1>2 DEF relayVars, roomVars
    <3> QED BY <3>3, <3>4 DEF NotYet
  <2> QED BY <1>2, <2>2, <2>3, <2>4, CallElsewhere
<1> QED BY <1>4, <1>5

\* The engine sends a datagram, or lists the room.
LEMMA OtherCallsStay ==
  ASSUME NetInv, NEW o \in Connection, NEW g, NEW s \in StreamId, Stream(o, g, s), StreamInv(o, g, s),
         NEW c \in Connection, PageSendsDgram(c) \/ PageLists(c)
  PROVE  StreamInv(o, g, s)'
<1>1. UNCHANGED <<relayVars, page, throttled, entry, nextSeq>>
  BY DEF PageSendsDgram, PageLists
<1>2. PICK f : up' = [up EXCEPT ![c] = Append(@, f)] /\ f.kind \in {"DGRAM", "PUBLISH", "UNLIST"}
  <2>1. CASE PageSendsDgram(c)
    <3>1. PICK i : Sends(c, ToMember("DGRAM", i, 0, NONE))
      BY <2>1 DEF PageSendsDgram
    <3>2. ToMember("DGRAM", i, 0, NONE).kind = "DGRAM"
      BY DEF ToMember
    <3> QED BY <3>1, <3>2 DEF Sends
  <2>2. CASE PageLists(c)
    <3>1. PICK kind \in {"PUBLISH", "UNLIST"} : Sends(c, [kind |-> kind])
      BY <2>2 DEF PageLists
    <3>2. [kind |-> kind].kind = kind
      OBVIOUS
    <3> QED BY <3>1, <3>2 DEF Sends
  <2> QED BY <2>1, <2>2
<1>3. Foreign(f, s)
  BY <1>2 DEF Foreign, OfStream
<1>4. NotYet(o, s)' => NotYet(o, s)
  BY <1>1 DEF NotYet, relayVars, roomVars
<1> QED BY <1>1, <1>2, <1>3, <1>4, CallElsewhere

\* The engine of c sends into the stream, or closes it.
CallsInto(s, c, d) ==
  /\ entry[c][s] # NoEntry
  /\ UNCHANGED <<relayVars, page, nextSeq, throttled>>
  /\ entry'[d] = entry[d] /\ up'[d] = up[d]
  /\ \/ up'[c] = up[c]
     \/ \E f : up'[c] = Append(up[c], f) /\ f.kind \in {"DATA", "CLOSE"} /\ f.stream = s
  /\ entry[c][s].chunks = << >> => entry'[c][s].chunks = << >>
  /\ entry[c][s].open => entry'[c][s].open \/ Closing(up'[c], s)

\* What holds when an end sends or closes.
LEMMA CallOfStream ==
  ASSUME NetInv, NEW o \in Connection, NEW g, NEW s \in StreamId, Stream(o, g, s), StreamInv(o, g, s),
         NEW c, NEW d, Both(o, g, c, d), CallsInto(s, c, d)
  PROVE  /\ c \in Connection /\ d \in Connection /\ g \in Connection /\ c # d /\ o # g
         /\ UNCHANGED <<socket, myId, streams, down, hungUp, throttled>>
         /\ up[c] \in Seq(UpFrame) /\ c \notin hungUp /\ entry[c][s].opener = o
         /\ c = g => ~Opening(up[o], s)
         /\ ~Opening(down[c], s) /\ ~Closing(up[c], s)
         /\ Opening(up'[o], s) <=> Opening(up[o], s)
         /\ Begins(o, g, s)' /\ Ends(o, g, s, d, c)'
         /\ Ends(o, g, s, c, d) /\ Flows(o, g, s, c, d) /\ Flows(o, g, s, d, c)
<1>1. /\ o \in Connection /\ g \in Connection /\ c \in Connection /\ d \in Connection /\ c # d /\ o # g
      /\ c \in {o, g}
  BY EndsOfStream DEF Both
<1>2. /\ UNCHANGED <<socket, myId, streams, down, hungUp, page, nextSeq, throttled>>
      /\ entry[c][s] # NoEntry /\ entry'[d] = entry[d] /\ up'[d] = up[d]
      /\ \/ up'[c] = up[c]
         \/ \E f : up'[c] = Append(up[c], f) /\ f.kind \in {"DATA", "CLOSE"} /\ f.stream = s
      /\ entry[c][s].chunks = << >> => entry'[c][s].chunks = << >>
      /\ entry[c][s].open => entry'[c][s].open \/ Closing(up'[c], s)
  BY DEF CallsInto, relayVars, roomVars
<1>3. up[c] \in Seq(UpFrame) /\ c \notin hungUp /\ entry[c][s].opener = o
  BY <1>1, <1>2, EntriesOfStream, WiresTyped
<1>4. /\ Begins(o, g, s) /\ Ends(o, g, s, c, d) /\ Ends(o, g, s, d, c)
      /\ Flows(o, g, s, c, d) /\ Flows(o, g, s, d, c)
  BY StreamOfBoth
<1>5. c = g => ~Opening(up[o], s) /\ ~Opening(down[g], s)
  BY <1>2, <1>4 DEF Begins, Quiet
<1>6. ~Opening(down[c], s) /\ ~Closing(up[c], s)
  BY <1>1, <1>2, <1>4, <1>5, WiresOfStream DEF Ends
<1>7. ~(page[o] # "over" /\ NotYet(o, s))
  <2>1. CASE c = o
    BY <1>2, <2>1 DEF NetInv, OpensAreNew, Stream
  <2>2. CASE c = g
    BY <1>2, <1>4, <2>2 DEF Begins, Quiet
  <2> QED BY <1>1, <2>1, <2>2
<1>8. /\ Opening(up'[c], s) <=> Opening(up[c], s)
      /\ OpenFirst(up[c], s) => OpenFirst(up'[c], s)
      /\ Closing(up[c], s) => Closing(up'[c], s)
  <2>1. CASE up'[c] = up[c]
    BY <2>1
  <2>2. ASSUME NEW f, up'[c] = Append(up[c], f), f.kind \in {"DATA", "CLOSE"}, f.stream = s
        PROVE  /\ Opening(up'[c], s) <=> Opening(up[c], s)
               /\ OpenFirst(up[c], s) => OpenFirst(up'[c], s)
               /\ Closing(up[c], s) => Closing(up'[c], s)
    BY <1>3, <2>2, FrameSent, OpenFirstSent
  <2> QED BY <1>2, <2>1, <2>2
<1>9. Opening(up'[o], s) <=> Opening(up[o], s)
  BY <1>2, <1>8 DEF Both
<1>10. Begins(o, g, s)'
  <2>1. ~(page'[o] # "over" /\ NotYet(o, s)')
    BY <1>2, <1>7 DEF NotYet
  <2>2. Opening(up'[o], s) => /\ Quiet(o, g, s)' /\ OpenFirst(up'[o], s) /\ entry'[o][s].chunks = << >>
                              /\ Present(g)' => entry'[o][s].open \/ Closing(up'[o], s) \/ o \in hungUp'
    <3> SUFFICES ASSUME Opening(up'[o], s)
                 PROVE  /\ Quiet(o, g, s)' /\ OpenFirst(up'[o], s) /\ entry'[o][s].chunks = << >>
                        /\ Present(g)' => entry'[o][s].open \/ Closing(up'[o], s) \/ o \in hungUp'
      OBVIOUS
    <3>1. Opening(up[o], s) /\ c = o /\ d = g
      BY <1>5, <1>9 DEF Both
    <3>2. /\ Quiet(o, g, s) /\ OpenFirst(up[o], s) /\ entry[o][s].chunks = << >>
          /\ Present(g) => entry[o][s].open \/ Closing(up[o], s) \/ o \in hungUp
      BY <1>4, <3>1 DEF Begins
    <3>3. Quiet(o, g, s)'
      BY <1>2, <3>1, <3>2 DEF Quiet
    <3>4. Present(g)' <=> Present(g)
      BY <1>2 DEF Present
    <3> QED BY <1>2, <1>8, <3>1, <3>2, <3>3, <3>4
  <2>3. Opening(down'[g], s) =>
          /\ OpenFirst(down'[g], s) /\ entry'[g][s] = NoEntry /\ entry'[o][s].chunks = << >>
          /\ ~Busy(up'[g], s) /\ ~Busy(down'[o], s)
    <3> SUFFICES ASSUME Opening(down[g], s)
                 PROVE  /\ OpenFirst(down[g], s) /\ entry'[g][s] = NoEntry /\ entry'[o][s].chunks = << >>
                        /\ ~Busy(up'[g], s) /\ ~Busy(down[o], s)
      BY <1>2
    <3>1. c = o /\ d = g
      BY <1>5 DEF Both
    <3>2. /\ OpenFirst(down[g], s) /\ entry[g][s] = NoEntry /\ entry[o][s].chunks = << >>
          /\ ~Busy(up[g], s) /\ ~Busy(down[o], s)
      BY <1>4 DEF Begins
    <3> QED BY <1>2, <3>1, <3>2
  <2>4. LeftIsLast(down'[g], myId'[o], s)
    BY <1>2, <1>4 DEF Begins
  <2> QED BY <2>1, <2>2, <2>3, <2>4 DEF Begins
<1>11. Ends(o, g, s, d, c)'
  BY <1>2, <1>4, <1>9 DEF Ends, IsOpen
<1> QED BY <1>1, <1>2, <1>3, <1>4, <1>5, <1>6, <1>9, <1>10, <1>11

\* The engine sends a chunk into the stream.
LEMMA SendsIntoStream ==
  ASSUME NetInv, NEW o \in Connection, NEW g, NEW s \in StreamId, Stream(o, g, s), StreamInv(o, g, s),
         NEW c, NEW d, Both(o, g, c, d), PageSends(c, s)
  PROVE  StreamInv(o, g, s)'
<1> DEFINE e    == entry[c][s]
           body == [opener |-> e.opener, n |-> e.sent + 1]
           f    == ToMember("DATA", 0, s, body)
           n    == [e EXCEPT !.sent = @ + 1]
<1>1. c \in Connection /\ d \in Connection /\ c # d
  BY EndsOfStream DEF Both
<1>2. /\ e.open /\ e.sent < MaxChunks /\ UNCHANGED <<relayVars, page, nextSeq, throttled>>
      /\ entry' = [entry EXCEPT ![c][s].sent = @ + 1] /\ up' = [up EXCEPT ![c] = Append(@, f)]
  BY DEF PageSends, Sends
<1>3. e \in Entry /\ entry'[c][s] = n /\ entry'[d] = entry[d] /\ up'[c] = Append(up[c], f) /\ up'[d] = up[d]
  BY <1>1, <1>2 DEF NetInv, PageTypes
<1>4. n.sent = e.sent + 1 /\ n.open = e.open /\ n.chunks = e.chunks
  <2> HIDE DEF e
  <2> QED BY <1>2, <1>3, EntrySends
<1>5. e # NoEntry
  BY <1>2, NoEntryFields
<1>6. f.kind = "DATA" /\ f.stream = s /\ f.body = body
  BY DEF ToMember
<1> HIDE DEF f, n
<1>7. CallsInto(s, c, d)
  BY <1>2, <1>3, <1>4, <1>5, <1>6 DEF CallsInto
<1>8. /\ UNCHANGED <<socket, myId, streams, down, hungUp, throttled>>
      /\ up[c] \in Seq(UpFrame) /\ c \notin hungUp /\ e.opener = o /\ g \in Connection
      /\ c = g => ~Opening(up[o], s)
      /\ ~Opening(down[c], s) /\ ~Closing(up[c], s)
      /\ Opening(up'[o], s) <=> Opening(up[o], s)
      /\ Begins(o, g, s)' /\ Ends(o, g, s, d, c)'
      /\ Ends(o, g, s, c, d) /\ Flows(o, g, s, c, d) /\ Flows(o, g, s, d, c)
  BY <1>7, CallOfStream
<1>9. Ends(o, g, s, c, d)'
  <2>1. ~Closing(up'[c], s)
    BY <1>3, <1>6, <1>8, FrameSent
  <2>2. IsOpen(c, s)' <=> IsOpen(c, s)
    BY <1>3, <1>4, <1>8 DEF IsOpen
  <2> QED BY <1>8, <2>1, <2>2 DEF Ends
<1>10. Flowing(o, g, s, c)' <=> Flowing(o, g, s, c)
  BY <1>8 DEF Flowing
<1>11. Flowing(o, g, s, d)' <=> Flowing(o, g, s, d)
  BY <1>8 DEF Flowing
<1>12. Flows(o, g, s, c, d)'
  <2>1. Awaits(o, s, c)' => Awaits(o, s, c)
    BY <1>5 DEF Awaits
  <2>2. /\ Flows(o, g, s, c, d) /\ throttled' = throttled /\ entry'[c][s].chunks = entry[c][s].chunks
        /\ down' = down /\ up'[d] = up[d] /\ entry'[d] = entry[d]
    BY <1>3, <1>4, <1>8
  <2> QED BY <1>10, <2>1, <2>2, FlowKeeps
<1>13. Flows(o, g, s, d, c)'
  <2> SUFFICES ASSUME c \notin throttled, Awaits(o, s, d)' PROVE Flows(o, g, s, d, c)'
    BY <1>8 DEF Flows
  <2>1. Awaits(o, s, d)
    BY <1>3, <1>8 DEF Awaits
  <2>2. Got(o, s, d, c) /\ DataFrom(down[d], s, c)
    BY <1>8, <2>1 DEF Flows
  <2>3. PICK m \in 0 .. MaxChunks, l \in 0 .. MaxChunks, h \in 0 .. MaxChunks :
          /\ Carries(down[d], s, o, Len(entry[d][s].chunks), m)
          /\ Carries(up[c], s, o, l, h)
          /\ entry[c][s] # NoEntry => entry[c][s].sent = h
          /\ Flowing(o, g, s, d) => l = m
    BY <1>8, <2>1 DEF Flows
  <2>4. MaxChunks \in Nat /\ h = e.sent /\ l \in Nat /\ h \in Nat
    BY <1>5, <2>3, PageConstants
  <2>5. h + 1 \in 0 .. MaxChunks
    <3> HIDE DEF e
    <3> QED BY <1>2, <2>4
  <2>6. IsData(f, s) /\ f.body = [opener |-> o, n |-> h + 1]
    BY <1>6, <1>8, <2>4 DEF IsData
  <2>7. Carries(Append(up[c], f), s, o, l, h + 1)
    BY <1>8, <2>3, <2>4, <2>6, CarriesMore
  <2>8. Got(o, s, d, c)'
    BY <1>3, <2>2 DEF Got
  <2>9. entry'[c][s].sent = h + 1
    BY <1>3, <1>4, <2>4
  <2> QED BY <1>3, <1>8, <1>11, <2>2, <2>3, <2>5, <2>7, <2>8, <2>9 DEF Flows
<1> QED BY <1>8, <1>9, <1>12, <1>13, StreamOfBoth

\* The engine closes its end.
LEMMA ClosesTheStream ==
  ASSUME NetInv, NEW o \in Connection, NEW g, NEW s \in StreamId, Stream(o, g, s), StreamInv(o, g, s),
         NEW c, NEW d, Both(o, g, c, d), PageClosesStream(c, s)
  PROVE  StreamInv(o, g, s)'
<1> DEFINE f == ToMember("CLOSE", 0, s, NONE)
<1>1. c \in Connection /\ d \in Connection /\ c # d /\ c \in {o, g}
  BY EndsOfStream DEF Both
<1>2. /\ entry[c][s] # NoEntry /\ UNCHANGED <<relayVars, page, nextSeq, throttled>>
      /\ entry' = [entry EXCEPT ![c][s] = NoEntry]
      /\ \/ entry[c][s].open /\ page[c] = "ready" /\ up' = [up EXCEPT ![c] = Append(@, f)]
         \/ ~(entry[c][s].open /\ page[c] = "ready") /\ up' = up
  BY DEF PageClosesStream, Sends
<1>3. page[c] = "ready"
  BY <1>1, <1>2, EntriesOfStream
<1>4. /\ entry'[c][s] = NoEntry /\ entry'[d] = entry[d] /\ up'[d] = up[d]
      /\ \/ entry[c][s].open /\ up'[c] = Append(up[c], f)
         \/ ~entry[c][s].open /\ up'[c] = up[c]
  BY <1>1, <1>2, <1>3 DEF NetInv, PageTypes
<1>5. f.kind = "CLOSE" /\ f.stream = s
  BY DEF ToMember
<1> HIDE DEF f
<1>6. ~entry'[c][s].open /\ entry'[c][s].chunks = << >>
  BY <1>4, NoEntryFields
<1>7. entry[c][s].open => Closing(up'[c], s)
  <2>1. up[c] \in Seq(UpFrame)
    BY <1>1, WiresTyped
  <2>2. Closing(Append(up[c], f), s)
    BY <1>5, <2>1, FrameSent
  <2> QED BY <1>4, <2>2
<1>8. CallsInto(s, c, d)
  BY <1>2, <1>4, <1>5, <1>6, <1>7 DEF CallsInto
<1>9. /\ UNCHANGED <<socket, myId, streams, down, hungUp, throttled>>
      /\ up[c] \in Seq(UpFrame) /\ c \notin hungUp
      /\ c = g => ~Opening(up[o], s)
      /\ ~Opening(down[c], s) /\ ~Closing(up[c], s)
      /\ Opening(up'[o], s) <=> Opening(up[o], s)
      /\ Begins(o, g, s)' /\ Ends(o, g, s, d, c)'
      /\ Ends(o, g, s, c, d) /\ Flows(o, g, s, d, c)
  BY <1>8, CallOfStream
<1>10. Ends(o, g, s, c, d)'
  <2>1. ~IsOpen(c, s)'
    BY <1>6, <1>9 DEF IsOpen
  <2>2. IsOpen(c, s) => Closing(up'[c], s)
    BY <1>7, <1>9 DEF IsOpen
  <2> QED BY <1>4, <1>9, <2>1, <2>2 DEF Ends
<1>11. Flows(o, g, s, c, d)'
  <2>1. c # o => ~Opening(up'[o], s)
    BY <1>1, <1>9
  <2>2. ~Opening(down'[c], s)
    BY <1>9
  <2>3. ~Awaits(o, s, c)'
    BY <1>4, <2>1, <2>2 DEF Awaits
  <2> QED BY <2>3 DEF Flows
<1>12. Flows(o, g, s, d, c)'
  <2>1. Awaits(o, s, d)' => Awaits(o, s, d)
    BY <1>4, <1>9 DEF Awaits
  <2>2. Flowing(o, g, s, d)' => Flowing(o, g, s, d)
    BY <1>9 DEF Flowing
  <2>3. ~IsData(f, s)
    BY <1>5 DEF IsData
  <2>4. \A l, h : Carries(up[c], s, o, l, h) => Carries(up'[c], s, o, l, h)
    BY <1>4, <1>9, <2>3, CarriesSent
  <2>5. /\ Flows(o, g, s, d, c) /\ throttled' = throttled /\ entry'[d] = entry[d] /\ down' = down
        /\ ~(entry'[c][s] # NoEntry)
    BY <1>4, <1>9
  <2> QED BY <2>1, <2>2, <2>4, <2>5, FlowKeeps
<1> QED BY <1>9, <1>10, <1>11, <1>12, StreamOfBoth

\* The engine sends into, or closes, any stream.
LEMMA StreamCallsStay ==
  ASSUME NetInv, NEW o \in Connection, NEW g, NEW s \in StreamId, Stream(o, g, s), StreamInv(o, g, s),
         NEW c \in Connection, NEW i \in StreamId, PageSends(c, i) \/ PageClosesStream(c, i)
  PROVE  StreamInv(o, g, s)'
<1>1. g \in Connection /\ o # g
  BY EndsOfStream
<1>2. ASSUME NEW d, Both(o, g, c, d), i = s PROVE StreamInv(o, g, s)'
  <2>1. PageSends(c, s) \/ PageClosesStream(c, s)
    BY <1>2
  <2> QED BY <1>2, <2>1, SendsIntoStream, ClosesTheStream
<1>3. CASE c = o /\ i = s
  <2>1. Both(o, g, c, g)
    BY <1>3 DEF Both
  <2> QED BY <1>2, <1>3, <2>1
<1>4. CASE c = g /\ i = s
  <2>1. Both(o, g, c, o)
    BY <1>4 DEF Both
  <2> QED BY <1>2, <1>4, <2>1
<1>5. CASE c \notin {o, g} \/ i # s
  <2>1. UNCHANGED <<relayVars, page, throttled, nextSeq>>
    BY DEF PageSends, PageClosesStream
  <2>2. up' = up \/ \E f : up' = [up EXCEPT ![c] = Append(@, f)] /\ f.stream = i
    BY DEF PageSends, PageClosesStream, Sends, ToMember
  <2>3. \E e : entry' = [entry EXCEPT ![c][i] = e]
    <3>1. entry' = [entry EXCEPT ![c][i].sent = @ + 1] \/ entry' = [entry EXCEPT ![c][i] = NoEntry]
      BY DEF PageSends, PageClosesStream
    <3>2. entry \in [Connection -> [StreamId -> Entry]]
      BY DEF NetInv, PageTypes
    <3>3. [entry EXCEPT ![c][i].sent = @ + 1] = [entry EXCEPT ![c][i] = [entry[c][i] EXCEPT !.sent = @ + 1]]
      BY <3>2
    <3> QED BY <3>1, <3>3
  <2>4. \A x \in {o, g} : entry'[x][s] = entry[x][s]
    <3>1. entry \in [Connection -> [StreamId -> Entry]]
      BY DEF NetInv, PageTypes
    <3> QED BY <1>1, <1>5, <2>3, <3>1
  <2>5. up' = up \/ \E f : up' = [up EXCEPT ![c] = Append(@, f)] /\ (c \in {o, g} => Foreign(f, s))
    BY <1>5, <2>2 DEF Foreign
  <2>6. NotYet(o, s)' => NotYet(o, s)
    BY <2>1 DEF NotYet, relayVars, roomVars
  <2> QED BY <2>1, <2>4, <2>5, <2>6, CallElsewhere
<1> QED BY <1>3, <1>4, <1>5

-----------------------------------------------------------------------------
(* Somebody comes into the room.                                             *)

\* A stream of which there is nothing anywhere.
LEMMA NothingOfIt ==
  ASSUME NEW o, NEW g, NEW s, streams'[g][s] = NoPair, entry'[o][s] = NoEntry, entry'[g][s] = NoEntry,
         ~Busy(up'[o], s), ~Busy(up'[g], s), ~Busy(down'[o], s), ~Busy(down'[g], s)
  PROVE  StreamInv(o, g, s)'
<1>1. /\ ~Opening(up'[o], s) /\ ~Closing(up'[o], s) /\ ~Opening(up'[g], s) /\ ~Closing(up'[g], s)
      /\ ~Opening(down'[o], s) /\ ~Closing(down'[o], s) /\ ~Opening(down'[g], s) /\ ~Closing(down'[g], s)
      /\ LeftIsLast(down'[g], myId'[o], s)
  BY IdleWire
<1>2. ~entry'[o][s].open /\ ~entry'[g][s].open
  BY NoEntryFields
<1>3. Begins(o, g, s)'
  BY <1>1 DEF Begins, Quiet
<1>4. ~IsOpen(o, s)' /\ ~IsOpen(g, s)'
  BY <1>1, <1>2 DEF IsOpen
<1>5. Ends(o, g, s, o, g)' /\ Ends(o, g, s, g, o)'
  BY <1>1, <1>4 DEF Ends
<1>6. ~Awaits(o, s, o)' /\ ~Awaits(o, s, g)'
  BY <1>1 DEF Awaits
<1> QED BY <1>3, <1>5, <1>6 DEF StreamInv, Flows

\* Somebody joins who will not be an end of the stream.
LEMMA StrangerElsewhere ==
  ASSUME NetInv, StreamsInv, NEW o \in Connection, NEW g \in Connection, NEW s \in StreamId, Stream(o, g, s)',
         NEW c \in Connection \ {o}, room[c] = NONE, StrangerFrame(c)
  PROVE  StreamInv(o, g, s)'
<1>1. /\ UNCHANGED <<streams, hungUp, page, entry, nextSeq>> /\ throttled \subseteq throttled'
      /\ SocketsClose /\ up' = [up EXCEPT ![c] = << >>]
      /\ \A x \in Connection \ {c} : room'[x] = room[x] /\ myId'[x] = myId[x]
      /\ \A x \in Connection \ {c} : down'[x] = down[x]
  BY DEF StrangerFrame, SentTo, pageVars
<1>2. Stream(o, g, s)
  <2>1. Opens(o, s) /\ g = room[o] /\ g # NONE
    BY <1>1 DEF Stream, Opens
  <2>2. IdReused(g) => IdReused(g)'
    <3> SUFFICES ASSUME NEW x \in Connection, NEW y \in Connection, x # y, room[x] = g, room[y] = g, myId[x] = myId[y]
                 PROVE  IdReused(g)'
      BY DEF IdReused
    <3>1. x # c /\ y # c
      BY <2>1
    <3>2. room'[x] = g /\ room'[y] = g /\ myId'[x] = myId'[y]
      BY <1>1, <3>1
    <3> QED BY <3>2 DEF IdReused
  <2> QED BY <2>1, <2>2 DEF Stream
<1>3. StreamInv(o, g, s)
  BY <1>2 DEF StreamsInv
<1>4. g # c
  BY <1>2, EndsOfStream
<1>5. \A x \in {o, g} : /\ up'[x] = up[x] /\ down'[x] = down[x] /\ myId'[x] = myId[x]
                        /\ socket'[x] = socket[x] \/ (socket[x] = "open" /\ socket'[x] = "closing")
  BY <1>1, <1>4 DEF NetInv, PageTypes, SocketsClose
<1>6. Unheard(o, g, s)
  BY <1>1, <1>5, SameItself DEF Unheard, NotYet
<1> QED BY <1>3, <1>6, UnheardKeeps

\* Its opener joins: there is nothing of it anywhere.
LEMMA StrangerComes ==
  ASSUME NetInv, RelayInv', NEW o \in Connection, NEW g \in Connection, NEW s \in StreamId, Stream(o, g, s)',
         room[o] = NONE, StrangerFrame(o)
  PROVE  StreamInv(o, g, s)'
<1>1. /\ UNCHANGED <<streams, entry, page>> /\ up' = [up EXCEPT ![o] = << >>]
      /\ \A x \in Connection \ {o} : room'[x] = room[x] /\ myId'[x] = myId[x]
  BY DEF StrangerFrame, pageVars
<1>2. Opens(o, s)' /\ room'[o] = g /\ g # NONE /\ g # o /\ ~IdReused(g)'
  BY DEF Stream, Opens
<1>3. myId'[o] \in Member /\ members[g][myId'[o]] = NONE /\ SentTo(o, ToClient("WELCOME", myId'[o], 0, NONE, NONE))
  BY <1>2 DEF StrangerFrame
<1>4. room[g] = g
  <2>1. room'[g] = g
    BY <1>2 DEF RelayInv, HandlersAgree
  <2> QED BY <1>1, <1>2, <2>1
<1>5. ~HasPart(g, s)
  <2> SUFFICES ASSUME NEW p \in Connection, Opens(p, s), g \in {p, room[p]} PROVE FALSE
    BY DEF HasPart
  <2>1. room[p] = g /\ p # o /\ myId[p] \in Nat
    <3>1. RelayInv
      BY DEF NetInv
    <3>2. room[p] # NONE /\ room[p] # p /\ myId[p] \in Nat
      BY <3>1, Opened, Constants
    <3> QED BY <1>4, <3>2
  <2>2. PICK q \in 1 .. SequenceSpan - 1 : s = StreamIdOf(myId[p], q)
    BY DEF Opens
  <2>3. PICK r \in 1 .. SequenceSpan - 1 : s = StreamIdOf(myId'[o], r)
    BY <1>2 DEF Opens
  <2>4. myId[p] = myId'[o]
    <3> DEFINE i == myId[p]
               j == myId'[o]
    <3>1. i \in Nat /\ j \in Nat /\ StreamIdOf(i, q) = StreamIdOf(j, r)
      BY <1>3, <2>1, <2>2, <2>3, Constants
    <3> HIDE DEF i, j
    <3>2. i = j
      BY <3>1, NumbersTell
    <3> QED BY <3>2 DEF i, j
  <2>5. room'[p] = g /\ myId'[p] = myId'[o]
    BY <1>1, <2>1, <2>4
  <2> QED BY <1>2, <2>1, <2>5 DEF IdReused
<1>6. streams[g][s] = NoPair
  <2> SUFFICES ASSUME streams[g][s] # NoPair PROVE FALSE
    OBVIOUS
  <2> DEFINE a == streams[g][s].a
             j == myId'[o]
  <2>1. a \in Nat /\ members[g][a] # NONE
    <3>1. streams[g][s] \in Pair
      BY DEF NetInv, RelayInv, RelayTypeOK
    <3>2. a \in Member
      BY <3>1 DEF Pair
    <3> QED BY <3>2, Constants DEF NetInv, RelayInv, StreamsJoinMembers
  <2>2. PICK q \in 1 .. SequenceSpan - 1 : s = StreamIdOf(a, q)
    BY DEF NetInv, PairsSound
  <2>3. PICK r \in 1 .. SequenceSpan - 1 : s = StreamIdOf(j, r)
    BY <1>2 DEF Opens
  <2>4. j \in Nat /\ members[g][j] = NONE
    BY <1>3, Constants
  <2> HIDE DEF a, j
  <2>5. a = j
    BY <2>1, <2>2, <2>3, <2>4, NumbersTell
  <2> QED BY <2>1, <2>4, <2>5
<1>7. entry[g][s] = NoEntry /\ entry[o][s] = NoEntry
  <2>1. ASSUME NEW x \in Connection, entry[x][s] # NoEntry PROVE HasPart(x, s) /\ room[x] # NONE
    BY <2>1 DEF NetInv, EntriesSound, PagesAgree, HasPart
  <2> QED BY <1>5, <2>1
<1>8. ~Busy(up[g], s) /\ ~Busy(down[g], s)
  BY <1>5 DEF NetInv, UpsSound, UpSound, DownsSound, DownSound, Busy, Underway
<1>9. ~Busy(down[o], s)
  <2>1. \A f : DownSound(o, f) => f.kind = "ERROR"
    BY DEF DownSound
  <2> QED BY <2>1 DEF NetInv, DownsSound, Busy, Underway, OfStream
<1>10. ~Busy(down'[o], s) /\ down'[g] = down[g]
  <2> DEFINE h == ToClient("WELCOME", myId'[o], 0, NONE, NONE)
  <2>1. down'[g] = down[g] /\ (down'[o] = down[o] \/ down'[o] = Append(down[o], h))
    BY <1>2, <1>3 DEF SentTo
  <2>2. h.kind \notin OfStream
    BY DEF ToClient, OfStream
  <2>3. down[o] \in Seq(DownFrame)
    BY WiresTyped
  <2> HIDE DEF h
  <2>4. ~Busy(Append(down[o], h), s)
    BY <1>9, <2>2, <2>3, FrameSent
  <2> QED BY <1>9, <2>1, <2>4
<1>11. ~Busy(up'[o], s) /\ up'[g] = up[g]
  <2>1. up'[o] = << >> /\ up'[g] = up[g]
    BY <1>1, <1>2 DEF NetInv, PageTypes
  <2> QED BY <2>1, NothingBusy
<1> QED BY <1>1, <1>6, <1>7, <1>8, <1>10, <1>11, NothingOfIt

-----------------------------------------------------------------------------
(* The theorems about streams.                                               *)

\* One step of pages and relay.
LEMMA StreamsStep ==
  ASSUME NetInv, StreamsInv, [NetNext]_netVars
  PROVE  StreamsInv'
<1>1. RelayInv'
  BY NetStepKeeps DEF NetInv
<1> SUFFICES ASSUME NEW o \in Connection, NEW g \in Connection, NEW s \in StreamId, Stream(o, g, s)'
             PROVE  StreamInv(o, g, s)'
  BY DEF StreamsInv
<1>2. ASSUME UNCHANGED <<room, myId>> PROVE Stream(o, g, s) /\ StreamInv(o, g, s)
  <2>1. Stream(o, g, s)
    BY <1>2, StreamStays
  <2> QED BY <2>1 DEF StreamsInv
<1>3. ASSUME NEW c \in Connection, Connect(c) \/ PageCloses(c) \/ PageReceives(c)
      PROVE  StreamInv(o, g, s)'
  <2>1. UNCHANGED <<room, myId>>
    BY <1>3 DEF Connect, Upgrade, PageCloses, HangUp, PageReceives, TakeFrame, roomVars
  <2>2. Stream(o, g, s) /\ StreamInv(o, g, s)
    BY <1>2, <2>1
  <2> QED BY <1>3, <2>2, ConnectStream, PageClosesStays, PageReceivesStays
<1>4. ASSUME NEW c \in Connection,
             PageOpens(c) \/ PageSendsDgram(c) \/ PageLists(c) \/ \E i \in StreamId : PageSends(c, i) \/ PageClosesStream(c, i)
      PROVE  StreamInv(o, g, s)'
  <2>1. UNCHANGED <<room, myId>>
    BY <1>4 DEF PageOpens, PageSendsDgram, PageLists, PageSends, PageClosesStream, relayVars, roomVars
  <2>2. Stream(o, g, s) /\ StreamInv(o, g, s)
    BY <1>2, <2>1
  <2> QED BY <1>4, <2>2, PageOpensStays, OtherCallsStay, StreamCallsStay
<1>5. ASSUME NEW c \in Connection, RelayReceives(c) PROVE StreamInv(o, g, s)'
  <2>1. CASE room[c] = NONE
    <3>1. StrangerFrame(c)
      BY <1>5, <2>1, StrangerReceives
    <3>2. CASE c = o
      <4>1. room[o] = NONE /\ StrangerFrame(o)
        BY <2>1, <3>1, <3>2
      <4> QED BY <1>1, <4>1, StrangerComes
    <3>3. CASE c # o
      BY <2>1, <3>1, <3>3, StrangerElsewhere
    <3> QED BY <3>2, <3>3
  <2>2. CASE room[c] # NONE
    <3>1. PICK f : MemberFrame(c, f)
      BY <1>5, <2>2, MemberReceives
    <3>2. UNCHANGED <<room, myId>>
      BY <3>1 DEF MemberFrame, roomVars
    <3>3. Stream(o, g, s) /\ StreamInv(o, g, s)
      BY <1>2, <3>2
    <3> QED BY <1>1, <2>2, <3>1, <3>3, MemberFrameKeeps
  <2> QED BY <2>1, <2>2
<1>6. ASSUME NEW c \in Connection, RelayNotices(c) PROVE StreamInv(o, g, s)'
  <2>1. Leaves(c)
    BY <1>6, MemberLeaves
  <2>2. Stream(o, g, s) /\ StreamInv(o, g, s)
    BY <1>2, <2>1 DEF Leaves
  <2> QED BY <2>1, <2>2, LeavingKeeps
<1>7. CASE RelayTimers \/ UNCHANGED netVars
  <2>1. UNCHANGED <<room, myId>>
    <3>1. RelayTypeOK
      BY DEF NetInv, RelayInv
    <3>2. CASE RelayTimers
      BY <3>1, <3>2, TimersClose DEF roomVars
    <3>3. CASE UNCHANGED netVars
      BY <3>3 DEF netVars, relayVars, roomVars
    <3> QED BY <1>7, <3>2, <3>3
  <2>2. Stream(o, g, s) /\ StreamInv(o, g, s)
    BY <1>2, <2>1
  <2> QED BY <1>7, <2>2, QuietStream
<1> QED BY <1>3, <1>4, <1>5, <1>6, <1>7 DEF NetNext

-----------------------------------------------------------------------------
(* The theorems on streams.                                                  *)

LEMMA StreamsStart == NetInit => StreamsInv
<1> SUFFICES ASSUME NetInit, NEW o \in Connection, NEW g, NEW s, Stream(o, g, s) PROVE FALSE
  BY DEF StreamsInv
<1>1. room[o] = NONE
  BY DEF NetInit, RelayInit
<1> QED BY <1>1 DEF Stream, Opens

\* What each end of a stream, the relay and the frames between them know of it agrees, from before it is
\* opened until it is forgotten, in every room in which no member id was used twice.
THEOREM StreamsStaySound == NetSpec => []StreamsInv
<1>1. NetInit => StreamsInv
  BY StreamsStart
<1>2. NetInv /\ StreamsInv /\ [NetNext]_netVars => StreamsInv'
  BY StreamsStep
<1> QED BY <1>1, <1>2, PagesAndRelayAgree, PTL DEF NetSpec

\* Whoever has an entry is an end of a stream that keeps the invariant.
LEMMA EntryIsAnEnd ==
  ASSUME NetInv, StreamsInv, NEW c \in Connection, NEW s \in StreamId, entry[c][s] # NoEntry, ~IdReused(room[c])
  PROVE  \E o, g \in Connection :
           /\ Stream(o, g, s) /\ StreamInv(o, g, s) /\ o # g
           /\ entry[c][s].opener = o /\ Both(o, g, c, OtherEnd(c, s))
<1>1. PICK o \in Connection : Opens(o, s) /\ entry[c][s].opener = o /\ (c = o \/ c = room[o])
  BY DEF NetInv, EntriesSound
<1> DEFINE g == room[o]
<1>2. g \in Connection /\ o # g /\ room[g] = g
  BY <1>1, Opened DEF NetInv
<1>3. room[c] = g
  BY <1>1, <1>2
<1>4. Stream(o, g, s)
  BY <1>1, <1>3 DEF Stream
<1>5. Both(o, g, c, OtherEnd(c, s))
  BY <1>1, <1>2, <1>3 DEF Both, OtherEnd
<1> QED BY <1>1, <1>2, <1>4, <1>5 DEF StreamsInv

\* Streams are reliable and ordered, for senders that were not throttled in rooms in which no number was
\* used twice: what has come out of one end is what the other end put into it, from the first chunk on
\* and without a gap, whoever leaves, closes or falls behind meanwhile.
THEOREM StreamsStayInOrder == NetSpec => []StreamsDeliverInOrder
<1>1. ASSUME NetInv, StreamsInv PROVE StreamsDeliverInOrder
  <2> SUFFICES ASSUME NEW c \in Connection, NEW s \in StreamId, entry[c][s] # NoEntry, ~IdReused(room[c]),
                      OtherEnd(c, s) \notin throttled
               PROVE  Delivers(c, s)
    BY DEF StreamsDeliverInOrder
  <2> DEFINE d == OtherEnd(c, s)
  <2>1. PICK o \in Connection, g \in Connection :
          StreamInv(o, g, s) /\ entry[c][s].opener = o /\ Both(o, g, c, d)
    BY <1>1, EntryIsAnEnd
  <2> HIDE DEF d
  <2>2. Flows(o, g, s, c, d)
    BY <2>1 DEF StreamInv, Both
  <2>3. d \notin throttled /\ Awaits(o, s, c)
    BY DEF d, Awaits
  <2>4. Got(o, s, c, d)
    BY <2>2, <2>3 DEF Flows
  <2> QED BY <2>1, <2>4 DEF Got, Delivers, d
<1> QED BY <1>1, StreamsStaySound, PagesAndRelayAgree, PTL

\* No stream stays open at one end only: as long as no number was used twice in the room, the other end
\* has it open as well, or what will open or close it there is on its way.
THEOREM StreamsEndAtBothEnds == NetSpec => []NoHalfOpenStreams
<1>1. ASSUME NetInv, StreamsInv PROVE NoHalfOpenStreams
  <2> SUFFICES ASSUME NEW c \in Connection, NEW s \in StreamId, entry[c][s].open, socket[c] = "open",
                      ~IdReused(room[c]), NEW d, d = OtherEnd(c, s)
               PROVE  \/ entry[d][s].open /\ entry[d][s].opener = entry[c][s].opener
                      \/ Opening(up[c], s) \/ Opening(down[d], s) \/ Closing(up[d], s) \/ Closing(down[c], s)
                      \/ \E k \in DOMAIN down[c] : down[c][k].kind = "PEER_LEFT"
                      \/ Present(d) /\ (socket[d] = "closing" \/ d \in hungUp)
    BY DEF NoHalfOpenStreams, Opening, Closing
  <2>1. entry[c][s] # NoEntry
    BY DEF NoEntry
  <2>2. PICK o \in Connection, g \in Connection :
          /\ Stream(o, g, s) /\ StreamInv(o, g, s) /\ o # g
          /\ entry[c][s].opener = o /\ Both(o, g, c, d)
    BY <1>1, <2>1, EntryIsAnEnd
  <2>3. Ends(o, g, s, c, d) /\ Ends(o, g, s, d, c) /\ Begins(o, g, s)
    BY <2>2 DEF StreamInv, Both
  <2>4. CASE streams[g][s] = NoPair
    <3>1. CASE Opening(up[o], s)
      <4>1. entry[g][s] = NoEntry
        BY <2>3, <3>1 DEF Begins, Quiet
      <4>2. c = o
        BY <2>1, <2>2, <4>1 DEF Both
      <4> QED BY <3>1, <4>2
    <3>2. CASE ~Opening(up[o], s)
      <4>1. IsOpen(c, s)
        BY DEF IsOpen
      <4>2. Closing(down[c], s) \/ Left(down[c], myId[d])
        BY <2>3, <2>4, <3>2, <4>1 DEF Ends
      <4> QED BY <4>2 DEF Left
    <3> QED BY <3>1, <3>2
  <2>5. CASE streams[g][s] # NoPair
    <3>1. Present(d)
      BY <1>1, <2>2, <2>5, PairOfEnds DEF Both
    <3>2. IsOpen(d, s) \/ Closing(up[d], s) \/ socket[d] = "closing" \/ d \in hungUp
      BY <2>3, <2>5 DEF Ends
    <3>3. ASSUME entry[d][s].open PROVE entry[d][s].opener = o
      <4>1. entry[d][s] # NoEntry /\ d \in {o, g}
        BY <2>2, <3>3 DEF NoEntry, Both
      <4> QED BY <1>1, <2>2, <4>1, EntriesOfStream
    <3> QED BY <2>2, <3>1, <3>2, <3>3 DEF IsOpen
  <2> QED BY <2>4, <2>5
<1> QED BY <1>1, StreamsStaySound, PagesAndRelayAgree, PTL
=============================================================================
