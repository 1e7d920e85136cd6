------------------------------ MODULE RelayNet ------------------------------
(***************************************************************************)
(* Browsers and the relay between them: the pages' side                    *)
(* (wasm/config/net_relay.cpp) over the server of module Relay.            *)
(*                                                                         *)
(* A connection's frames arrive in order, up to where the connection       *)
(* breaks.  JavaScript and the engine share one thread: an event handler   *)
(* and a call of the engine are one action each.  The engine is what       *)
(* network.cpp makes of it: joiners open streams to member 1, both ends    *)
(* send, receive and close.                                                *)
(*                                                                         *)
(* Chunks and streams carry their origin (the connection that opened the   *)
(* stream, and which chunk of the sender's it is), for the properties to   *)
(* talk about; the code never reads it.  Chunks are kept when the engine   *)
(* reads them.  There is one port.                                         *)
(***************************************************************************)
EXTENDS Relay

CONSTANTS
  Hosts, Guests,           \* who may create a room, and who may join one
  SequenceSpan,            \* 2^20, the room for sequence numbers in a stream id
  MaxCalls,                \* bound: calls that the engine makes on each page
  MaxChunks,               \* bound: chunks sent into one end of a stream
  MaxUnderway,             \* bound: frames of a page on their way to the relay
  MayBeThrottled,          \* bound: who may exceed the traffic limits
  MayAnswerLate            \* bound: whose answers to pings may come late

VARIABLES
  page,                    \* st.status and ws.readyState: none, connecting, ready, over
  memberId,                \* st.myId
  entry,                   \* st.streams
  nextSeq,                 \* st.nextSeq
  callsLeft,               \* bound: calls the engine may still make
  up,                      \* frames on their way to the relay
  throttled                \* history: who lost a frame to the traffic limits

pageVars == <<page, memberId, entry, nextSeq, callsLeft>>
netVars  == <<relayVars, pageVars, up, throttled>>

\* js_net_open_stream: (st.myId << 20) | (st.nextSeq++), as long as the sequence fits.
StreamIdOf(member, seq) == member * SequenceSpan + seq

Chunk   == [opener : Connection, n : 1 .. MaxChunks]
NoEntry == [open |-> FALSE, peer |-> 0, opener |-> NONE, chunks |-> <<>>, sent |-> 0]
NewEntry(peer, opener) == [NoEntry EXCEPT !.open = TRUE, !.peer = peer, !.opener = opener]

On(c) == page[c] \in {"connecting", "ready"}

Calls(c) ==
  /\ callsLeft[c] > 0
  /\ callsLeft' = [callsLeft EXCEPT ![c] = @ - 1]

Sends(c, frame) ==
  /\ Len(up[c]) < MaxUnderway
  /\ up' = [up EXCEPT ![c] = Append(@, frame)]

ASSUME PageConstants ==
  /\ Hosts \cup Guests = Connection
  /\ SequenceSpan \in Nat \ {0} /\ MaxUnderway \in Nat /\ MaxChunks \in Nat
  /\ MaxCalls \in [Connection -> Nat]
  /\ MayAnswerLate \subseteq Connection
  /\ \A c \in Connection : MaxCalls[c] < SequenceSpan
  /\ \A c \in Guests : \A m \in Member \ {1}, q \in 1 .. MaxCalls[c] : StreamIdOf(m, q) \in StreamId
  /\ Chunk \subseteq Body

-----------------------------------------------------------------------------
(* The page connects and leaves.                                            *)

HelloFrames(c) ==
  (IF c \in Hosts THEN {HelloFrame(TRUE, NONE)} ELSE {})
    \cup (IF c \in Guests THEN {HelloFrame(FALSE, k) : k \in Code} \cup {[kind |-> "BAD"]}
                          ELSE {})

\* js_net_connect and ws.onopen; a code that the player mistyped is a bad frame.
Connect(c) ==
  /\ page[c] = "none"
  /\ page' = [page EXCEPT ![c] = "connecting"]
  /\ Upgrade(c)
  /\ \E f \in HelloFrames(c) : up' = [up EXCEPT ![c] = <<f>>]
  /\ UNCHANGED <<memberId, entry, nextSeq, callsLeft, throttled>>

\* The connection is over for the page.  What the page still has (streams that are no longer open)
\* is forgotten here at once.
Over(c) ==
  /\ page' = [page EXCEPT ![c] = "over"]
  /\ entry' = [entry EXCEPT ![c] = [s \in StreamId |-> NoEntry]]
  /\ memberId' = [memberId EXCEPT ![c] = 0]
  /\ nextSeq' = [nextSeq EXCEPT ![c] = 1]
  /\ callsLeft' = [callsLeft EXCEPT ![c] = 0]

\* ws.onclose, whoever closed or lost the connection; js_net_reset; and an ERROR frame, to which
\* the page closes the connection and looks at nothing more.
PageCloses(c) ==
  /\ On(c)
  /\ Over(c)
  /\ HangUp(c)
  /\ UNCHANGED <<up, throttled>>

-----------------------------------------------------------------------------
(* ws.onmessage                                                             *)

EntriesClosed(c, S) ==
  [s \in StreamId |-> IF s \in S THEN [entry[c][s] EXCEPT !.open = FALSE] ELSE entry[c][s]]

Handles(c, f) ==
  \/ /\ f.kind = "WELCOME"
     /\ memberId' = [memberId EXCEPT ![c] = f.member]
     /\ page' = [page EXCEPT ![c] = "ready"]
     /\ UNCHANGED <<entry, nextSeq>>
  \/ /\ f.kind = "DGRAM"
     /\ UNCHANGED <<page, memberId, entry, nextSeq>>
  \/ /\ f.kind = "OPEN"
     /\ entry' = [entry EXCEPT ![c][f.stream] = NewEntry(f.member, f.from)]
     /\ UNCHANGED <<page, memberId, nextSeq>>
  \/ /\ f.kind = "DATA"
     /\ entry' = IF entry[c][f.stream] = NoEntry THEN entry
                 ELSE [entry EXCEPT ![c][f.stream].chunks = Append(@, [body |-> f.body, from |-> f.from])]
     /\ UNCHANGED <<page, memberId, nextSeq>>
  \/ /\ f.kind = "CLOSE"
     /\ entry' = [entry EXCEPT ![c][f.stream].open = FALSE]
     /\ UNCHANGED <<page, memberId, nextSeq>>
  \/ /\ f.kind = "PEER_LEFT"
     /\ entry' = [entry EXCEPT ![c] = EntriesClosed(c, {s \in StreamId : entry[c][s].peer = f.member})]
     /\ UNCHANGED <<page, memberId, nextSeq>>

PageReceives(c) ==
  /\ On(c)
  /\ TakeFrame(c)
  /\ Handles(c, Head(down[c]))
  /\ UNCHANGED <<callsLeft, up, throttled>>

-----------------------------------------------------------------------------
(* The engine's calls                                                       *)

\* js_net_open_stream, from TCPsocket's connecting; the gatherer is always member 1.
PageOpens(c) ==
  LET s == StreamIdOf(memberId[c], nextSeq[c])
  IN  /\ page[c] = "ready" /\ c \in Guests /\ memberId[c] # 1
      /\ Calls(c)
      /\ nextSeq' = [nextSeq EXCEPT ![c] = @ + 1]
      /\ entry' = [entry EXCEPT ![c][s] = NewEntry(1, c)]
      /\ Sends(c, ToMember("OPEN", 1, s, NONE))
      /\ UNCHANGED <<relayVars, page, memberId, throttled>>

\* js_net_stream_send
PageSends(c, s) ==
  /\ page[c] = "ready" /\ entry[c][s].open /\ entry[c][s].sent < MaxChunks
  /\ Calls(c)
  /\ entry' = [entry EXCEPT ![c][s].sent = @ + 1]
  /\ Sends(c, ToMember("DATA", 0, s, [opener |-> entry[c][s].opener, n |-> entry[c][s].sent + 1]))
  /\ UNCHANGED <<relayVars, page, memberId, nextSeq, throttled>>

\* js_net_stream_close, from TCPsocket's destructor
PageClosesStream(c, s) ==
  /\ entry[c][s] # NoEntry
  /\ Calls(c)
  /\ entry' = [entry EXCEPT ![c][s] = NoEntry]
  /\ IF entry[c][s].open /\ page[c] = "ready"
     THEN Sends(c, ToMember("CLOSE", 0, s, NONE))
     ELSE UNCHANGED up
  /\ UNCHANGED <<relayVars, page, memberId, nextSeq, throttled>>

\* js_net_send_dgram, between the gatherer and the others
PageSendsDgram(c) ==
  /\ page[c] = "ready"
  /\ \E i \in IF memberId[c] = 1 THEN Member \ {1} ELSE {1} :
       Sends(c, ToMember("DGRAM", i, 0, NONE))
  /\ Calls(c)
  /\ UNCHANGED <<relayVars, page, memberId, entry, nextSeq, throttled>>

\* js_net_publish_public and js_net_unlist_public, for st.isCreator
PageLists(c) ==
  /\ page[c] = "ready" /\ memberId[c] = 1
  /\ Sends(c, [kind |-> IF c \in listed THEN "UNLIST" ELSE "PUBLISH"])
  /\ Calls(c)
  /\ UNCHANGED <<relayVars, page, memberId, entry, nextSeq, throttled>>

-----------------------------------------------------------------------------
(* The relay handles what has come up.                                      *)

RelayReceives(c) ==
  /\ up[c] # <<>>
  /\ up' = [up EXCEPT ![c] = Tail(@)]
  /\ \/ /\ Receive(c, Head(up[c]))
        /\ UNCHANGED throttled
     \/ /\ c \in MayBeThrottled
        /\ Throttle(c)
        /\ throttled' = throttled \cup {c}
  /\ UNCHANGED pageVars

\* The close event; what is still on its way from the client is not read any more.
RelayNotices(c) ==
  /\ SocketCloses(c)
  /\ up' = [up EXCEPT ![c] = <<>>]
  /\ UNCHANGED <<pageVars, throttled>>

RelayTimers ==
  /\ \/ Shutdown
     \/ \E c \in Connection : HelloTimeout(c)
     \/ \E c \in hungUp \cup MayAnswerLate : HeartbeatTimeout(c)
  /\ UNCHANGED <<pageVars, up, throttled>>

NetInit ==
  /\ RelayInit
  /\ page = [c \in Connection |-> "none"]
  /\ memberId = [c \in Connection |-> 0]
  /\ entry = [c \in Connection |-> [s \in StreamId |-> NoEntry]]
  /\ nextSeq = [c \in Connection |-> 1]
  /\ callsLeft = MaxCalls
  /\ up = [c \in Connection |-> <<>>]
  /\ throttled = {}

NetNext ==
  \/ \E c \in Connection :
       \/ Connect(c) \/ PageCloses(c) \/ PageReceives(c)
       \/ PageOpens(c) \/ PageSendsDgram(c) \/ PageLists(c)
       \/ \E s \in StreamId : PageSends(c, s) \/ PageClosesStream(c, s)
       \/ RelayReceives(c) \/ RelayNotices(c)
  \/ RelayTimers

NetSpec == NetInit /\ [][NetNext]_netVars

\* Somebody gets rid of a connection that is over: the interval timer terminates it, and a socket that
\* is closing gets its close event, after an answer or after the deadline's terminate.
Disposes(c) ==
  \/ socket[c] = "open" /\ c \in hungUp /\ HeartbeatTimeout(c) /\ UNCHANGED <<pageVars, up, throttled>>
  \/ socket[c] = "closing" /\ RelayNotices(c)

FairNetSpec == NetSpec /\ \A c \in Connection : WF_netVars(Disposes(c))

-----------------------------------------------------------------------------
(* Properties                                                               *)

NetTypeOK ==
  /\ RelayTypeOK
  /\ page \in [Connection -> {"none", "connecting", "ready", "over"}]
  /\ \A c \in Connection : c \in hungUp <=> page[c] = "over"
  /\ \A c \in Connection : page[c] = "ready" => memberId[c] = myId[c]
  /\ \A c \in Connection, s \in StreamId : entry[c][s] # NoEntry => page[c] = "ready"

\* Two connections of a room have had the same member id, one after the other.  Stream ids are made of
\* member ids, so theirs may be the same too.
IdReused(r) ==
  \E c, d \in Connection : c # d /\ room[c] = r /\ room[d] = r /\ myId[c] = myId[d]

\* The other end of c's stream s: who opened it, or the gatherer.
OtherEnd(c, s) == IF entry[c][s].opener = c THEN room[c] ELSE entry[c][s].opener

Delivers(c, s) ==
  \A k \in DOMAIN entry[c][s].chunks :
    entry[c][s].chunks[k] =
      [body |-> [opener |-> entry[c][s].opener, n |-> k], from |-> OtherEnd(c, s)]

\* "relay-routed byte streams (reliable, ordered)", NetworkInterfaceWasm.h:12: what has come out of one
\* end of a stream is what the other end put into it, from the first chunk on, as long as no member id
\* was used twice in the room and the sender was not throttled.  Sockets that close, full buffers and
\* members that leave cut a stream off at its end only.
StreamsDeliverInOrder ==
  \A c \in Connection, s \in StreamId :
    /\ entry[c][s] # NoEntry
    /\ ~IdReused(room[c])
    /\ OtherEnd(c, s) \notin throttled
    => Delivers(c, s)

Underway(wire, kinds, s) == \E k \in DOMAIN wire : wire[k].kind \in kinds /\ wire[k].stream = s

\* No stream stays open at one end only: if the other end does not have it open, it is being opened
\* or closed there, or news of its end are on the way.
NoHalfOpenStreams ==
  \A c \in Connection, s \in StreamId :
    LET d == OtherEnd(c, s)
    IN  /\ entry[c][s].open
        /\ socket[c] = "open" /\ ~IdReused(room[c])
        => \/ entry[d][s].open /\ entry[d][s].opener = entry[c][s].opener
           \/ Underway(up[c], {"OPEN"}, s) \/ Underway(down[d], {"OPEN"}, s)
           \/ Underway(up[d], {"CLOSE"}, s) \/ Underway(down[c], {"CLOSE"}, s)
           \/ \E k \in DOMAIN down[c] : down[c][k].kind = "PEER_LEFT"
           \/ Present(d) /\ (socket[d] = "closing" \/ d \in hungUp)

\* The engine's pages know the relay's rules: what they send, after HELLO, is never a bad frame, for
\* which they would be thrown out.
EngineFramesAccepted ==
  \A c \in Connection :
    page[c] = "ready" /\ up[c] # <<>> /\ Present(c) => Acceptable(c, Head(up[c]))

\* A room whose creator has left is empty in the end: everybody in it is thrown out, those included
\* who do not answer any more.
ClosedRoomsEmpty ==
  (\E r \in closed : MembersOf(r) # {}) ~> (\A r \in closed : MembersOf(r) = {})
=============================================================================
