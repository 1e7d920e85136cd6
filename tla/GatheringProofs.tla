-------------------------- MODULE GatheringProofs --------------------------
(***************************************************************************)
(* How a game comes together, for any number of joiners and players: the   *)
(* gatherer's lists agree, every waiting joiner gets the topology, whoever *)
(* starts has the final one, and it does not change afterwards.            *)
(*                                                                         *)
(* The invariant goes through the conversation of the gatherer with each   *)
(* joiner.  A step of the gatherer's is taken apart into the operators     *)
(* that it is made of; what they keep is kept by the loops that apply      *)
(* them.  The order is: induction, the invariant, facts about its values,  *)
(* the gatherer's operators, his loops and actions, the joiners' messages  *)
(* and actions, the theorems.                                              *)
(***************************************************************************)
EXTENDS Gathering, SequenceTheorems, FiniteSetTheorems, WellFoundedInduction, TLAPS

----------------------------------------------------------------------------
(* Induction over the naturals, for sets.                                   *)

\* A set of naturals that is not empty has a least element.
LEMMA LeastNatural ==
  ASSUME NEW T \in SUBSET Nat, T # {}
  PROVE  \E x \in T : \A y \in T : x <= y
<1> DEFINE R == OpToRel(<, Nat)
<1>1. IsWellFoundedOn(R, Nat)
  BY NatLessThanWellFounded
<1>2. \A x, y \in Nat : x < y => <<x, y>> \in R
  BY DEF OpToRel
<1>3. PICK x \in T : \A y \in T : ~ (<<y, x>> \in R)
  <2> HIDE DEF R
  <2> QED
    BY <1>1, WFMin, Zenon
<1>4. ASSUME NEW y \in T PROVE x <= y
  <2> HIDE DEF R
  <2>1. x \in Nat /\ y \in Nat
    OBVIOUS
  <2>2. ~ (y < x)
    BY <1>2, <1>3, <2>1
  <2> QED
    BY <2>1, <2>2
<1> QED
  BY <1>4

\* A set that holds 0 and, with a natural, its successor holds them all.
LEMMA SetInduction ==
  ASSUME NEW S, 0 \in S, \A n \in Nat : n \in S => n + 1 \in S
  PROVE  Nat \subseteq S
<1>1. SUFFICES ASSUME Nat \ S # {} PROVE FALSE
  OBVIOUS
<1>2. PICK x \in Nat \ S : \A y \in Nat \ S : x <= y
  <2>1. Nat \ S \in SUBSET Nat
    OBVIOUS
  <2> QED
    BY <1>1, <2>1, LeastNatural, Zenon
<1>3. x # 0 /\ x - 1 \in Nat
  BY <1>2
<1>4. x - 1 \in S
  BY <1>2, <1>3
<1>5. x - 1 + 1 \in S
  BY <1>3, <1>4
<1> QED
  BY <1>2, <1>5

Loop(h, n, start, step) == h = [i \in 0 .. n |-> IF i = 0 THEN start ELSE step[i][h[i - 1]]]

\* A loop that starts with a value and makes a step for each index has a result.
LEMMA LoopsEnd ==
  ASSUME NEW n \in Nat, NEW start, NEW step
  PROVE  \E h : Loop(h, n, start, step)
<1> DEFINE Runs(h, m) == Loop(h, m, start, step)
           S == {m \in Nat : \E h : Runs(h, m)}
<1>1. 0 \in S
  <2>1. Runs([i \in 0 .. 0 |-> start], 0)
    BY DEF Loop
  <2> QED
    BY <2>1
<1>2. ASSUME NEW m \in Nat, m \in S PROVE m + 1 \in S
  <2>1. PICK h : Runs(h, m)
    BY <1>2
  <2> DEFINE k == [i \in 0 .. m + 1 |-> IF i = m + 1 THEN step[i][h[m]] ELSE h[i]]
  <2>2. ASSUME NEW i \in 0 .. m + 1
        PROVE  k[i] = IF i = 0 THEN start ELSE step[i][k[i - 1]]
    <3>1. CASE i = m + 1
      BY <3>1
    <3>2. CASE i # m + 1
      <4>1. i \in 0 .. m
        BY <3>2
      <4>2. h[i] = IF i = 0 THEN start ELSE step[i][h[i - 1]]
        BY <2>1, <4>1 DEF Loop
      <4>3. i # 0 => i - 1 \in 0 .. m + 1 /\ i - 1 # m + 1
        BY <4>1
      <4> QED
        BY <3>2, <4>2, <4>3
    <3> QED
      BY <3>1, <3>2
  <2>3. Runs(k, m + 1)
    BY <2>2 DEF Loop
  <2> HIDE DEF k, Runs
  <2> QED
    BY <2>3
<1>3. n \in S
  <2> HIDE DEF S
  <2> QED
    BY <1>1, <1>2, SetInduction
<1> QED
  BY <1>3

\* What holds before a loop and is kept by each of its steps holds after it.
LEMMA LoopsKeep ==
  ASSUME NEW n \in Nat, NEW T, NEW d, d[0] \in T[0],
         \A i \in 1 .. n : d[i - 1] \in T[i - 1] => d[i] \in T[i]
  PROVE  d[n] \in T[n]
<1> DEFINE S == {m \in Nat : m <= n => d[m] \in T[m]}
<1>1. 0 \in S
  OBVIOUS
<1>2. ASSUME NEW m \in Nat, m \in S PROVE m + 1 \in S
  <2>1. CASE m + 1 <= n
    <3>1. d[m] \in T[m] /\ m + 1 \in 1 .. n /\ m + 1 - 1 = m
      BY <1>2, <2>1
    <3> QED
      BY <3>1
  <2> QED
    BY <2>1
<1>3. n \in S
  <2> HIDE DEF S
  <2> QED
    BY <1>1, <1>2, SetInduction
<1> QED
  BY <1>3

----------------------------------------------------------------------------
(* The values of the state. *)

Players == [identifier : Nat, stream : 0 .. NumJoiners]
Messages ==
  {Hello, JoinerInfo, GameSession, EndGameData}
    \cup [type : {"capabilities"}, gatherable : BOOLEAN]
    \cup [type : {"join_player", "accept_join"}, identifier : Nat]
    \cup [type : {"topology"}, players : Seq(Players),
          tag : {"new_player", "dropped_player", "start_game", "cancel_game"}]

Gatherers ==
  [net : {"gathering", "active", "down"}, clients : [Joiners -> {"no_client"} \cup ClientStates],
   up : SUBSET Joiners, players : Seq(Players), nextIdentifier : Nat,
   ungathered : SUBSET Joiners, startable : BOOLEAN, out : [Joiners -> Seq(Messages)],
   wire : [Joiners -> Seq(Messages)]]

JoinerRecords ==
  [net : JoinerStates,
   handler : {"awaiting_hello", "joining", "waiting", "new_player", "dropped_player",
              "start_game", "cancel_game"},
   identifier : Nat, session : BOOLEAN, players : Seq(Players), inbox : Seq(Messages),
   reply : {<< >>}]

----------------------------------------------------------------------------
(* The inductive invariant.  The identifiers that the gatherer has given    *)
(* are not kept anywhere once they are sent: `a' says who has which.        *)

Candidates == {"connecting", "awaiting_capabilities", "not_yet_shown", "connected", "ungatherable"}
Members == {"awaiting_map", "in_game"}

\* The identifiers 1, 2, ... have been given, each to one joiner; the others have 0.
Assigns(g, a) ==
  /\ \A s, t \in Joiners : a[s] = a[t] /\ a[s] # 0 => s = t
  /\ \A s \in Joiners : a[s] < g.nextIdentifier
  /\ Cardinality({s \in Joiners : a[s] # 0}) + 1 = g.nextIdentifier

\* The players are the gatherer and its members, each once and under his identifier.
Roster(g, a) ==
  /\ Len(g.players) >= 1 /\ g.players[1] = ThisPlayer
  /\ \A k \in 2 .. Len(g.players) :
       /\ g.players[k].stream \in Joiners
       /\ g.players[k].identifier = a[g.players[k].stream] /\ a[g.players[k].stream] # 0
  /\ \A k, l \in 2 .. Len(g.players) : g.players[k].stream = g.players[l].stream => k = l
  /\ g.net # "down" => \A s \in Joiners : g.clients[s] \in Members <=> s \in Streams(g.players)

\* What the clients can be while the dialog is open, in the game, and afterwards.
Stage(g) ==
  /\ g.net = "gathering" =>
       /\ g.ungathered = InState(g, "connected") /\ g.startable = (Len(g.players) > 1)
       /\ \A s \in Joiners : g.clients[s] # "in_game"
  /\ g.net = "active" =>
       \A s \in Joiners : g.clients[s] \notin {"connected", "awaiting_accept_join", "awaiting_map"}
  /\ g.net = "down" => \A s \in Joiners : g.clients[s] = "no_client"

FindsItself(players, i, s) ==
  \E k \in DOMAIN players :
    /\ players[k].identifier = i /\ players[k].stream \in {0, s}
    /\ \A l \in DOMAIN players : players[l].identifier = i => l = k

(* A conversation between the gatherer and a joiner whose end is open: c is *)
(* what the gatherer thinks of him, pend is what is under way to him, rest  *)
(* what is under way from him.                                              *)

Greets(c, pend, rest, j) ==
  /\ j.net = "joining" /\ j.handler = "awaiting_hello" /\ rest = << >>
  /\ \/ c = "no_client" /\ pend = << >>
     \/ c \in {"no_client", "connecting"} /\ pend = <<Hello>>

Introduces(s, i, c, pend, rest, j) ==
  /\ j.net = "joining" /\ j.handler = "joining"
  /\ \/ pend = << >> /\ rest = <<JoinerInfo>> /\ c \in {"no_client", "connecting"}
     \/ /\ pend = << >> /\ rest = << >>
        /\ c \in {"no_client", "connecting", "not_yet_shown", "connected", "ungatherable"}
     \/ pend = <<CapabilitiesOf(0)>> /\ rest = << >> /\ c \in {"no_client", "awaiting_capabilities"}
     \/ pend = << >> /\ rest = <<CapabilitiesOf(s)>> /\ c \in {"no_client", "awaiting_capabilities"}
     \/ /\ pend = <<JoinPlayer(i)>> /\ rest = << >> /\ i # 0
        /\ c \in {"no_client", "awaiting_accept_join"}

Accepts(i, c, pend, rest, j) ==
  /\ j.net = "waiting" /\ pend = << >>
  /\ rest = <<AcceptJoin(i)>> /\ c \in {"no_client", "awaiting_accept_join"}

\* A member hears of the session first, then of every change, and at last of the start.
IsTopology(m, i, s) == m.type = "topology" /\ FindsItself(m.players, i, s)
Announces(s, i, c, pend) ==
  \A k \in DOMAIN pend :
    \/ k = 1 /\ pend[k] = GameSession
    \/ IsTopology(pend[k], i, s) /\ pend[k].tag \in {"new_player", "dropped_player"}
    \/ /\ c = "in_game" /\ k = Len(pend) - 1
       /\ IsTopology(pend[k], i, s) /\ pend[k].tag = "start_game"
    \/ c = "in_game" /\ k = Len(pend) /\ pend[k] = EndGameData

Starts(pend) ==
  /\ Len(pend) > 1 /\ pend[Len(pend)] = EndGameData
  /\ pend[Len(pend) - 1].type = "topology" /\ pend[Len(pend) - 1].tag = "start_game"

HasSession(c, pend, j) ==
  \/ j.session
  \/ c = "no_client" /\ pend = << >>
  \/ pend # << >> /\ pend[1] = GameSession

\* The last topology is the one of the gatherer.
Updates(players, pend, j) ==
  /\ (\A k \in DOMAIN pend : pend[k].type # "topology") => j.players = players
  /\ \A k \in DOMAIN pend :
       /\ pend[k].type = "topology"
       /\ \A l \in DOMAIN pend : pend[l].type = "topology" => l <= k
       => pend[k].players = players

Waits(s, i, c, players, pend, rest, j) ==
  /\ j.net = "waiting" /\ rest = << >> /\ c \in {"no_client"} \cup Members
  /\ Announces(s, i, c, pend) /\ HasSession(c, pend, j)
  /\ c = "in_game" => Starts(pend)
  /\ c # "no_client" => Updates(players, pend, j)

Plays(c, players, pend, rest, j) ==
  /\ j.net \in {"starting_up", "active"} /\ rest = << >> /\ c = "in_game"
  /\ j.session /\ j.players = players
  /\ pend = IF j.net = "starting_up" THEN <<EndGameData>> ELSE << >>

Linked(s, i, c, players, pend, rest, j) ==
  \/ Greets(c, pend, rest, j)
  \/ Introduces(s, i, c, pend, rest, j)
  \/ Accepts(i, c, pend, rest, j)
  \/ Waits(s, i, c, players, pend, rest, j)
  \/ Plays(c, players, pend, rest, j)

\* What remains of it when the joiner's end is closed, or not open yet.
Leaves(s, i, c, net, players, rest, j) ==
  /\ \/ rest = << >>
     \/ rest = <<JoinerInfo>> /\ c \in {"no_client", "connecting"}
     \/ rest = <<CapabilitiesOf(s)>> /\ c \in {"no_client", "awaiting_capabilities"}
     \/ rest = <<AcceptJoin(i)>> /\ i # 0 /\ c \in {"no_client", "awaiting_accept_join"}
  /\ j.net = "connecting" => c = "no_client" /\ i = 0 /\ rest = << >> /\ j = NewJoiner
  /\ j.net \in {"starting_up", "active"} =>
       /\ net = "active" /\ j.session /\ j.players = players
       /\ \/ j.inbox = << >>
          \/ j.net = "starting_up" /\ j.inbox = <<EndGameData>>

Knows(s, i, j) ==
  IF j.net \in {"waiting", "starting_up", "active"}
  THEN i # 0 /\ j.identifier = i /\ FindsItself(j.players, i, s)
  ELSE /\ j.identifier \in {0, i}
       /\ j.net = "joining" => j.players = <<ThisPlayer>>

Coming(s, g, j) == j.inbox \o (g.wire[s] \o g.out[s])

Talks(s, i, g, rest, j, links, knocks) ==
  /\ g.clients[s] \in Candidates => i = 0
  /\ g.clients[s] \in Members \cup {"awaiting_accept_join"} => i # 0
  /\ s \in g.up => g.clients[s] # "no_client"
  /\ s \notin g.up => g.out[s] = << >> /\ (s \in links => g.clients[s] = "no_client")
  /\ Knows(s, i, j)
  /\ s \in knocks =>
       /\ g.clients[s] = "no_client" /\ i = 0 /\ rest = << >> /\ j.net # "connecting"
       /\ s \in links => j.handler = "awaiting_hello" /\ Coming(s, g, j) = << >>
  /\ s \in links => Linked(s, i, g.clients[s], g.players, Coming(s, g, j), rest, j)
  /\ s \notin links =>
       g.wire[s] = << >> /\ Leaves(s, i, g.clients[s], g.net, g.players, rest, j)

Fits(g, a, rest, js, links, knocks) ==
  /\ Assigns(g, a) /\ Roster(g, a) /\ Stage(g)
  /\ \A s \in Joiners : Talks(s, a[s], g, rest[s], js[s], links, knocks)

GatheringTyped ==
  /\ OnTheWire \in Gatherers /\ gatherer = OffTheWire(OnTheWire)
  /\ joiner \in [Joiners -> JoinerRecords]
  /\ toGatherer \in [Joiners -> Seq(Messages)]
  /\ knocking \in SUBSET Joiners /\ linked \in SUBSET Joiners

GatheringInvariant ==
  /\ GatheringTyped
  /\ \E a \in [Joiners -> Nat] : Fits(OnTheWire, a, toGatherer, joiner, linked, knocking)

----------------------------------------------------------------------------
(* Facts about the values. *)

\* The messages that are sent are messages.
LEMMA MessagesAreMessages ==
  /\ Hello \in Messages /\ JoinerInfo \in Messages
  /\ GameSession \in Messages /\ EndGameData \in Messages
  /\ \A s \in Nat : CapabilitiesOf(s) \in Messages
  /\ \A i \in Nat : JoinPlayer(i) \in Messages /\ AcceptJoin(i) \in Messages
  /\ \A tag \in {"new_player", "dropped_player", "start_game", "cancel_game"},
        p \in Seq(Players) : Topology(tag, p) \in Messages
<1>1. Hello \in Messages /\ JoinerInfo \in Messages
      /\ GameSession \in Messages /\ EndGameData \in Messages
  BY DEF Messages
<1>2. \A s \in Nat : CapabilitiesOf(s) \in Messages
  BY DEF Messages, CapabilitiesOf
<1>3. \A i \in Nat : JoinPlayer(i) \in Messages /\ AcceptJoin(i) \in Messages
  BY DEF Messages, JoinPlayer, AcceptJoin
<1>4. \A tag \in {"new_player", "dropped_player", "start_game", "cancel_game"},
         p \in Seq(Players) : Topology(tag, p) \in Messages
  BY DEF Messages, Topology
<1> QED
  BY <1>1, <1>2, <1>3, <1>4

\* Sending what is queued leaves what is under way as it is.
LEMMA FlushingKeepsLine ==
  ASSUME NEW inbox \in Seq(Messages), NEW wire \in Seq(Messages), NEW out \in Seq(Messages)
  PROVE  inbox \o ((wire \o out) \o << >>) = inbox \o (wire \o out)
<1>1. wire \o out \in Seq(Messages)
  BY ConcatProperties
<1> QED
  BY <1>1, ConcatEmptySeq

\* A message is queued behind everything that is under way.
LEMMA QueuedIsLast ==
  ASSUME NEW inbox \in Seq(Messages), NEW wire \in Seq(Messages), NEW out \in Seq(Messages),
         NEW m \in Messages
  PROVE  /\ inbox \o (wire \o Append(out, m)) = Append(inbox \o (wire \o out), m)
         /\ inbox \o (wire \o out) \in Seq(Messages)
<1>1. wire \o out \in Seq(Messages) /\ <<m>> \in Seq(Messages)
  BY ConcatProperties
<1>2. Append(out, m) = out \o <<m>>
  BY AppendIsConcat
<1>3. wire \o (out \o <<m>>) = (wire \o out) \o <<m>>
  BY <1>1, ConcatAssociative
<1>4. inbox \o ((wire \o out) \o <<m>>) = (inbox \o (wire \o out)) \o <<m>>
  BY <1>1, ConcatAssociative
<1>5. inbox \o (wire \o out) \in Seq(Messages)
  BY <1>1, ConcatProperties
<1>6. (inbox \o (wire \o out)) \o <<m>> = Append(inbox \o (wire \o out), m)
  BY <1>5, AppendIsConcat
<1> QED
  BY <1>2, <1>3, <1>4, <1>5, <1>6

\* There are NumJoiners joiners.
LEMMA JoinersAreFinite == IsFiniteSet(Joiners) /\ Cardinality(Joiners) = NumJoiners
  BY GatheringAssumption, FS_Interval DEF Joiners

\* A conversation is not disturbed by what happens to other clients.
LEMMA OthersGoOn ==
  ASSUME NEW t, NEW i, NEW g, NEW h, NEW rest, NEW j, NEW links, NEW knocks, NEW knocksAfter,
         h.net = g.net, h.players = g.players, h.clients[t] = g.clients[t],
         h.wire[t] = g.wire[t], h.out[t] = g.out[t], t \in h.up <=> t \in g.up,
         t \in knocksAfter => t \in knocks,
         Talks(t, i, g, rest, j, links, knocks)
  PROVE  Talks(t, i, h, rest, j, links, knocksAfter)
  BY DEF Talks, Coming

----------------------------------------------------------------------------
(* What the gatherer sends, and how its lists change. *)

\* What a channel has queued is sent.
LEMMA FlushedFits ==
  ASSUME NEW g \in Gatherers, NEW a, NEW rest \in [Joiners -> Seq(Messages)],
         NEW js \in [Joiners -> JoinerRecords], NEW knocks, NEW S,
         Fits(g, a, rest, js, linked, knocks)
  PROVE  /\ Flushed(g, S) \in Gatherers
         /\ Fits(Flushed(g, S), a, rest, js, linked, knocks)
<1> DEFINE h == Flushed(g, S)
<1>1. \A s \in Joiners : g.wire[s] \in Seq(Messages) /\ g.out[s] \in Seq(Messages)
                         /\ js[s].inbox \in Seq(Messages)
  BY DEF Gatherers, JoinerRecords
<1>2. /\ h.net = g.net /\ h.players = g.players /\ h.clients = g.clients /\ h.up = g.up
      /\ h.nextIdentifier = g.nextIdentifier /\ h.ungathered = g.ungathered
      /\ h.startable = g.startable
      /\ \A s \in Joiners :
           /\ h.wire[s] = IF s \in S \cap linked THEN g.wire[s] \o g.out[s] ELSE g.wire[s]
           /\ h.out[s] = IF s \in S THEN << >> ELSE g.out[s]
  BY DEF Flushed, Gatherers
<1>3. h \in Gatherers
  <2>1. \A s \in Joiners : g.wire[s] \o g.out[s] \in Seq(Messages) /\ << >> \in Seq(Messages)
    BY <1>1, ConcatProperties
  <2> QED
    BY <2>1 DEF Flushed, Gatherers
<1>4. ASSUME NEW s \in Joiners PROVE Talks(s, a[s], h, rest[s], js[s], linked, knocks)
  <2>1. Talks(s, a[s], g, rest[s], js[s], linked, knocks)
    BY DEF Fits
  <2>2. CASE s \in S /\ s \in linked
    <3>1. Coming(s, h, js[s]) = Coming(s, g, js[s])
      <4>1. h.wire[s] = g.wire[s] \o g.out[s] /\ h.out[s] = << >>
        BY <1>2, <2>2
      <4> HIDE DEF h
      <4> QED
        BY <1>1, <4>1, FlushingKeepsLine DEF Coming
    <3> HIDE DEF h
    <3> QED
      BY <1>2, <2>1, <2>2, <3>1 DEF Talks
  <2>3. CASE s \in S /\ s \notin linked
    <3> HIDE DEF h
    <3> QED
      BY <1>2, <2>1, <2>3 DEF Talks
  <2>4. CASE s \notin S
    <3> HIDE DEF h
    <3> QED
      BY <1>2, <2>1, <2>4, OthersGoOn
  <2> QED
    BY <2>2, <2>3, <2>4
<1>5. Assigns(h, a) /\ Roster(h, a) /\ Stage(h)
  <2>1. Assigns(g, a) /\ Roster(g, a) /\ Stage(g)
    BY DEF Fits
  <2> HIDE DEF h
  <2> QED
    BY <1>2, <2>1 DEF Assigns, Roster, Stage, InState
<1> HIDE DEF h
<1> QED
  BY <1>3, <1>4, <1>5 DEF Fits, h

\* Nothing more is sent on a channel whose end has shown.
LEMMA EndShownFits ==
  ASSUME NEW g \in Gatherers, NEW a, NEW rest, NEW js, NEW knocks, NEW s \in Joiners,
         Fits(g, a, rest, js, linked, knocks), s \notin linked, g.out[s] = << >>
  PROVE  /\ [g EXCEPT !.up = @ \ {s}] \in Gatherers
         /\ Fits([g EXCEPT !.up = @ \ {s}], a, rest, js, linked, knocks)
<1> DEFINE h == [g EXCEPT !.up = @ \ {s}]
<1>1. h \in Gatherers
  BY DEF Gatherers
<1>2. /\ h.net = g.net /\ h.players = g.players /\ h.clients = g.clients /\ h.up = g.up \ {s}
      /\ h.nextIdentifier = g.nextIdentifier /\ h.ungathered = g.ungathered
      /\ h.startable = g.startable /\ h.wire = g.wire /\ h.out = g.out
  BY DEF Gatherers
<1> HIDE DEF h
<1>3. ASSUME NEW t \in Joiners PROVE Talks(t, a[t], h, rest[t], js[t], linked, knocks)
  <2>1. Talks(t, a[t], g, rest[t], js[t], linked, knocks)
    BY DEF Fits
  <2>2. CASE t = s
    BY <1>2, <2>1, <2>2 DEF Talks, Coming
  <2>3. CASE t # s
    BY <1>2, <2>1, <2>3, OthersGoOn
  <2> QED
    BY <2>2, <2>3
<1>4. Assigns(h, a) /\ Roster(h, a) /\ Stage(h)
  BY <1>2 DEF Fits, Assigns, Roster, Stage, InState
<1> QED
  BY <1>1, <1>3, <1>4 DEF Fits, h

\* What a joiner who has gone has sent can be lost.
LEMMA LossFits ==
  ASSUME NEW g, NEW a, NEW rest \in [Joiners -> Seq(Messages)], NEW js, NEW knocks,
         NEW s \in Joiners, Fits(g, a, rest, js, linked, knocks), s \notin linked
  PROVE  Fits(g, a, [rest EXCEPT ![s] = << >>], js, linked, knocks)
<1>1. ASSUME NEW t \in Joiners
      PROVE  Talks(t, a[t], g, [rest EXCEPT ![s] = << >>][t], js[t], linked, knocks)
  <2>1. Talks(t, a[t], g, rest[t], js[t], linked, knocks)
    BY DEF Fits
  <2>2. CASE t = s
    <3>1. [rest EXCEPT ![s] = << >>][t] = << >>
      BY <2>2
    <3> QED
      BY <2>1, <2>2, <3>1 DEF Talks, Leaves
  <2>3. CASE t # s
    BY <2>1, <2>3
  <2> QED
    BY <2>2, <2>3
<1> QED
  BY <1>1 DEF Fits

\* The players of a list find themselves in it.
LEMMA PlayersAreFound ==
  ASSUME NEW g \in Gatherers, NEW a, Assigns(g, a), Roster(g, a),
         NEW t \in Joiners, t \in Streams(g.players)
  PROVE  FindsItself(g.players, a[t], t)
<1>1. PICK k \in DOMAIN g.players : g.players[k].stream = t
  BY DEF Streams
<1>2. DOMAIN g.players = 1 .. Len(g.players) /\ Len(g.players) \in Nat
  BY DEF Gatherers
<1>3. t # 0
  BY DEF Joiners
<1>4. k \in 2 .. Len(g.players) /\ g.players[1].identifier = 0
  BY <1>1, <1>2, <1>3 DEF Roster, ThisPlayer
<1>5. g.players[k].identifier = a[t] /\ a[t] # 0
  BY <1>1, <1>4 DEF Roster
<1>6. ASSUME NEW l \in DOMAIN g.players, g.players[l].identifier = a[t] PROVE l = k
  <2>1. l \in 2 .. Len(g.players)
    BY <1>2, <1>4, <1>5, <1>6
  <2>2. g.players[l].stream \in Joiners /\ a[g.players[l].stream] = a[t]
    BY <1>6, <2>1 DEF Roster
  <2>3. g.players[l].stream = t
    BY <1>5, <2>2 DEF Assigns
  <2> QED
    BY <1>1, <1>4, <2>1, <2>3 DEF Roster
<1> QED
  BY <1>1, <1>5, <1>6 DEF FindsItself

\* A member goes on waiting when the players change and he is told.
LEMMA WaitsForMore ==
  ASSUME NEW s, NEW i, NEW players, NEW after \in Seq(Players), NEW pend \in Seq(Messages),
         NEW rest, NEW j, NEW tag \in {"new_player", "dropped_player"},
         Waits(s, i, "awaiting_map", players, pend, rest, j), FindsItself(after, i, s)
  PROVE  Waits(s, i, "awaiting_map", after, Append(pend, Topology(tag, after)), rest, j)
<1> DEFINE m == Topology(tag, after)
           more == Append(pend, m)
<1>1. m \in Messages /\ m.type = "topology" /\ m.players = after /\ m.tag = tag
  BY MessagesAreMessages DEF Topology
<1> HIDE DEF m
<1>2. /\ DOMAIN more = 1 .. Len(pend) + 1 /\ DOMAIN pend = 1 .. Len(pend) /\ Len(pend) \in Nat
      /\ Len(more) = Len(pend) + 1 /\ more[Len(pend) + 1] = m
      /\ \A k \in 1 .. Len(pend) : more[k] = pend[k]
      /\ more # << >>
  BY <1>1, AppendProperties, LenProperties
<1> HIDE DEF more
<1>3. Announces(s, i, "awaiting_map", more)
  <2> SUFFICES ASSUME NEW k \in DOMAIN more
               PROVE  \/ k = 1 /\ more[k] = GameSession
                      \/ IsTopology(more[k], i, s) /\ more[k].tag \in {"new_player", "dropped_player"}
    BY DEF Announces
  <2>1. CASE k = Len(pend) + 1
    BY <1>1, <1>2, <2>1 DEF IsTopology
  <2>2. CASE k # Len(pend) + 1
    <3>1. k \in DOMAIN pend /\ more[k] = pend[k]
      BY <1>2, <2>2
    <3>2. \/ k = 1 /\ pend[k] = GameSession
          \/ IsTopology(pend[k], i, s) /\ pend[k].tag \in {"new_player", "dropped_player"}
      BY <3>1 DEF Waits, Announces
    <3> QED
      BY <3>1, <3>2
  <2> QED
    BY <2>1, <2>2
<1>4. HasSession("awaiting_map", more, j)
  <2>1. j.session \/ (pend # << >> /\ pend[1] = GameSession)
    BY DEF Waits, HasSession
  <2>2. pend # << >> => more[1] = pend[1]
    BY <1>2, EmptySeq
  <2> QED
    BY <1>2, <2>1, <2>2 DEF HasSession
<1>5. Updates(after, more, j)
  <2>1. more[Len(pend) + 1].type = "topology" /\ Len(pend) + 1 \in DOMAIN more
    BY <1>1, <1>2
  <2>2. ASSUME NEW k \in DOMAIN more, \A l \in DOMAIN more : more[l].type = "topology" => l <= k
        PROVE  more[k].players = after
    <3>1. k = Len(pend) + 1
      BY <1>2, <2>1, <2>2
    <3> QED
      BY <1>1, <1>2, <3>1
  <2> QED
    BY <2>1, <2>2 DEF Updates
<1> QED
  BY <1>3, <1>4, <1>5 DEF Waits, m, more

\* A change of the players, told to those who are members before and after it.
LEMMA PlayersChange ==
  ASSUME NEW t \in Joiners, NEW i, NEW g \in Gatherers, NEW h \in Gatherers, NEW rest,
         NEW j \in JoinerRecords, NEW links, NEW knocks,
         NEW tag \in {"new_player", "dropped_player"},
         g.net = "gathering", h.net = "gathering", g.clients[t] # "in_game",
         h.clients[t] = g.clients[t], h.wire[t] = g.wire[t], t \in h.up <=> t \in g.up,
         h.out[t] = IF g.clients[t] \in Members /\ t \in g.up
                    THEN Append(g.out[t], Topology(tag, h.players)) ELSE g.out[t],
         g.clients[t] \in Members => FindsItself(h.players, i, t),
         Talks(t, i, g, rest, j, links, knocks)
  PROVE  Talks(t, i, h, rest, j, links, knocks)
<1>1. CASE t \in links /\ g.clients[t] \in Members
  <2>1. t \in g.up /\ g.clients[t] = "awaiting_map"
    BY <1>1 DEF Talks, Members
  <2>2. Waits(t, i, "awaiting_map", g.players, Coming(t, g, j), rest, j)
    BY <1>1, <2>1 DEF Talks, Linked, Greets, Introduces, Accepts, Plays
  <2>3. /\ Coming(t, h, j) = Append(Coming(t, g, j), Topology(tag, h.players))
        /\ Coming(t, g, j) \in Seq(Messages) /\ h.players \in Seq(Players)
    <3>1. h.players \in Seq(Players) /\ g.wire[t] \in Seq(Messages) /\ g.out[t] \in Seq(Messages)
          /\ j.inbox \in Seq(Messages)
      BY DEF Gatherers, JoinerRecords
    <3>2. Topology(tag, h.players) \in Messages
      BY <3>1, MessagesAreMessages
    <3>3. h.out[t] = Append(g.out[t], Topology(tag, h.players)) /\ h.wire[t] = g.wire[t]
      BY <1>1, <2>1
    <3>4. j.inbox \o (g.wire[t] \o Append(g.out[t], Topology(tag, h.players)))
            = Append(j.inbox \o (g.wire[t] \o g.out[t]), Topology(tag, h.players))
      <4> DEFINE m == Topology(tag, h.players)
                 wire == g.wire[t]
                 out == g.out[t]
                 inbox == j.inbox
      <4>1. /\ m \in Messages /\ wire \in Seq(Messages) /\ out \in Seq(Messages)
            /\ inbox \in Seq(Messages)
        BY <3>1, <3>2
      <4> HIDE DEF m, wire, out, inbox
      <4>2. inbox \o (wire \o Append(out, m)) = Append(inbox \o (wire \o out), m)
        BY <4>1, QueuedIsLast
      <4> QED
        BY <4>2 DEF m, wire, out, inbox
    <3>5. j.inbox \o (g.wire[t] \o g.out[t]) \in Seq(Messages)
      BY <3>1, <3>2, QueuedIsLast
    <3>6. Coming(t, h, j) = j.inbox \o (g.wire[t] \o Append(g.out[t], Topology(tag, h.players)))
      BY <3>3, Zenon DEF Coming
    <3>7. Coming(t, g, j) = j.inbox \o (g.wire[t] \o g.out[t])
      BY DEF Coming
    <3> QED
      BY <3>1, <3>4, <3>5, <3>6, <3>7, Zenon
  <2>4. Waits(t, i, "awaiting_map", h.players, Coming(t, h, j), rest, j)
    BY <1>1, <2>2, <2>3, WaitsForMore
  <2> QED
    BY <1>1, <2>1, <2>4 DEF Talks, Linked, Members
<1>2. CASE t \in links /\ g.clients[t] \notin Members
  <2>1. Coming(t, h, j) = Coming(t, g, j)
    BY <1>2 DEF Coming
  <2>2. Linked(t, i, g.clients[t], h.players, Coming(t, g, j), rest, j)
    BY <1>2 DEF Talks, Linked, Waits, Plays, Members
  <2> QED
    BY <1>2, <2>1, <2>2 DEF Talks
<1>3. CASE t \notin links
  <2>1. t \notin h.up => h.out[t] = << >>
    BY <1>3 DEF Talks
  <2>2. Leaves(t, i, h.clients[t], h.net, h.players, rest, j)
    BY <1>3 DEF Talks, Leaves
  <2>3. CASE t \in knocks
    BY <1>3, <2>1, <2>2, <2>3 DEF Talks
  <2> QED
    BY <1>3, <2>1, <2>2 DEF Talks
<1> QED
  BY <1>1, <1>2, <1>3

\* A joiner speaks in turn: what he has sent is one message, which his client waits for.
LEMMA RestIsOneMessage ==
  ASSUME NEW s, NEW i, NEW g, NEW rest, NEW j, NEW links, NEW knocks,
         Talks(s, i, g, rest, j, links, knocks), rest # << >>
  PROVE  \/ rest = <<JoinerInfo>> /\ g.clients[s] \in {"no_client", "connecting"}
         \/ rest = <<CapabilitiesOf(s)>> /\ g.clients[s] \in {"no_client", "awaiting_capabilities"}
         \/ /\ rest = <<AcceptJoin(i)>> /\ i # 0
            /\ g.clients[s] \in {"no_client", "awaiting_accept_join"}
<1>1. CASE s \in links
  <2>1. Linked(s, i, g.clients[s], g.players, Coming(s, g, j), rest, j) /\ Knows(s, i, j)
    BY <1>1 DEF Talks
  <2>2. CASE Greets(g.clients[s], Coming(s, g, j), rest, j)
    BY <2>2 DEF Greets
  <2>3. CASE Introduces(s, i, g.clients[s], Coming(s, g, j), rest, j)
    BY <2>3 DEF Introduces
  <2>4. CASE Accepts(i, g.clients[s], Coming(s, g, j), rest, j)
    BY <2>1, <2>4 DEF Accepts, Knows
  <2>5. CASE Waits(s, i, g.clients[s], g.players, Coming(s, g, j), rest, j)
    BY <2>5 DEF Waits
  <2>6. CASE Plays(g.clients[s], g.players, Coming(s, g, j), rest, j)
    BY <2>6 DEF Plays
  <2> QED
    BY <2>1, <2>2, <2>3, <2>4, <2>5, <2>6 DEF Linked
<1>2. CASE s \notin links
  BY <1>2 DEF Talks, Leaves
<1> QED
  BY <1>1, <1>2

\* All that holds of a client whose answer is awaited, when his conversation is all read.
LEMMA SentAndUnread ==
  ASSUME NEW s, NEW i, NEW g, NEW rest, NEW j, NEW links, NEW knocks,
         Talks(s, i, g, rest, j, links, knocks), rest # << >>, g.clients[s] # "no_client"
  PROVE  /\ s \notin knocks
         /\ s \in links =>
              /\ s \in g.up /\ Coming(s, g, j) = << >>
              /\ g.clients[s] \in Candidates => j.net = "joining" /\ j.handler = "joining"
              /\ g.clients[s] = "awaiting_accept_join" => j.net = "waiting"
         /\ s \notin g.up => g.out[s] = << >>
<1>1. s \notin knocks /\ (s \notin g.up => g.out[s] = << >>)
  BY DEF Talks
<1>2. ASSUME s \in links
      PROVE  /\ s \in g.up /\ Coming(s, g, j) = << >>
             /\ g.clients[s] \in Candidates => j.net = "joining" /\ j.handler = "joining"
             /\ g.clients[s] = "awaiting_accept_join" => j.net = "waiting"
  <2>1. Linked(s, i, g.clients[s], g.players, Coming(s, g, j), rest, j) /\ s \in g.up
    BY <1>2 DEF Talks
  <2>2. \/ Introduces(s, i, g.clients[s], Coming(s, g, j), rest, j)
        \/ Accepts(i, g.clients[s], Coming(s, g, j), rest, j)
    BY <2>1 DEF Linked, Greets, Waits, Plays
  <2>3. CASE Introduces(s, i, g.clients[s], Coming(s, g, j), rest, j)
    <3>1. Coming(s, g, j) = << >> /\ g.clients[s] # "awaiting_accept_join"
      BY <2>3 DEF Introduces
    <3> QED
      BY <2>1, <2>3, <3>1 DEF Introduces
  <2>4. CASE Accepts(i, g.clients[s], Coming(s, g, j), rest, j)
    BY <2>1, <2>4 DEF Accepts, Candidates
  <2> QED
    BY <2>2, <2>3, <2>4
<1> QED
  BY <1>1, <1>2

\* A message queued on a channel comes after everything that is under way.
LEMMA QueuedComes ==
  ASSUME NEW g \in Gatherers, NEW h, NEW s \in Joiners, NEW j \in JoinerRecords,
         NEW m \in Messages, h.wire[s] = g.wire[s], h.out[s] = Append(g.out[s], m)
  PROVE  Coming(s, h, j) = Append(Coming(s, g, j), m) /\ Coming(s, g, j) \in Seq(Messages)
<1> DEFINE wire == g.wire[s]
           out == g.out[s]
           inbox == j.inbox
<1>1. wire \in Seq(Messages) /\ out \in Seq(Messages) /\ inbox \in Seq(Messages)
  BY DEF Gatherers, JoinerRecords
<1>2. Coming(s, h, j) = inbox \o (wire \o Append(out, m)) /\ Coming(s, g, j) = inbox \o (wire \o out)
  BY DEF Coming
<1> HIDE DEF wire, out, inbox
<1>3. /\ inbox \o (wire \o Append(out, m)) = Append(inbox \o (wire \o out), m)
      /\ inbox \o (wire \o out) \in Seq(Messages)
  BY <1>1, QueuedIsLast
<1> QED
  BY <1>2, <1>3

\* A change that concerns one client, who does not become a player or stop being one.
ChangesOne(s, g, h) ==
  /\ h.net = g.net /\ h.players = g.players /\ h.wire = g.wire /\ h.up = g.up
  /\ h.nextIdentifier = g.nextIdentifier /\ h.startable = g.startable
  /\ \A t \in Joiners \ {s} : /\ h.clients[t] = g.clients[t] /\ h.out[t] = g.out[t]
                            /\ (t \in h.ungathered <=> t \in g.ungathered)
  /\ (h.clients[s] \in Members <=> g.clients[s] \in Members)
  /\ (h.clients[s] # "in_game" \/ g.clients[s] = "in_game")
  /\ h.net = "gathering" => (s \in h.ungathered <=> h.clients[s] = "connected")
  /\ h.net = "active" => h.clients[s] \notin {"connected", "awaiting_accept_join", "awaiting_map"}
  /\ h.net = "down" => h.clients[s] = "no_client"

----------------------------------------------------------------------------
(* What the gatherer makes of the messages of one client. *)

\* The state of one client changes, who neither becomes a member nor stops being one.
LEMMA OneClientChanges ==
  ASSUME NEW g \in Gatherers, NEW h \in Gatherers, NEW a, NEW rest, NEW restAfter,
         NEW js, NEW knocks, NEW s \in Joiners, Fits(g, a, rest, js, linked, knocks),
         ChangesOne(s, g, h), \A t \in Joiners \ {s} : restAfter[t] = rest[t],
         Talks(s, a[s], h, restAfter[s], js[s], linked, knocks)
  PROVE  Fits(h, a, restAfter, js, linked, knocks)
<1>0. /\ h.net = g.net /\ h.players = g.players /\ h.wire = g.wire /\ h.up = g.up
      /\ h.nextIdentifier = g.nextIdentifier /\ h.startable = g.startable
      /\ \A t \in Joiners \ {s} : /\ h.clients[t] = g.clients[t] /\ h.out[t] = g.out[t]
                                /\ (t \in h.ungathered <=> t \in g.ungathered)
      /\ (h.clients[s] \in Members <=> g.clients[s] \in Members)
      /\ (h.clients[s] # "in_game" \/ g.clients[s] = "in_game")
      /\ h.net = "gathering" => (s \in h.ungathered <=> h.clients[s] = "connected")
      /\ h.net = "active" => h.clients[s] \notin {"connected", "awaiting_accept_join", "awaiting_map"}
      /\ h.net = "down" => h.clients[s] = "no_client"
  BY DEF ChangesOne
<1>1. Assigns(g, a) /\ Roster(g, a) /\ Stage(g)
  BY DEF Fits
<1>2. Assigns(h, a)
  BY <1>0, <1>1 DEF Assigns
<1>3. Roster(h, a)
  BY <1>0, <1>1 DEF Roster
<1>4. ASSUME h.net = "gathering"
      PROVE  /\ h.ungathered = InState(h, "connected") /\ h.startable = (Len(h.players) > 1)
             /\ \A t \in Joiners : h.clients[t] # "in_game"
  <2>1. /\ g.ungathered = InState(g, "connected") /\ g.startable = (Len(g.players) > 1)
        /\ \A t \in Joiners : g.clients[t] # "in_game"
    BY <1>0, <1>1, <1>4 DEF Stage
  <2>2. \A t \in Joiners : t \in h.ungathered <=> h.clients[t] = "connected"
    BY <1>0, <1>4, <2>1 DEF InState
  <2>3. h.ungathered \subseteq Joiners
    BY DEF Gatherers
  <2>4. h.ungathered = InState(h, "connected")
    BY <2>2, <2>3 DEF InState
  <2>5. h.startable = (Len(h.players) > 1)
    BY <1>0, <2>1, Zenon
  <2>6. \A t \in Joiners : h.clients[t] # "in_game"
    BY <1>0, <2>1
  <2> QED
    BY <2>4, <2>5, <2>6, Zenon
<1>5. Stage(h)
  BY <1>0, <1>1, <1>4 DEF Stage
<1>6. ASSUME NEW t \in Joiners PROVE Talks(t, a[t], h, restAfter[t], js[t], linked, knocks)
  <2>1. Talks(t, a[t], g, rest[t], js[t], linked, knocks)
    BY DEF Fits
  <2> QED
    BY <1>0, <2>1, OthersGoOn
<1> QED
  BY <1>2, <1>3, <1>5, <1>6 DEF Fits

\* So what has come says what the client was waiting for.
LEMMA ReadInTurn ==
  ASSUME NEW s, NEW i, NEW g, NEW rest, NEW j, NEW links, NEW knocks,
         Talks(s, i, g, rest, j, links, knocks), g.clients[s] # "no_client"
  PROVE  /\ rest = <<JoinerInfo>> => g.clients[s] = "connecting"
         /\ rest = <<CapabilitiesOf(s)>> => g.clients[s] = "awaiting_capabilities"
         /\ rest = <<AcceptJoin(i)>> => g.clients[s] = "awaiting_accept_join" /\ i # 0
<1>1. SUFFICES ASSUME rest # << >>
               PROVE  /\ rest = <<JoinerInfo>> => g.clients[s] = "connecting"
                      /\ rest = <<CapabilitiesOf(s)>> => g.clients[s] = "awaiting_capabilities"
                      /\ rest = <<AcceptJoin(i)>> => g.clients[s] = "awaiting_accept_join" /\ i # 0
  OBVIOUS
<1>2. \/ rest = <<JoinerInfo>> /\ g.clients[s] \in {"no_client", "connecting"}
      \/ rest = <<CapabilitiesOf(s)>> /\ g.clients[s] \in {"no_client", "awaiting_capabilities"}
      \/ /\ rest = <<AcceptJoin(i)>> /\ i # 0
         /\ g.clients[s] \in {"no_client", "awaiting_accept_join"}
  BY <1>1, RestIsOneMessage, Zenon
<1>3. /\ rest = <<JoinerInfo>> => rest[1].type = "joiner_info"
      /\ rest = <<CapabilitiesOf(s)>> => rest[1].type = "capabilities"
      /\ rest = <<AcceptJoin(i)>> => rest[1].type = "accept_join"
  BY DEF JoinerInfo, CapabilitiesOf, AcceptJoin
<1> QED
  BY <1>2, <1>3

\* What the handling of a message leaves as it is.
HandledBy(g, h, s) ==
  /\ h \in Gatherers /\ h.net = g.net /\ h.up = g.up /\ h.clients[s] # "no_client"
  /\ (g.net = "active" => h.players = g.players)
  /\ \A t \in Joiners \ {s} : h.clients[t] = g.clients[t]

\* The gatherer handles a joiner's information.
LEMMA JoinerInfoFits ==
  ASSUME NEW g \in Gatherers, NEW a, NEW rest \in [Joiners -> Seq(Messages)],
         NEW js \in [Joiners -> JoinerRecords], NEW knocks, NEW s \in Joiners,
         Fits(g, a, rest, js, linked, knocks), g.clients[s] # "no_client",
         rest[s] = <<JoinerInfo>>
  PROVE  /\ HandledBy(g, HandleJoinerInfo(g, s), s)
         /\ Fits(HandleJoinerInfo(g, s), a, [rest EXCEPT ![s] = << >>], js, linked, knocks)
<1> DEFINE h == HandleJoinerInfo(g, s)
           m == CapabilitiesOf(0)
           read == [rest EXCEPT ![s] = << >>]
<1>1. Talks(s, a[s], g, rest[s], js[s], linked, knocks) /\ rest[s] # << >>
  BY DEF Fits
<1>2. g.clients[s] = "connecting"
  BY <1>1, ReadInTurn, Zenon
<1>3. /\ s \notin knocks /\ a[s] = 0
      /\ s \in linked => /\ s \in g.up /\ Coming(s, g, js[s]) = << >>
                         /\ js[s].net = "joining" /\ js[s].handler = "joining"
      /\ s \notin g.up => g.out[s] = << >>
  BY <1>1, <1>2, SentAndUnread DEF Talks, Candidates
<1>4. read[s] = << >> /\ \A t \in Joiners \ {s} : read[t] = rest[t]
  OBVIOUS
<1> HIDE DEF read
<1>5. CASE g.net # "gathering"
  <2>1. h = g
    BY <1>5 DEF HandleJoinerInfo
  <2>2. Talks(s, a[s], g, read[s], js[s], linked, knocks)
    <3>1. CASE s \in linked
      <4>1. Introduces(s, a[s], g.clients[s], Coming(s, g, js[s]), << >>, js[s])
        BY <1>2, <1>3, <3>1 DEF Introduces
      <4> QED
        BY <1>1, <1>3, <1>4, <3>1, <4>1 DEF Talks, Linked
    <3>2. CASE s \notin linked
      BY <1>1, <1>2, <1>3, <1>4, <3>2 DEF Talks, Leaves
    <3> QED
      BY <3>1, <3>2
  <2>3. \A t \in Joiners : Talks(t, a[t], g, read[t], js[t], linked, knocks)
    BY <1>4, <2>2 DEF Fits
  <2> QED
    BY <2>1, <2>3 DEF Fits, read, HandledBy
<1>6. CASE g.net = "gathering"
  <2>1. h = [g EXCEPT !.clients[s] = "awaiting_capabilities",
                      !.out = [t \in Joiners |-> IF t \in {s} \cap g.up THEN Append(g.out[t], m)
                                                 ELSE g.out[t]]]
    BY <1>6 DEF HandleJoinerInfo, Enqueued, Gatherers
  <2>2. /\ h.net = g.net /\ h.players = g.players /\ h.up = g.up
        /\ h.nextIdentifier = g.nextIdentifier /\ h.ungathered = g.ungathered
        /\ h.startable = g.startable /\ h.wire = g.wire
        /\ h.clients[s] = "awaiting_capabilities"
        /\ h.out[s] = IF s \in g.up THEN Append(g.out[s], m) ELSE g.out[s]
        /\ \A t \in Joiners \ {s} : h.clients[t] = g.clients[t] /\ h.out[t] = g.out[t]
    BY <2>1 DEF Gatherers
  <2>3. m \in Messages
    BY MessagesAreMessages
  <2>4. h \in Gatherers
    <3>1. \A t \in Joiners : g.out[t] \in Seq(Messages) /\ Append(g.out[t], m) \in Seq(Messages)
      BY <2>3, AppendProperties DEF Gatherers
    <3>2. "awaiting_capabilities" \in {"no_client"} \cup ClientStates
      BY DEF ClientStates
    <3> HIDE DEF m, h
    <3> QED
      BY <2>1, <3>1, <3>2 DEF Gatherers
  <2> HIDE DEF h
  <2>5. Talks(s, a[s], h, read[s], js[s], linked, knocks)
    <3>1. CASE s \in linked
      <4>1. Coming(s, h, js[s]) = <<m>>
        <5>1. h.out[s] = Append(g.out[s], m) /\ h.wire[s] = g.wire[s] /\ js[s] \in JoinerRecords
          BY <1>3, <2>2, <3>1
        <5> HIDE DEF m
        <5>2. Coming(s, h, js[s]) = Append(Coming(s, g, js[s]), m)
          BY <2>3, <5>1, QueuedComes
        <5> QED
          BY <1>3, <3>1, <5>2
      <4>2. Introduces(s, a[s], h.clients[s], <<m>>, << >>, js[s])
        BY <1>3, <2>2, <3>1 DEF Introduces
      <4> QED
        BY <1>1, <1>3, <1>4, <2>2, <3>1, <4>1, <4>2 DEF Talks, Linked, Members
    <3>2. CASE s \notin linked
      BY <1>1, <1>3, <1>4, <2>2, <3>2 DEF Talks, Leaves, Members
    <3> QED
      BY <3>1, <3>2
  <2>6. Fits(h, a, read, js, linked, knocks)
    <3>1. h.clients[s] \in Members <=> g.clients[s] \in Members
      BY <1>2, <2>2 DEF Members
    <3>2. s \notin h.ungathered
      BY <1>2, <1>6, <2>2 DEF Fits, Stage, InState
    <3>3. ChangesOne(s, g, h)
      BY <1>6, <2>2, <3>1, <3>2 DEF ChangesOne
    <3> QED
      BY <1>4, <2>4, <2>5, <3>3, OneClientChanges
  <2> QED
    BY <2>2, <2>4, <2>6 DEF HandledBy, h, read
<1> QED
  BY <1>5, <1>6

\* The gatherer handles a joiner's capabilities.
LEMMA CapabilitiesFits ==
  ASSUME NEW g \in Gatherers, NEW a, NEW rest \in [Joiners -> Seq(Messages)],
         NEW js \in [Joiners -> JoinerRecords], NEW knocks, NEW s \in Joiners,
         Fits(g, a, rest, js, linked, knocks), g.clients[s] # "no_client",
         rest[s] = <<CapabilitiesOf(s)>>
  PROVE  /\ HandledBy(g, HandleCapabilities(g, s, CapabilitiesOf(s)), s)
         /\ Fits(HandleCapabilities(g, s, CapabilitiesOf(s)), a, [rest EXCEPT ![s] = << >>],
                 js, linked, knocks)
<1> DEFINE h == HandleCapabilities(g, s, CapabilitiesOf(s))
           state == IF s \notin Ungatherable THEN "not_yet_shown" ELSE "ungatherable"
           read == [rest EXCEPT ![s] = << >>]
<1>1. Talks(s, a[s], g, rest[s], js[s], linked, knocks) /\ rest[s] # << >>
  BY DEF Fits
<1>2. g.clients[s] = "awaiting_capabilities"
  BY <1>1, ReadInTurn, Zenon
<1>3. /\ s \notin knocks /\ a[s] = 0
      /\ s \in linked => /\ s \in g.up /\ Coming(s, g, js[s]) = << >>
                         /\ js[s].net = "joining" /\ js[s].handler = "joining"
      /\ s \notin g.up => g.out[s] = << >>
  BY <1>1, <1>2, SentAndUnread DEF Talks, Candidates
<1>4. read[s] = << >> /\ \A t \in Joiners \ {s} : read[t] = rest[t]
  OBVIOUS
<1>5. state \in {"not_yet_shown", "ungatherable"}
  OBVIOUS
<1>6. h = [g EXCEPT !.clients[s] = state]
  BY <1>2 DEF HandleCapabilities, CapabilitiesOf
<1> HIDE DEF state, read
<1>7. /\ h.net = g.net /\ h.players = g.players /\ h.up = g.up /\ h.wire = g.wire /\ h.out = g.out
      /\ h.nextIdentifier = g.nextIdentifier /\ h.ungathered = g.ungathered
      /\ h.startable = g.startable /\ h.clients[s] = state
      /\ \A t \in Joiners \ {s} : h.clients[t] = g.clients[t]
  BY <1>6 DEF Gatherers
<1>8. h \in Gatherers
  <2>1. state \in {"no_client"} \cup ClientStates
    BY <1>5 DEF ClientStates
  <2> HIDE DEF h
  <2> QED
    BY <1>6, <2>1 DEF Gatherers
<1> HIDE DEF h
<1>9. Talks(s, a[s], h, read[s], js[s], linked, knocks)
  <2>1. Coming(s, h, js[s]) = Coming(s, g, js[s])
    BY <1>7 DEF Coming
  <2>2. CASE s \in linked
    <3>1. Introduces(s, a[s], h.clients[s], << >>, << >>, js[s])
      BY <1>3, <1>5, <1>7, <2>2 DEF Introduces
    <3> QED
      BY <1>1, <1>3, <1>4, <1>5, <1>7, <2>1, <2>2, <3>1 DEF Talks, Linked, Members
  <2>3. CASE s \notin linked
    BY <1>1, <1>3, <1>4, <1>5, <1>7, <2>3 DEF Talks, Leaves, Members
  <2> QED
    BY <2>2, <2>3
<1>10. Fits(h, a, read, js, linked, knocks)
  <2>1. h.clients[s] \in Members <=> g.clients[s] \in Members
    BY <1>2, <1>5, <1>7 DEF Members
  <2>2. h.net = "gathering" => s \notin h.ungathered
    BY <1>2, <1>7 DEF Fits, Stage, InState
  <2>3. h.net # "down"
    BY <1>2, <1>7 DEF Fits, Stage
  <2>4. ChangesOne(s, g, h)
    BY <1>5, <1>7, <2>1, <2>2, <2>3 DEF ChangesOne
  <2> QED
    BY <1>4, <1>8, <1>9, <2>4, OneClientChanges
<1> QED
  BY <1>5, <1>7, <1>8, <1>10 DEF HandledBy, h, read

\* The record that Enqueued makes of a gatherer.
LEMMA EnqueuedIsGatherer ==
  ASSUME NEW g \in Gatherers, NEW S, NEW m \in Messages
  PROVE  /\ Enqueued(g, S, m) \in Gatherers
         /\ Enqueued(g, S, m).net = g.net /\ Enqueued(g, S, m).players = g.players
         /\ Enqueued(g, S, m).clients = g.clients /\ Enqueued(g, S, m).up = g.up
         /\ Enqueued(g, S, m).nextIdentifier = g.nextIdentifier
         /\ Enqueued(g, S, m).ungathered = g.ungathered
         /\ Enqueued(g, S, m).startable = g.startable /\ Enqueued(g, S, m).wire = g.wire
         /\ \A t \in Joiners : Enqueued(g, S, m).out[t] =
              IF t \in S /\ t \in g.up THEN Append(g.out[t], m) ELSE g.out[t]
<1>1. \A t \in Joiners : g.out[t] \in Seq(Messages) /\ Append(g.out[t], m) \in Seq(Messages)
  BY AppendProperties DEF Gatherers
<1>2. Enqueued(g, S, m) =
        [g EXCEPT !.out = [t \in Joiners |-> IF t \in S \cap g.up THEN Append(g.out[t], m)
                                             ELSE g.out[t]]]
  BY DEF Enqueued, Gatherers
<1> DEFINE h == Enqueued(g, S, m)
           out == [t \in Joiners |-> IF t \in S \cap g.up THEN Append(g.out[t], m) ELSE g.out[t]]
<1>3. out \in [Joiners -> Seq(Messages)]
  BY <1>1
<1>4. h = [g EXCEPT !.out = out]
  BY <1>2
<1>5. \A t \in Joiners : out[t] = IF t \in S /\ t \in g.up THEN Append(g.out[t], m) ELSE g.out[t]
  OBVIOUS
<1> HIDE DEF h, out
<1>6. h \in Gatherers
  BY <1>3, <1>4 DEF Gatherers
<1>7. /\ h.net = g.net /\ h.players = g.players /\ h.clients = g.clients /\ h.up = g.up
      /\ h.nextIdentifier = g.nextIdentifier /\ h.ungathered = g.ungathered
      /\ h.startable = g.startable /\ h.wire = g.wire /\ h.out = out
  BY <1>4 DEF Gatherers
<1> QED
  BY <1>5, <1>6, <1>7 DEF h

\* The players, one more of whom is in the list.
LEMMA RosterGrows ==
  ASSUME NEW g \in Gatherers, NEW h \in Gatherers, NEW a \in [Joiners -> Nat],
         NEW s \in Joiners, Assigns(g, a), Roster(g, a),
         g.net = "gathering", h.net = "gathering", g.clients[s] \notin Members, a[s] # 0,
         h.players = Append(g.players, [identifier |-> a[s], stream |-> s]),
         h.clients[s] \in Members, \A t \in Joiners \ {s} : h.clients[t] = g.clients[t]
  PROVE  /\ Roster(h, a) /\ Len(h.players) > 1
         /\ \A t \in Joiners : t \in Streams(h.players) <=> t \in Streams(g.players) \cup {s}
<1> DEFINE p == [identifier |-> a[s], stream |-> s]
           n == Len(g.players)
<1>1. /\ Len(h.players) = n + 1 /\ n \in Nat /\ n >= 1 /\ h.players[n + 1] = p
      /\ DOMAIN h.players = 1 .. n + 1 /\ DOMAIN g.players = 1 .. n
      /\ \A k \in 1 .. n : h.players[k] = g.players[k]
  <2>1. g.players \in Seq(Players) /\ n >= 1
    BY DEF Gatherers, Roster
  <2>2. p \in Players
    BY DEF Players, Joiners
  <2> HIDE DEF p
  <2> QED
    BY <2>1, <2>2, AppendProperties, LenProperties DEF p
<1>2. p.stream = s /\ p.identifier = a[s]
  OBVIOUS
<1> HIDE DEF p, n
<1>3. \A t \in Joiners : t \in Streams(h.players) <=> t \in Streams(g.players) \cup {s}
  <2> TAKE t \in Joiners
  <2>1. ASSUME t \in Streams(h.players) PROVE t \in Streams(g.players) \cup {s}
    <3>1. PICK k \in 1 .. n + 1 : h.players[k].stream = t
      BY <1>1, <2>1 DEF Streams
    <3>2. CASE k = n + 1
      BY <1>1, <1>2, <3>1, <3>2
    <3>3. CASE k # n + 1
      <4>1. k \in 1 .. n /\ g.players[k].stream = t
        BY <1>1, <3>1, <3>3
      <4> QED
        BY <1>1, <4>1 DEF Streams
    <3> QED
      BY <3>2, <3>3
  <2>2. ASSUME t \in Streams(g.players) PROVE t \in Streams(h.players)
    <3>1. PICK k \in 1 .. n : g.players[k].stream = t
      BY <1>1, <2>2 DEF Streams
    <3>2. k \in 1 .. n + 1 /\ h.players[k].stream = t
      BY <1>1, <3>1
    <3> QED
      BY <1>1, <3>2 DEF Streams
  <2>3. s \in Streams(h.players)
    <3>1. n + 1 \in 1 .. n + 1 /\ h.players[n + 1].stream = s
      BY <1>1, <1>2
    <3> QED
      BY <1>1, <3>1 DEF Streams
  <2> QED
    BY <2>1, <2>2, <2>3
<1>4. s \notin Streams(g.players)
  BY DEF Roster
<1>5. Len(h.players) >= 1 /\ h.players[1] = ThisPlayer
  BY <1>1 DEF Roster
<1>6. ASSUME NEW k \in 2 .. Len(h.players)
      PROVE  /\ h.players[k].stream \in Joiners
             /\ h.players[k].identifier = a[h.players[k].stream] /\ a[h.players[k].stream] # 0
  <2>1. CASE k = n + 1
    BY <1>1, <1>2, <2>1
  <2>2. CASE k # n + 1
    <3>1. k \in 2 .. Len(g.players) /\ h.players[k] = g.players[k]
      BY <1>1, <2>2 DEF n
    <3> QED
      BY <3>1 DEF Roster
  <2> QED
    BY <2>1, <2>2
<1>7. ASSUME NEW k \in 2 .. Len(h.players), NEW l \in 2 .. Len(h.players),
             h.players[k].stream = h.players[l].stream
      PROVE  k = l
  <2>1. \A i \in 2 .. n : h.players[i].stream # s
    <3>1. ASSUME NEW i \in 2 .. n PROVE h.players[i].stream # s
      <4>1. i \in DOMAIN g.players /\ h.players[i] = g.players[i]
        BY <1>1
      <4>2. g.players[i].stream \in Streams(g.players)
        BY <4>1 DEF Streams
      <4> QED
        BY <1>4, <4>1, <4>2
    <3> QED
      BY <3>1
  <2>2. h.players[n + 1].stream = s
    BY <1>1, <1>2
  <2>3. CASE k # n + 1 /\ l # n + 1
    <3>1. k \in 2 .. Len(g.players) /\ l \in 2 .. Len(g.players)
          /\ h.players[k] = g.players[k] /\ h.players[l] = g.players[l]
      BY <1>1, <2>3 DEF n
    <3> QED
      BY <1>7, <3>1 DEF Roster
  <2>4. CASE k = n + 1 \/ l = n + 1
    BY <1>1, <1>7, <2>1, <2>2, <2>4
  <2> QED
    BY <2>3, <2>4
<1>8. \A t \in Joiners : h.clients[t] \in Members <=> t \in Streams(h.players)
  <2> TAKE t \in Joiners
  <2>1. g.clients[t] \in Members <=> t \in Streams(g.players)
    BY DEF Roster
  <2> QED
    BY <1>3, <1>4, <2>1
<1>9. Roster(h, a)
  BY <1>5, <1>6, <1>7, <1>8 DEF Roster
<1>10. Len(h.players) > 1
  BY <1>1
<1> QED
  BY <1>3, <1>9, <1>10

\* Everybody but those whom a change of the players is about.
LEMMA OthersAreTold ==
  ASSUME NEW g \in Gatherers, NEW h \in Gatherers, NEW a, NEW rest,
         NEW js \in [Joiners -> JoinerRecords], NEW knocks, NEW t \in Joiners,
         NEW tag \in {"new_player", "dropped_player"}, NEW restAfter,
         g.net = "gathering", h.net = "gathering", Fits(g, a, rest, js, linked, knocks),
         Assigns(h, a), Roster(h, a), restAfter = rest[t],
         h.clients[t] = g.clients[t], h.wire[t] = g.wire[t], t \in h.up <=> t \in g.up,
         h.out[t] = IF t \in Streams(h.players) /\ t \in g.up
                    THEN Append(g.out[t], Topology(tag, h.players)) ELSE g.out[t]
  PROVE  Talks(t, a[t], h, restAfter, js[t], linked, knocks)
<1>1. Talks(t, a[t], g, restAfter, js[t], linked, knocks) /\ g.clients[t] # "in_game"
      /\ js[t] \in JoinerRecords
  BY DEF Fits, Stage
<1>2. g.clients[t] \in Members <=> t \in Streams(h.players)
  BY DEF Roster
<1>3. g.clients[t] \in Members => FindsItself(h.players, a[t], t)
  BY <1>2, PlayersAreFound
<1>4. h.out[t] = IF g.clients[t] \in Members /\ t \in g.up
                 THEN Append(g.out[t], Topology(tag, h.players)) ELSE g.out[t]
  BY <1>2
<1> QED
  BY <1>1, <1>3, <1>4, PlayersChange

\* Two messages queued on an empty line.
LEMMA TwoQueued ==
  ASSUME NEW x \in Messages, NEW y \in Messages
  PROVE  Append(Append(<< >>, x), y) = <<x, y>>
<1>1. Append(<< >>, x) = <<x>>
  OBVIOUS
<1>2. <<x>> \in Seq(Messages)
  OBVIOUS
<1>3. Append(<<x>>, y) = <<x, y>>
  <2> DEFINE q == Append(<<x>>, y)
             r == <<x, y>>
  <2>1. /\ q \in Seq(Messages) /\ Len(q) = 2 /\ q[1] = x /\ q[2] = y
    BY <1>2, AppendProperties
  <2>2. /\ r \in Seq(Messages) /\ Len(r) = 2 /\ r[1] = x /\ r[2] = y
    OBVIOUS
  <2> HIDE DEF q, r
  <2>3. \A i \in 1 .. 2 : q[i] = r[i]
    BY <2>1, <2>2
  <2> QED
    BY <2>1, <2>2, <2>3, SeqEqual DEF q, r
<1> QED
  BY <1>1, <1>3

\* The gatherer handles the acceptance of a joiner, who becomes a member.
LEMMA AcceptJoinFits ==
  ASSUME NEW g \in Gatherers, NEW a \in [Joiners -> Nat],
         NEW rest \in [Joiners -> Seq(Messages)],
         NEW js \in [Joiners -> JoinerRecords], NEW knocks, NEW s \in Joiners,
         Fits(g, a, rest, js, linked, knocks), g.clients[s] # "no_client",
         rest[s] = <<AcceptJoin(a[s])>>
  PROVE  /\ HandledBy(g, HandleAcceptJoin(g, s, AcceptJoin(a[s])), s)
         /\ Fits(HandleAcceptJoin(g, s, AcceptJoin(a[s])), a, [rest EXCEPT ![s] = << >>],
                 js, linked, knocks)
<1> DEFINE p == [identifier |-> a[s], stream |-> s]
           joined == [g EXCEPT !.players = Append(@, p), !.clients[s] = "awaiting_map",
                               !.startable = TRUE]
           named == Enqueued(joined, {s}, GameSession)
           m == Topology("new_player", named.players)
           h == Enqueued(named, Streams(named.players), m)
           read == [rest EXCEPT ![s] = << >>]
<1>1. Talks(s, a[s], g, rest[s], js[s], linked, knocks) /\ rest[s] # << >>
  BY DEF Fits
<1>2. g.clients[s] = "awaiting_accept_join" /\ a[s] # 0
  BY <1>1, ReadInTurn, Zenon
<1>3. /\ s \notin knocks
      /\ s \in linked => s \in g.up /\ Coming(s, g, js[s]) = << >> /\ js[s].net = "waiting"
      /\ s \notin g.up => g.out[s] = << >>
  BY <1>1, <1>2, SentAndUnread
<1>4. read[s] = << >> /\ \A t \in Joiners \ {s} : read[t] = rest[t]
  OBVIOUS
<1>5. g.net = "gathering"
  BY <1>2 DEF Fits, Stage, Gatherers
<1>6. HandleAcceptJoin(g, s, AcceptJoin(a[s])) = h
  BY <1>2 DEF HandleAcceptJoin, Distributed, AcceptJoin
<1>7. p \in Players /\ Append(g.players, p) \in Seq(Players)
  BY AppendProperties DEF Gatherers, Players, Joiners
<1>8. /\ joined \in Gatherers /\ joined.net = g.net /\ joined.players = Append(g.players, p)
      /\ joined.up = g.up /\ joined.nextIdentifier = g.nextIdentifier
      /\ joined.ungathered = g.ungathered /\ joined.startable = TRUE /\ joined.wire = g.wire
      /\ joined.out = g.out /\ joined.clients[s] = "awaiting_map"
      /\ \A t \in Joiners \ {s} : joined.clients[t] = g.clients[t]
  <2> HIDE DEF p
  <2>1. "awaiting_map" \in {"no_client"} \cup ClientStates
    BY DEF ClientStates
  <2> QED
    BY <1>7, <2>1 DEF Gatherers
<1> HIDE DEF joined
<1>9. /\ named \in Gatherers /\ named.net = g.net /\ named.players = Append(g.players, p)
      /\ named.up = g.up /\ named.nextIdentifier = g.nextIdentifier
      /\ named.ungathered = g.ungathered /\ named.startable = TRUE /\ named.wire = g.wire
      /\ named.clients[s] = "awaiting_map"
      /\ \A t \in Joiners \ {s} : named.clients[t] = g.clients[t]
      /\ \A t \in Joiners : named.out[t] =
           IF t = s /\ s \in g.up THEN Append(g.out[s], GameSession) ELSE g.out[t]
  BY <1>8, MessagesAreMessages, EnqueuedIsGatherer
<1> HIDE DEF named
<1>10. m \in Messages
  <2>1. named.players \in Seq(Players)
    BY <1>9 DEF Gatherers
  <2> QED
    BY <2>1, MessagesAreMessages
<1>11. /\ h \in Gatherers /\ h.net = g.net /\ h.players = named.players
       /\ h.up = g.up /\ h.nextIdentifier = g.nextIdentifier
       /\ h.ungathered = g.ungathered /\ h.startable = TRUE /\ h.wire = g.wire
       /\ h.clients = named.clients
  <2>1. /\ h \in Gatherers /\ h.net = named.net /\ h.players = named.players
        /\ h.up = named.up /\ h.nextIdentifier = named.nextIdentifier
        /\ h.ungathered = named.ungathered /\ h.startable = named.startable
        /\ h.wire = named.wire /\ h.clients = named.clients
    <3>1. named \in Gatherers
      BY <1>9
    <3> HIDE DEF m
    <3> QED
      BY <1>10, <3>1, EnqueuedIsGatherer
  <2> HIDE DEF h, m
  <2> QED
    BY <1>9, <2>1
<1>21. h.clients[s] = "awaiting_map" /\ h.players = Append(g.players, p)
  <2> HIDE DEF h, m, p
  <2> QED
    BY <1>9, <1>11
<1>22. \A t \in Joiners \ {s} : h.clients[t] = g.clients[t]
  <2> HIDE DEF h, m, p
  <2> QED
    BY <1>9, <1>11
<1>23. \A t \in Joiners : h.out[t] =
         IF t \in Streams(h.players) /\ t \in g.up THEN Append(named.out[t], m) ELSE named.out[t]
  <2>1. named \in Gatherers /\ named.up = g.up
    BY <1>9
  <2>2. \A t \in Joiners : h.out[t] =
          IF t \in Streams(named.players) /\ t \in named.up THEN Append(named.out[t], m)
          ELSE named.out[t]
    <3> HIDE DEF m
    <3> QED
      BY <1>10, <2>1, EnqueuedIsGatherer
  <2> HIDE DEF h, m
  <2> QED
    BY <1>11, <2>1, <2>2
<1>24. \A t \in Joiners \ {s} : named.out[t] = g.out[t]
  BY <1>9
<1>25. named.out[s] = IF s \in g.up THEN Append(g.out[s], GameSession) ELSE g.out[s]
  BY <1>9
<1>26. named \in Gatherers /\ named.wire = g.wire
  BY <1>9
<1>12. m = Topology("new_player", h.players)
  BY <1>11
<1> HIDE DEF h, m, read
<1>13. Assigns(g, a) /\ Roster(g, a) /\ Stage(g)
  BY DEF Fits
<1>14. Assigns(h, a)
  BY <1>11, <1>13 DEF Assigns
<1>15. /\ Roster(h, a) /\ Len(h.players) > 1
       /\ \A t \in Joiners : t \in Streams(h.players) <=> t \in Streams(g.players) \cup {s}
  <2>1. g.clients[s] \notin Members /\ h.clients[s] \in Members
    BY <1>2, <1>21 DEF Members
  <2>2. /\ h \in Gatherers /\ Assigns(g, a) /\ Roster(g, a) /\ h.net = "gathering"
        /\ h.players = Append(g.players, [identifier |-> a[s], stream |-> s])
    BY <1>5, <1>11, <1>13, <1>21
  <2> QED
    BY <1>2, <1>5, <1>22, <2>1, <2>2, RosterGrows
<1>16. Stage(h)
  <2>1. InState(h, "connected") = InState(g, "connected")
    BY <1>2, <1>21, <1>22 DEF InState
  <2>2. h.ungathered = InState(h, "connected")
    BY <1>5, <1>11, <1>13, <2>1 DEF Stage
  <2>3. \A t \in Joiners : h.clients[t] # "in_game"
    BY <1>5, <1>13, <1>21, <1>22 DEF Stage
  <2>4. h.startable = (Len(h.players) > 1)
    BY <1>11, <1>15
  <2> QED
    BY <1>5, <1>11, <2>2, <2>3, <2>4 DEF Stage
<1>17. Talks(s, a[s], h, read[s], js[s], linked, knocks)
  <2>1. CASE s \in linked
    <3>1. Coming(s, h, js[s]) = <<GameSession, m>>
      <4>1. Coming(s, named, js[s]) = Append(Coming(s, g, js[s]), GameSession)
        <5>1. named.out[s] = Append(g.out[s], GameSession) /\ named.wire[s] = g.wire[s]
              /\ js[s] \in JoinerRecords
          BY <1>3, <1>25, <1>26, <2>1
        <5> QED
          BY <5>1, MessagesAreMessages, QueuedComes
      <4>2. Coming(s, h, js[s]) = Append(Coming(s, named, js[s]), m)
        <5>1. h.out[s] = Append(named.out[s], m) /\ h.wire[s] = named.wire[s]
              /\ js[s] \in JoinerRecords
          BY <1>3, <1>11, <1>15, <1>23, <1>26, <2>1
        <5> QED
          BY <1>10, <1>26, <5>1, QueuedComes
      <4>3. Coming(s, g, js[s]) = << >>
        BY <1>3, <2>1
      <4> QED
        <5>1. Append(Append(<< >>, GameSession), m) = <<GameSession, m>>
          BY <1>10, TwoQueued, MessagesAreMessages
        <5> QED
          BY <4>1, <4>2, <4>3, <5>1, Zenon
    <3>2. Waits(s, a[s], "awaiting_map", h.players, <<GameSession, m>>, << >>, js[s])
      <4>1. FindsItself(h.players, a[s], s)
        BY <1>11, <1>14, <1>15, PlayersAreFound
      <4>2. /\ m.type = "topology" /\ m.tag = "new_player" /\ m.players = h.players
        BY <1>12 DEF Topology
      <4>3. GameSession.type # "topology"
        BY DEF GameSession
      <4> HIDE DEF m
      <4> DEFINE pend == <<GameSession, m>>
      <4>4. DOMAIN pend = {1, 2} /\ pend[1] = GameSession /\ pend[2] = m /\ pend # << >>
        OBVIOUS
      <4> HIDE DEF pend
      <4>5. Announces(s, a[s], "awaiting_map", pend)
        <5> SUFFICES ASSUME NEW k \in DOMAIN pend
                     PROVE  \/ k = 1 /\ pend[k] = GameSession
                            \/ /\ IsTopology(pend[k], a[s], s)
                               /\ pend[k].tag \in {"new_player", "dropped_player"}
          BY DEF Announces
        <5> QED
          BY <4>1, <4>2, <4>4 DEF IsTopology
      <4>6. Updates(h.players, pend, js[s])
        BY <4>2, <4>3, <4>4 DEF Updates
      <4>7. HasSession("awaiting_map", pend, js[s])
        BY <4>4 DEF HasSession
      <4> QED
        BY <1>3, <2>1, <4>5, <4>6, <4>7 DEF Waits, Members, pend
    <3> QED
      BY <1>1, <1>2, <1>3, <1>4, <1>11, <1>21, <2>1, <3>1, <3>2 DEF Talks, Linked, Candidates, Knows
  <2>2. CASE s \notin linked
    <3>1. s \notin h.up => h.out[s] = << >>
      BY <1>3, <1>11, <1>23, <1>25
    <3>2. Knows(s, a[s], js[s]) /\ g.wire[s] = << >>
          /\ Leaves(s, a[s], g.clients[s], g.net, g.players, rest[s], js[s])
      BY <1>1, <2>2 DEF Talks
    <3>3. Leaves(s, a[s], h.clients[s], h.net, h.players, << >>, js[s])
      BY <1>2, <1>5, <1>11, <1>21, <3>2 DEF Leaves
    <3> QED
      BY <1>2, <1>3, <1>4, <1>11, <1>21, <2>2, <3>1, <3>2, <3>3 DEF Talks, Candidates
  <2> QED
    BY <2>1, <2>2
<1>18. ASSUME NEW t \in Joiners, t # s PROVE Talks(t, a[t], h, read[t], js[t], linked, knocks)
  <2>1. h.out[t] = IF t \in Streams(h.players) /\ t \in g.up
                   THEN Append(g.out[t], Topology("new_player", h.players)) ELSE g.out[t]
    BY <1>12, <1>18, <1>23, <1>24
  <2>2. h.clients[t] = g.clients[t] /\ h.wire[t] = g.wire[t] /\ (t \in h.up <=> t \in g.up)
        /\ read[t] = rest[t]
    BY <1>4, <1>11, <1>18, <1>22
  <2> QED
    BY <1>5, <1>11, <1>14, <1>15, <2>1, <2>2, OthersAreTold
<1>19. Fits(h, a, read, js, linked, knocks)
  BY <1>14, <1>15, <1>16, <1>17, <1>18 DEF Fits
<1>20. HandledBy(g, h, s)
  BY <1>5, <1>11, <1>21, <1>22 DEF HandledBy
<1> QED
  BY <1>6, <1>19, <1>20 DEF read

\* The gatherer handles whatever a channel holds, which is one message at most.
LEMMA HandledFits ==
  ASSUME NEW g \in Gatherers, NEW a \in [Joiners -> Nat],
         NEW rest \in [Joiners -> Seq(Messages)],
         NEW js \in [Joiners -> JoinerRecords], NEW knocks, NEW s \in Joiners,
         Fits(g, a, rest, js, linked, knocks), g.clients[s] # "no_client", rest[s] # << >>
  PROVE  /\ HandledBy(g, Handled(g, s, rest[s][1]), s) /\ Len(rest[s]) = 1
         /\ Fits(Handled(g, s, rest[s][1]), a, [rest EXCEPT ![s] = << >>], js, linked, knocks)
<1>1. Talks(s, a[s], g, rest[s], js[s], linked, knocks)
  BY DEF Fits
<1>2. \/ rest[s] = <<JoinerInfo>>
      \/ rest[s] = <<CapabilitiesOf(s)>>
      \/ rest[s] = <<AcceptJoin(a[s])>>
  BY <1>1, RestIsOneMessage, Zenon
<1>3. CASE rest[s] = <<JoinerInfo>>
  <2>1. rest[s][1] = JoinerInfo /\ Len(rest[s]) = 1
    BY <1>3
  <2>2. Handled(g, s, JoinerInfo) = HandleJoinerInfo(g, s)
    BY DEF Handled, JoinerInfo
  <2>3. /\ HandledBy(g, HandleJoinerInfo(g, s), s)
        /\ Fits(HandleJoinerInfo(g, s), a, [rest EXCEPT ![s] = << >>], js, linked, knocks)
    BY <1>3, JoinerInfoFits, Zenon
  <2> QED
    BY <2>1, <2>2, <2>3, Zenon
<1>4. CASE rest[s] = <<CapabilitiesOf(s)>>
  <2>1. rest[s][1] = CapabilitiesOf(s) /\ Len(rest[s]) = 1
    BY <1>4
  <2>2. CapabilitiesOf(s).type = "capabilities"
    BY DEF CapabilitiesOf
  <2>3. Handled(g, s, CapabilitiesOf(s)) = HandleCapabilities(g, s, CapabilitiesOf(s))
    BY <2>2 DEF Handled
  <2>4. /\ HandledBy(g, HandleCapabilities(g, s, CapabilitiesOf(s)), s)
        /\ Fits(HandleCapabilities(g, s, CapabilitiesOf(s)), a, [rest EXCEPT ![s] = << >>],
                js, linked, knocks)
    BY <1>4, CapabilitiesFits, Zenon
  <2> QED
    BY <2>1, <2>3, <2>4, Zenon
<1>5. CASE rest[s] = <<AcceptJoin(a[s])>>
  <2>1. rest[s][1] = AcceptJoin(a[s]) /\ Len(rest[s]) = 1
    BY <1>5
  <2>2. AcceptJoin(a[s]).type = "accept_join"
    BY DEF AcceptJoin
  <2>3. Handled(g, s, AcceptJoin(a[s])) = HandleAcceptJoin(g, s, AcceptJoin(a[s]))
    BY <2>2 DEF Handled
  <2>4. /\ HandledBy(g, HandleAcceptJoin(g, s, AcceptJoin(a[s])), s)
        /\ Fits(HandleAcceptJoin(g, s, AcceptJoin(a[s])), a, [rest EXCEPT ![s] = << >>],
                js, linked, knocks)
    BY <1>5, AcceptJoinFits, Zenon
  <2> QED
    BY <2>1, <2>3, <2>4, Zenon
<1> QED
  BY <1>2, <1>3, <1>4, <1>5

\* What is left of a channel when a number of its messages have been dispatched.
LEMMA DispatchedFits ==
  ASSUME NEW g \in Gatherers, NEW a \in [Joiners -> Nat],
         NEW rest \in [Joiners -> Seq(Messages)],
         NEW js \in [Joiners -> JoinerRecords], NEW knocks, NEW s \in Joiners,
         Fits(g, a, rest, js, linked, knocks), g.clients[s] # "no_client",
         rest[s] = toGatherer[s], NEW n \in Nat, n <= Len(rest[s])
  PROVE  /\ HandledBy(g, Dispatched(g, s, n), s)
         /\ Fits(Dispatched(g, s, n), a, [rest EXCEPT ![s] = SubSeq(rest[s], n + 1, Len(rest[s]))],
                 js, linked, knocks)
<1> DEFINE Runs(h) == h = [i \in 0 .. n |->
                             IF i = 0 THEN g ELSE Handled(h[i - 1], s, toGatherer[s][i])]
           handled == CHOOSE h : Runs(h)
<1>1. Dispatched(g, s, n) = handled[n]
  BY DEF Dispatched
<1>2. CASE n = 0
  <2>1. Runs([i \in 0 .. 0 |-> g])
    BY <1>2
  <2>2. Runs(handled)
    <3> HIDE DEF Runs
    <3> QED
      BY <2>1
  <2>3. handled[0] = g
    BY <1>2, <2>2
  <2>4. SubSeq(rest[s], 1, Len(rest[s])) = rest[s]
    BY SubSeqFull
  <2>5. [rest EXCEPT ![s] = rest[s]] = rest
    OBVIOUS
  <2>6. Dispatched(g, s, n) = g
    BY <1>1, <1>2, <2>3
  <2>7. SubSeq(rest[s], n + 1, Len(rest[s])) = rest[s]
    BY <1>2, <2>4
  <2> QED
    BY <2>5, <2>6, <2>7 DEF HandledBy
<1>3. CASE n # 0
  <2>1. rest[s] # << >>
    BY <1>3
  <2>2. /\ HandledBy(g, Handled(g, s, rest[s][1]), s) /\ Len(rest[s]) = 1
        /\ Fits(Handled(g, s, rest[s][1]), a, [rest EXCEPT ![s] = << >>], js, linked, knocks)
    BY <2>1, HandledFits
  <2>3. n = 1
    BY <1>3, <2>2
  <2> DEFINE both == [i \in 0 .. 1 |-> IF i = 0 THEN g ELSE Handled(g, s, toGatherer[s][1])]
  <2>4. Runs(both)
    <3>1. both[0] = g
      OBVIOUS
    <3>2. \A i \in 0 .. 1 : i = 0 \/ i = 1
      OBVIOUS
    <3> QED
      BY <2>3, <3>1, <3>2
  <2>5. Runs(handled)
    <3> HIDE DEF Runs, both
    <3> QED
      BY <2>4
  <2>6. handled[0] = g /\ handled[1] = Handled(handled[0], s, toGatherer[s][1])
    <3> HIDE DEF handled
    <3> QED
      BY <2>3, <2>5
  <2>7. Dispatched(g, s, n) = Handled(g, s, rest[s][1])
    BY <1>1, <2>3, <2>6
  <2>8. SubSeq(rest[s], n + 1, Len(rest[s])) = << >>
    BY <2>2, <2>3
  <2> QED
    BY <2>2, <2>7, <2>8
<1> QED
  BY <1>2, <1>3

\* What the visit to one client leaves as it is.
VisitOf(g, h, s) ==
  /\ h \in Gatherers /\ h.net = g.net /\ (g.net = "active" => h.players = g.players)
  /\ \A t \in Joiners \ {s} : h.clients[t] = g.clients[t] /\ (t \in h.up <=> t \in g.up)

\* What is left of what a joiner has sent.
Unread(s, arrived, ended) ==
  IF s \in ended THEN << >> ELSE SubSeq(toGatherer[s], arrived[s] + 1, Len(toGatherer[s]))

\* One channel is pumped and what has arrived on it dispatched.
LEMMA PumpedFits ==
  ASSUME NEW g \in Gatherers, NEW a \in [Joiners -> Nat],
         NEW rest \in [Joiners -> Seq(Messages)],
         NEW js \in [Joiners -> JoinerRecords], NEW knocks, NEW s \in Joiners,
         Fits(g, a, rest, js, linked, knocks), s \in g.up, rest[s] = toGatherer[s],
         NEW arrived, NEW ended, arrived[s] \in Nat, arrived[s] <= Len(rest[s]),
         s \in ended => s \notin linked
  PROVE  /\ VisitOf(g, Pumped(g, s, arrived, ended), s)
         /\ Fits(Pumped(g, s, arrived, ended), a,
                 [rest EXCEPT ![s] = Unread(s, arrived, ended)], js, linked, knocks)
<1> DEFINE flushed == Flushed(g, {s})
           received == IF s \in ended THEN [flushed EXCEPT !.up = @ \ {s}] ELSE flushed
           n == arrived[s]
           h == Dispatched(received, s, n)
           read == [rest EXCEPT ![s] = SubSeq(rest[s], n + 1, Len(rest[s]))]
<1>1. Pumped(g, s, arrived, ended) = h
  BY DEF Pumped
<1>2. flushed \in Gatherers /\ Fits(flushed, a, rest, js, linked, knocks)
  BY FlushedFits
<1>3. /\ flushed.net = g.net /\ flushed.clients = g.clients /\ flushed.up = g.up
      /\ flushed.out[s] = << >> /\ flushed.players = g.players
  BY DEF Flushed, Gatherers
<1> HIDE DEF flushed
<1>4. /\ received \in Gatherers /\ Fits(received, a, rest, js, linked, knocks)
      /\ received.net = g.net /\ received.clients = g.clients
      /\ received.up \in {g.up, g.up \ {s}} /\ received.players = g.players
  <2>1. CASE s \in ended
    <3>1. /\ [flushed EXCEPT !.up = @ \ {s}] \in Gatherers
          /\ Fits([flushed EXCEPT !.up = @ \ {s}], a, rest, js, linked, knocks)
      BY <1>2, <1>3, <2>1, EndShownFits
    <3>2. /\ [flushed EXCEPT !.up = @ \ {s}].net = g.net
          /\ [flushed EXCEPT !.up = @ \ {s}].clients = g.clients
          /\ [flushed EXCEPT !.up = @ \ {s}].players = g.players
          /\ [flushed EXCEPT !.up = @ \ {s}].up = g.up \ {s}
      BY <1>2, <1>3 DEF Gatherers
    <3> QED
      BY <2>1, <3>1, <3>2, Zenon
  <2>2. CASE s \notin ended
    BY <1>2, <1>3, <2>2
  <2> QED
    BY <2>1, <2>2
<1> HIDE DEF received
<1>5. received.clients[s] # "no_client"
  <2>1. Talks(s, a[s], g, rest[s], js[s], linked, knocks)
    BY DEF Fits
  <2> QED
    BY <1>4, <2>1 DEF Talks
<1>6. HandledBy(received, h, s) /\ Fits(h, a, read, js, linked, knocks)
  BY <1>4, <1>5, DispatchedFits
<1> HIDE DEF h
<1>7. VisitOf(g, h, s)
  BY <1>4, <1>6 DEF HandledBy, VisitOf
<1>8. Fits(h, a, [rest EXCEPT ![s] = Unread(s, arrived, ended)], js, linked, knocks)
  <2>1. CASE s \in ended
    <3>1. read \in [Joiners -> Seq(Messages)]
      <4>1. SubSeq(rest[s], n + 1, Len(rest[s])) \in Seq(Messages)
        BY SubSeqProperties
      <4> QED
        BY <4>1
    <3>2. [read EXCEPT ![s] = << >>] = [rest EXCEPT ![s] = Unread(s, arrived, ended)]
      BY <2>1 DEF Unread
    <3>3. Fits(h, a, [read EXCEPT ![s] = << >>], js, linked, knocks)
      <4> HIDE DEF read
      <4> QED
        BY <1>6, <2>1, <3>1, LossFits
    <3> QED
      BY <3>2, <3>3, Zenon
  <2>2. CASE s \notin ended
    <3>1. read = [rest EXCEPT ![s] = Unread(s, arrived, ended)]
      BY <2>2 DEF Unread
    <3> QED
      BY <1>6, <3>1, Zenon
  <2> QED
    BY <2>1, <2>2
<1> QED
  BY <1>1, <1>7, <1>8

----------------------------------------------------------------------------
(* Clients that have gone. *)

\* The players, when one has left the list.
LEMMA RosterShrinks ==
  ASSUME NEW g \in Gatherers, NEW h, NEW a,
         NEW s \in Joiners, Assigns(g, a), Roster(g, a), g.net = "gathering",
         s \in Streams(g.players), h.players = WithoutPlayer(g, s),
         h.clients[s] \notin Members, \A t \in Joiners \ {s} : h.clients[t] = g.clients[t]
  PROVE  /\ Roster(h, a) /\ WithoutPlayer(g, s) \in Seq(Players) /\ Len(g.players) > 1
         /\ \A t \in Joiners : t \in Streams(h.players) <=> t \in Streams(g.players) /\ t # s
<1> DEFINE n == Len(g.players)
           hole == CHOOSE i \in 2 .. n : g.players[i].stream = s
<1>1. /\ n \in Nat /\ n >= 1 /\ DOMAIN g.players = 1 .. n /\ g.players[1] = ThisPlayer
      /\ \A k \in 1 .. n : g.players[k] \in Players
  BY DEF Gatherers, Roster
<1>2. hole \in 2 .. n /\ g.players[hole].stream = s
  <2>1. PICK k \in 1 .. n : g.players[k].stream = s
    BY <1>1 DEF Streams
  <2>2. k # 1
    BY <1>1, <2>1 DEF ThisPlayer, Joiners
  <2>3. \E i \in 2 .. n : g.players[i].stream = s
    BY <1>1, <2>1, <2>2
  <2> QED
    BY <2>3
<1>3. \A i, k \in 2 .. n : g.players[i].stream = g.players[k].stream => i = k
  BY DEF Roster
<1>4. h.players = [i \in 1 .. n - 1 |-> g.players[IF i < hole THEN i ELSE i + 1]]
  BY DEF WithoutPlayer
<1> HIDE DEF hole, n
<1>5. /\ WithoutPlayer(g, s) \in Seq(Players) /\ Len(h.players) = n - 1 /\ DOMAIN h.players = 1 .. n - 1
      /\ n > 1
  <2>1. n - 1 \in Nat /\ n > 1
    BY <1>1, <1>2
  <2>2. \A i \in 1 .. n - 1 : g.players[IF i < hole THEN i ELSE i + 1] \in Players
    BY <1>1, <1>2
  <2> QED
    BY <1>4, <2>1, <2>2
<1>6. \A k \in 1 .. n - 1 : h.players[k] = g.players[IF k < hole THEN k ELSE k + 1]
  BY <1>4
<1>7. \A t \in Joiners : t \in Streams(h.players) <=> t \in Streams(g.players) /\ t # s
  <2> TAKE t \in Joiners
  <2>1. ASSUME t \in Streams(h.players) PROVE t \in Streams(g.players) /\ t # s
    <3>1. PICK k \in 1 .. n - 1 : h.players[k].stream = t
      BY <1>5, <2>1 DEF Streams
    <3> DEFINE l == IF k < hole THEN k ELSE k + 1
    <3>2. l \in 1 .. n /\ l # hole /\ g.players[l].stream = t
      BY <1>1, <1>2, <1>6, <3>1
    <3> HIDE DEF l
    <3>3. t \in Streams(g.players)
      BY <1>1, <3>2 DEF Streams
    <3>4. t # s
      <4>1. CASE l = 1
        BY <1>1, <3>2, <4>1 DEF ThisPlayer, Joiners
      <4>2. CASE l # 1
        <5>1. l \in 2 .. n
          BY <1>1, <3>2, <4>2
        <5> QED
          BY <1>2, <1>3, <3>2, <5>1
      <4> QED
        BY <4>1, <4>2
    <3> QED
      BY <3>3, <3>4
  <2>2. ASSUME t \in Streams(g.players), t # s PROVE t \in Streams(h.players)
    <3>1. PICK l \in 1 .. n : g.players[l].stream = t
      BY <1>1, <2>2 DEF Streams
    <3>2. l # hole
      BY <1>2, <2>2, <3>1
    <3> DEFINE k == IF l < hole THEN l ELSE l - 1
    <3>3. k \in 1 .. n - 1 /\ (IF k < hole THEN k ELSE k + 1) = l
      BY <1>1, <1>2, <3>2
    <3> HIDE DEF k
    <3>4. h.players[k].stream = t
      BY <1>6, <3>1, <3>3
    <3> QED
      BY <1>5, <3>3, <3>4 DEF Streams
  <2> QED
    BY <2>1, <2>2
<1>8. Len(h.players) >= 1 /\ h.players[1] = ThisPlayer
  BY <1>1, <1>2, <1>5, <1>6
<1>9. ASSUME NEW k \in 2 .. Len(h.players)
      PROVE  \E l \in 2 .. n : /\ h.players[k] = g.players[l]
                               /\ l = IF k < hole THEN k ELSE k + 1
  BY <1>1, <1>2, <1>5, <1>6
<1>10. ASSUME NEW k \in 2 .. Len(h.players)
       PROVE  /\ h.players[k].stream \in Joiners
              /\ h.players[k].identifier = a[h.players[k].stream] /\ a[h.players[k].stream] # 0
  <2>1. PICK l \in 2 .. n : h.players[k] = g.players[l]
    BY <1>9
  <2> QED
    BY <2>1 DEF Roster, n
<1>11. ASSUME NEW k \in 2 .. Len(h.players), NEW i \in 2 .. Len(h.players),
              h.players[k].stream = h.players[i].stream
       PROVE  k = i
  <2>1. PICK l \in 2 .. n : h.players[k] = g.players[l] /\ l = IF k < hole THEN k ELSE k + 1
    BY <1>9
  <2>2. PICK q \in 2 .. n : h.players[i] = g.players[q] /\ q = IF i < hole THEN i ELSE i + 1
    BY <1>9
  <2>3. l = q
    BY <1>3, <1>11, <2>1, <2>2
  <2> QED
    BY <1>1, <1>2, <1>5, <2>1, <2>2, <2>3
<1>12. \A t \in Joiners : h.clients[t] \in Members <=> t \in Streams(h.players)
  <2> TAKE t \in Joiners
  <2>1. g.clients[t] \in Members <=> t \in Streams(g.players)
    BY DEF Roster
  <2> QED
    BY <1>7, <2>1
<1>13. Roster(h, a)
  BY <1>8, <1>10, <1>11, <1>12 DEF Roster
<1> QED
  BY <1>5, <1>7, <1>13 DEF n

\* The record that Erased makes of a gatherer.
LEMMA ErasedIsGatherer ==
  ASSUME NEW g \in Gatherers, NEW S
  PROVE  /\ Erased(g, S) \in Gatherers
         /\ Erased(g, S).net = g.net /\ Erased(g, S).players = g.players
         /\ Erased(g, S).nextIdentifier = g.nextIdentifier
         /\ Erased(g, S).ungathered = g.ungathered
         /\ Erased(g, S).startable = g.startable /\ Erased(g, S).wire = g.wire
         /\ Erased(g, S).up = g.up \ S
         /\ \A t \in Joiners :
              /\ Erased(g, S).clients[t] = IF t \in S THEN "no_client" ELSE g.clients[t]
              /\ Erased(g, S).out[t] = IF t \in S THEN << >> ELSE g.out[t]
<1> DEFINE h == Erased(g, S)
           clients == [t \in Joiners |-> IF t \in S THEN "no_client" ELSE g.clients[t]]
           out == [t \in Joiners |-> IF t \in S THEN << >> ELSE g.out[t]]
<1>1. clients \in [Joiners -> {"no_client"} \cup ClientStates] /\ out \in [Joiners -> Seq(Messages)]
  BY DEF Gatherers
<1>2. h = [g EXCEPT !.clients = clients, !.up = g.up \ S, !.out = out]
  BY DEF Erased, Gatherers
<1>3. \A t \in Joiners : /\ clients[t] = IF t \in S THEN "no_client" ELSE g.clients[t]
                         /\ out[t] = IF t \in S THEN << >> ELSE g.out[t]
  OBVIOUS
<1> HIDE DEF h, clients, out
<1>4. h \in Gatherers
  BY <1>1, <1>2 DEF Gatherers
<1>5. /\ h.net = g.net /\ h.players = g.players /\ h.nextIdentifier = g.nextIdentifier
      /\ h.ungathered = g.ungathered /\ h.startable = g.startable /\ h.wire = g.wire
      /\ h.up = g.up \ S /\ h.clients = clients /\ h.out = out
  BY <1>2 DEF Gatherers
<1> QED
  BY <1>3, <1>4, <1>5 DEF h

\* A client who is not a player is dropped.
LEMMA ListedIsDropped ==
  ASSUME NEW g \in Gatherers, NEW a, NEW rest, NEW js, NEW knocks, NEW s \in Joiners,
         Fits(g, a, rest, js, linked, knocks), g.net = "gathering",
         s \notin g.up, g.clients[s] # "no_client", g.clients[s] # "awaiting_map"
  PROVE  /\ VisitOf(g, Erased(Dropped(g, s), {s}), s)
         /\ Fits(Erased(Dropped(g, s), {s}), a, rest, js, linked, knocks)
<1> DEFINE d == Dropped(g, s)
           h == Erased(d, {s})
<1>1. Talks(s, a[s], g, rest[s], js[s], linked, knocks) /\ Stage(g) /\ Roster(g, a)
  BY DEF Fits
<1>2. s \notin linked /\ g.out[s] = << >> /\ s \notin knocks /\ g.wire[s] = << >>
      /\ Knows(s, a[s], js[s])
      /\ Leaves(s, a[s], g.clients[s], g.net, g.players, rest[s], js[s])
  BY <1>1 DEF Talks
<1>3. g.clients[s] \notin Members
  BY <1>1 DEF Stage, Members
<1>4. d = IF g.clients[s] = "connected" THEN [g EXCEPT !.ungathered = @ \ {s}] ELSE g
  BY DEF Dropped
<1> HIDE DEF d
<1>5. /\ d \in Gatherers /\ d.net = g.net /\ d.players = g.players /\ d.clients = g.clients
      /\ d.up = g.up /\ d.nextIdentifier = g.nextIdentifier /\ d.startable = g.startable
      /\ d.out = g.out /\ d.wire = g.wire /\ d.ungathered \in {g.ungathered, g.ungathered \ {s}}
      /\ g.clients[s] = "connected" => d.ungathered = g.ungathered \ {s}
  <2>1. CASE g.clients[s] = "connected"
    <3>1. d = [g EXCEPT !.ungathered = @ \ {s}]
      BY <1>4, <2>1
    <3> QED
      BY <3>1 DEF Gatherers
  <2>2. CASE g.clients[s] # "connected"
    BY <1>4, <2>2
  <2> QED
    BY <2>1, <2>2
<1>6. s \notin d.ungathered
  BY <1>1, <1>5 DEF Stage, InState
<1>7. /\ h \in Gatherers /\ h.net = g.net /\ h.players = g.players
      /\ h.nextIdentifier = g.nextIdentifier /\ h.ungathered = d.ungathered
      /\ h.startable = g.startable /\ h.wire = g.wire /\ h.up = g.up
      /\ h.clients[s] = "no_client" /\ h.out[s] = << >>
      /\ \A t \in Joiners \ {s} : h.clients[t] = g.clients[t] /\ h.out[t] = g.out[t]
  <2>1. d \in Gatherers /\ g.up \ {s} = g.up
    BY <1>5
  <2>2. /\ h \in Gatherers /\ h.net = d.net /\ h.players = d.players
        /\ h.nextIdentifier = d.nextIdentifier /\ h.ungathered = d.ungathered
        /\ h.startable = d.startable /\ h.wire = d.wire /\ h.up = d.up \ {s}
    BY <2>1, ErasedIsGatherer, Zenon
  <2>3. \A t \in Joiners : /\ h.clients[t] = IF t \in {s} THEN "no_client" ELSE d.clients[t]
                          /\ h.out[t] = IF t \in {s} THEN << >> ELSE d.out[t]
    BY <2>1, ErasedIsGatherer, Zenon
  <2> HIDE DEF h
  <2> QED
    BY <1>5, <2>1, <2>2, <2>3
<1> HIDE DEF h
<1>8. ChangesOne(s, g, h)
  <2>1. \A t \in Joiners \ {s} : t \in h.ungathered <=> t \in g.ungathered
    BY <1>5, <1>7
  <2>2. h.clients[s] \notin Members
    BY <1>7 DEF Members
  <2> QED
    BY <1>3, <1>6, <1>7, <2>1, <2>2 DEF ChangesOne
<1>9. Talks(s, a[s], h, rest[s], js[s], linked, knocks)
  <2>1. Leaves(s, a[s], "no_client", g.net, g.players, rest[s], js[s])
    BY <1>2 DEF Leaves
  <2> QED
    BY <1>2, <1>7, <2>1 DEF Talks, Candidates, Members
<1>10. Fits(h, a, rest, js, linked, knocks)
  BY <1>7, <1>8, <1>9, OneClientChanges
<1>11. VisitOf(g, h, s)
  BY <1>7 DEF VisitOf
<1> QED
  BY <1>10, <1>11 DEF h, d

\* A player is dropped, and the others are told.
LEMMA PlayerIsDropped ==
  ASSUME NEW g \in Gatherers, NEW a, NEW rest, NEW js \in [Joiners -> JoinerRecords],
         NEW knocks, NEW s \in Joiners,
         Fits(g, a, rest, js, linked, knocks), g.net = "gathering",
         s \notin g.up, g.clients[s] = "awaiting_map"
  PROVE  /\ VisitOf(g, Erased(Dropped(g, s), {s}), s)
         /\ Fits(Erased(Dropped(g, s), {s}), a, rest, js, linked, knocks)
<1> DEFINE left == WithoutPlayer(g, s)
           fewer == [g EXCEPT !.players = left, !.startable = @ /\ Len(left) > 1]
           m == Topology("dropped_player", fewer.players)
           d == Enqueued(fewer, Streams(fewer.players), m)
           h == Erased(d, {s})
<1>1. Talks(s, a[s], g, rest[s], js[s], linked, knocks) /\ Stage(g) /\ Roster(g, a)
      /\ Assigns(g, a)
  BY DEF Fits
<1>2. s \notin linked /\ g.out[s] = << >> /\ s \notin knocks /\ g.wire[s] = << >>
      /\ Knows(s, a[s], js[s])
      /\ Leaves(s, a[s], g.clients[s], g.net, g.players, rest[s], js[s])
  BY <1>1 DEF Talks
<1>3. s \in Streams(g.players)
  BY <1>1 DEF Roster, Members
<1>4. Dropped(g, s) = d
  BY <1>3 DEF Dropped, Distributed
<1>5. /\ left \in Seq(Players) /\ Len(g.players) > 1
  <2> DEFINE k == [g EXCEPT !.players = left, !.clients[s] = "no_client"]
  <2>1. k.players = left /\ k.clients[s] = "no_client"
        /\ \A t \in Joiners \ {s} : k.clients[t] = g.clients[t]
    BY DEF Gatherers
  <2>2. k.clients[s] \notin Members
    BY <2>1 DEF Members
  <2> HIDE DEF k
  <2> QED
    <3>1. Assigns(g, a) /\ Roster(g, a)
      BY <1>1
    <3>2. k.players = WithoutPlayer(g, s)
      BY <2>1 DEF left
    <3>3. \A t \in Joiners \ {s} : k.clients[t] = g.clients[t]
      BY <2>1
    <3> QED
      BY <1>3, <2>2, <3>1, <3>2, <3>3, RosterShrinks DEF left
<1> HIDE DEF left
<1>6. /\ fewer \in Gatherers /\ fewer.net = g.net /\ fewer.players = left
      /\ fewer.clients = g.clients /\ fewer.up = g.up
      /\ fewer.nextIdentifier = g.nextIdentifier /\ fewer.ungathered = g.ungathered
      /\ fewer.startable = (g.startable /\ Len(left) > 1) /\ fewer.out = g.out
      /\ fewer.wire = g.wire
  BY <1>5 DEF Gatherers
<1> HIDE DEF fewer
<1>7. m \in Messages
  BY <1>5, <1>6, MessagesAreMessages
<1> HIDE DEF m
<1>8. /\ d \in Gatherers /\ d.net = g.net /\ d.players = left
      /\ d.clients = g.clients /\ d.up = g.up
      /\ d.nextIdentifier = g.nextIdentifier /\ d.ungathered = g.ungathered
      /\ d.startable = (g.startable /\ Len(left) > 1) /\ d.wire = g.wire
  <2>0. fewer \in Gatherers
    BY <1>6
  <2>1. /\ d \in Gatherers /\ d.net = fewer.net /\ d.players = fewer.players
        /\ d.clients = fewer.clients /\ d.up = fewer.up
        /\ d.nextIdentifier = fewer.nextIdentifier /\ d.ungathered = fewer.ungathered
        /\ d.startable = fewer.startable /\ d.wire = fewer.wire
    BY <2>0, <1>7, EnqueuedIsGatherer
  <2> HIDE DEF d
  <2> QED
    BY <1>6, <2>1
<1>9. \A t \in Joiners : d.out[t] =
        IF t \in Streams(left) /\ t \in g.up THEN Append(g.out[t], m) ELSE g.out[t]
  <2>0. fewer \in Gatherers
    BY <1>6
  <2>1. \A t \in Joiners : d.out[t] =
          IF t \in Streams(fewer.players) /\ t \in fewer.up THEN Append(fewer.out[t], m)
          ELSE fewer.out[t]
    BY <2>0, <1>7, EnqueuedIsGatherer
  <2> HIDE DEF d
  <2> QED
    BY <1>6, <2>1
<1> HIDE DEF d
<1>10. /\ h \in Gatherers /\ h.net = g.net /\ h.players = left
       /\ h.nextIdentifier = g.nextIdentifier /\ h.ungathered = g.ungathered
       /\ h.startable = (g.startable /\ Len(left) > 1) /\ h.wire = g.wire /\ h.up = g.up
       /\ h.clients[s] = "no_client" /\ h.out[s] = << >>
  <2>1. /\ h \in Gatherers /\ h.net = d.net /\ h.players = d.players
        /\ h.nextIdentifier = d.nextIdentifier /\ h.ungathered = d.ungathered
        /\ h.startable = d.startable /\ h.wire = d.wire /\ h.up = d.up \ {s}
    BY <1>8, ErasedIsGatherer, ZenonT(60)
  <2>2. /\ h.clients[s] = IF s \in {s} THEN "no_client" ELSE d.clients[s]
        /\ h.out[s] = IF s \in {s} THEN << >> ELSE d.out[s]
    BY <1>8, ErasedIsGatherer, Zenon
  <2> HIDE DEF h
  <2> QED
    BY <1>8, <2>1, <2>2
<1>11. \A t \in Joiners \ {s} : h.clients[t] = g.clients[t] /\ h.out[t] = d.out[t]
  <2>1. \A t \in Joiners : /\ h.clients[t] = IF t \in {s} THEN "no_client" ELSE d.clients[t]
                          /\ h.out[t] = IF t \in {s} THEN << >> ELSE d.out[t]
    BY <1>8, ErasedIsGatherer, Zenon
  <2> HIDE DEF h
  <2> QED
    BY <1>8, <2>1
<1> HIDE DEF h
<1>12. Assigns(h, a)
  BY <1>1, <1>10 DEF Assigns
<1>13. /\ Roster(h, a)
       /\ \A t \in Joiners : t \in Streams(h.players) <=> t \in Streams(g.players) /\ t # s
  <2>1. h.clients[s] \notin Members /\ h.players = WithoutPlayer(g, s)
    BY <1>10 DEF Members, left
  <2> QED
    BY <1>1, <1>3, <1>11, <2>1, RosterShrinks
<1>14. Stage(h)
  <2>1. InState(h, "connected") = InState(g, "connected")
    BY <1>10, <1>11 DEF InState
  <2>2. h.ungathered = InState(h, "connected")
    BY <1>1, <1>10, <2>1 DEF Stage
  <2>3. \A t \in Joiners : h.clients[t] # "in_game"
    BY <1>1, <1>10, <1>11 DEF Stage
  <2>4. g.startable = (Len(g.players) > 1)
    BY <1>1 DEF Stage
  <2>5. h.startable = (Len(h.players) > 1)
    <3>1. h.startable = (g.startable /\ Len(left) > 1) /\ h.players = left
      BY <1>10
    <3>2. g.startable = (Len(g.players) > 1) /\ Len(g.players) > 1
      BY <1>5, <2>4
    <3> QED
      <4>1. g.startable = TRUE
        BY <3>2
      <4>2. h.startable = (TRUE /\ Len(h.players) > 1)
        BY <3>1, <4>1, Zenon
      <4>3. (TRUE /\ Len(h.players) > 1) = (Len(h.players) > 1)
        OBVIOUS
      <4> QED
        BY <4>2, <4>3, Zenon
  <2> QED
    BY <1>10, <2>2, <2>3, <2>5 DEF Stage
<1>15. Talks(s, a[s], h, rest[s], js[s], linked, knocks)
  <2>1. Leaves(s, a[s], "no_client", h.net, h.players, rest[s], js[s])
    BY <1>2, <1>10 DEF Leaves
  <2> QED
    BY <1>2, <1>10, <2>1 DEF Talks, Candidates, Members
<1>16. ASSUME NEW t \in Joiners, t # s PROVE Talks(t, a[t], h, rest[t], js[t], linked, knocks)
  <2>1. m = Topology("dropped_player", h.players)
    BY <1>6, <1>10 DEF m
  <2>2. h.out[t] = IF t \in Streams(h.players) /\ t \in g.up
                   THEN Append(g.out[t], Topology("dropped_player", h.players)) ELSE g.out[t]
    BY <1>9, <1>10, <1>11, <1>16, <2>1
  <2>3. h.clients[t] = g.clients[t] /\ h.wire[t] = g.wire[t] /\ (t \in h.up <=> t \in g.up)
    BY <1>10, <1>11, <1>16
  <2> QED
    BY <1>10, <1>12, <1>13, <2>2, <2>3, OthersAreTold
<1>17. Fits(h, a, rest, js, linked, knocks)
  BY <1>12, <1>13, <1>14, <1>15, <1>16 DEF Fits
<1>18. VisitOf(g, h, s)
  BY <1>10, <1>11 DEF VisitOf
<1> QED
  BY <1>4, <1>17, <1>18 DEF h

\* What may have arrived of a joiner, and whether his end may show.
MayArrive(g, s, arrived, ended) ==
  /\ arrived[s] \in Nat /\ arrived[s] <= IF s \in g.up THEN Len(toGatherer[s]) ELSE 0
  /\ s \in ended => s \notin linked /\ s \in g.up

AllUnread(arrived, ended) == [s \in Joiners |-> Unread(s, arrived, ended)]

----------------------------------------------------------------------------
(* The loops over the clients. *)

\* What is left of what the joiners have sent.
LEMMA UnreadIsTyped ==
  ASSUME NEW s \in Joiners, NEW arrived, NEW ended, toGatherer[s] \in Seq(Messages),
         arrived[s] \in Nat
  PROVE  /\ Unread(s, arrived, ended) \in Seq(Messages)
         /\ arrived[s] = 0 /\ s \notin ended => Unread(s, arrived, ended) = toGatherer[s]
<1>1. SubSeq(toGatherer[s], arrived[s] + 1, Len(toGatherer[s])) \in Seq(Messages)
  BY SubSeqProperties
<1>2. << >> \in Seq(Messages)
  OBVIOUS
<1>3. SubSeq(toGatherer[s], 1, Len(toGatherer[s])) = toGatherer[s]
  BY SubSeqFull
<1>4. ASSUME arrived[s] = 0, s \notin ended PROVE Unread(s, arrived, ended) = toGatherer[s]
  <2>1. Unread(s, arrived, ended) = SubSeq(toGatherer[s], 0 + 1, Len(toGatherer[s]))
    BY <1>4 DEF Unread
  <2>2. 0 + 1 = 1
    OBVIOUS
  <2> QED
    BY <1>3, <2>1, <2>2, Zenon
<1> QED
  BY <1>1, <1>2, <1>4 DEF Unread

\* NetCheckForNewJoiner comes to one client, whose channel is connected or not.
LEMMA VisitedFits ==
  ASSUME NEW g \in Gatherers, NEW a \in [Joiners -> Nat],
         NEW rest \in [Joiners -> Seq(Messages)],
         NEW js \in [Joiners -> JoinerRecords], NEW knocks, NEW s \in Joiners,
         NEW arrived, NEW ended,
         Fits(g, a, rest, js, linked, knocks), g.net = "gathering", g.clients[s] # "no_client",
         rest[s] = toGatherer[s], MayArrive(g, s, arrived, ended)
  PROVE  /\ VisitOf(g, Visited(g, s, arrived, ended), s)
         /\ Fits(Visited(g, s, arrived, ended), a,
                 [rest EXCEPT ![s] = Unread(s, arrived, ended)], js, linked, knocks)
<1>1. CASE s \in g.up
  <2>1. arrived[s] \in Nat /\ arrived[s] <= Len(rest[s]) /\ (s \in ended => s \notin linked)
    BY <1>1 DEF MayArrive
  <2>2. Visited(g, s, arrived, ended) = Pumped(g, s, arrived, ended)
    BY <1>1 DEF Visited
  <2>3. /\ VisitOf(g, Pumped(g, s, arrived, ended), s)
        /\ Fits(Pumped(g, s, arrived, ended), a,
                [rest EXCEPT ![s] = Unread(s, arrived, ended)], js, linked, knocks)
    BY <1>1, <2>1, PumpedFits
  <2> QED
    BY <2>2, <2>3, Zenon
<1>2. CASE s \notin g.up
  <2>1. Visited(g, s, arrived, ended) = Erased(Dropped(g, s), {s})
    BY <1>2 DEF Visited
  <2>2. /\ VisitOf(g, Erased(Dropped(g, s), {s}), s)
        /\ Fits(Erased(Dropped(g, s), {s}), a, rest, js, linked, knocks)
    <3>1. CASE g.clients[s] = "awaiting_map"
      BY <1>2, <3>1, PlayerIsDropped
    <3>2. CASE g.clients[s] # "awaiting_map"
      BY <1>2, <3>2, ListedIsDropped
    <3> QED
      BY <3>1, <3>2
  <2>3. Unread(s, arrived, ended) = rest[s]
    <3>1. arrived[s] = 0 /\ s \notin ended /\ arrived[s] \in Nat
      BY <1>2 DEF MayArrive
    <3>2. toGatherer[s] \in Seq(Messages)
      <4>1. rest[s] \in Seq(Messages)
        OBVIOUS
      <4> QED
        BY <4>1
    <3> QED
      BY <3>1, <3>2, UnreadIsTyped
  <2>4. [rest EXCEPT ![s] = Unread(s, arrived, ended)] = rest
    BY <2>3
  <2> QED
    BY <2>1, <2>2, <2>4, Zenon
<1> QED
  BY <1>1, <1>2

\* A round of visits, whatever is done at each of them.
Visits(d, step, start, S) ==
  /\ d[0] = start
  /\ \A k \in Joiners : d[k - 1] \in Gatherers =>
                       d[k] = IF k \in S THEN step[k][d[k - 1]] ELSE d[k - 1]

VisitFits(step, start, S, a, arrived, ended) ==
  \A g \in Gatherers, s \in S, rest \in [Joiners -> Seq(Messages)] :
    /\ Fits(g, a, rest, joiner, linked, knocking')
    /\ g.net = start.net /\ g.clients[s] = start.clients[s] /\ (s \in g.up <=> s \in start.up)
    /\ rest[s] = toGatherer[s]
    => /\ VisitOf(g, step[s][g], s)
       /\ Fits(step[s][g], a, [rest EXCEPT ![s] = Unread(s, arrived, ended)],
               joiner, linked, knocking')

\* A round of visits keeps the invariant, if each visit does.
LEMMA VisitsFit ==
  ASSUME NEW start \in Gatherers, NEW a, toGatherer \in [Joiners -> Seq(Messages)],
         NEW arrived, NEW ended, NEW S \in SUBSET Joiners, NEW step, NEW d,
         Fits(start, a, toGatherer, joiner, linked, knocking'),
         \A s \in Joiners : arrived[s] \in Nat,
         \A s \in Joiners \ S : arrived[s] = 0 /\ s \notin ended,
         VisitFits(step, start, S, a, arrived, ended), Visits(d, step, start, S)
  PROVE  /\ \A k \in 0 .. NumJoiners : d[k] \in Gatherers
         /\ d[NumJoiners].net = start.net
         /\ (start.net = "active" => d[NumJoiners].players = start.players)
         /\ Fits(d[NumJoiners], a, AllUnread(arrived, ended), joiner, linked, knocking')
<1> DEFINE rest(k) == [s \in Joiners |-> IF s <= k THEN Unread(s, arrived, ended) ELSE toGatherer[s]]
           T == [k \in 0 .. NumJoiners |->
                  {g \in Gatherers :
                     /\ g.net = start.net /\ Fits(g, a, rest(k), joiner, linked, knocking')
                     /\ (start.net = "active" => g.players = start.players)
                     /\ \A s \in Joiners : s > k => /\ g.clients[s] = start.clients[s]
                                                    /\ (s \in g.up <=> s \in start.up)}]
<1>1. /\ NumJoiners \in Nat /\ Joiners = 1 .. NumJoiners
      /\ \A s \in Joiners : /\ Unread(s, arrived, ended) \in Seq(Messages)
                            /\ s \notin S => Unread(s, arrived, ended) = toGatherer[s]
  BY UnreadIsTyped, GatheringAssumption DEF Joiners
<1>2. \A k : rest(k) \in [Joiners -> Seq(Messages)]
  BY <1>1
<1>3. d[0] \in T[0]
  <2>1. rest(0) = toGatherer
    BY <1>1
  <2>2. d[0] = start
    BY DEF Visits
  <2> HIDE DEF rest
  <2> QED
    BY <1>1, <2>1, <2>2
<1>4. ASSUME NEW k \in 1 .. NumJoiners, d[k - 1] \in T[k - 1] PROVE d[k] \in T[k]
  <2> DEFINE g == d[k - 1]
             before == rest(k - 1)
             after == rest(k)
  <2>1. /\ g \in Gatherers /\ g.net = start.net /\ Fits(g, a, before, joiner, linked, knocking')
        /\ (start.net = "active" => g.players = start.players)
        /\ \A s \in Joiners : s > k - 1 => /\ g.clients[s] = start.clients[s]
                                           /\ (s \in g.up <=> s \in start.up)
    <3> HIDE DEF rest
    <3>1. k - 1 \in 0 .. NumJoiners
      BY <1>1
    <3> QED
      BY <1>4, <3>1
  <2>2. k \in Joiners /\ before \in [Joiners -> Seq(Messages)] /\ before[k] = toGatherer[k]
        /\ after = [before EXCEPT ![k] = Unread(k, arrived, ended)]
    <3>1. k \in Joiners /\ k \in Int
      BY <1>1
    <3>2. before \in [Joiners -> Seq(Messages)]
      BY <1>2
    <3>3. before[k] = toGatherer[k]
      <4>1. ~ (k <= k - 1)
        BY <3>1
      <4> QED
        BY <3>1, <4>1
    <3>4. after = [before EXCEPT ![k] = Unread(k, arrived, ended)]
      <4>1. ASSUME NEW s \in Joiners, s # k PROVE after[s] = before[s]
        <5>1. s <= k <=> s <= k - 1
          BY <1>1, <3>1, <4>1
        <5> QED
          BY <4>1, <5>1
      <4>2. after[k] = Unread(k, arrived, ended)
        BY <3>1
      <4>3. /\ after = [s \in Joiners |-> after[s]]
            /\ [before EXCEPT ![k] = Unread(k, arrived, ended)] =
                 [s \in Joiners |-> IF s = k THEN Unread(k, arrived, ended) ELSE before[s]]
        OBVIOUS
      <4> HIDE DEF after, before
      <4> QED
        BY <4>1, <4>2, <4>3
    <3> QED
      BY <3>1, <3>2, <3>3, <3>4, Zenon
  <2>3. d[k] = IF k \in S THEN step[k][g] ELSE g
    BY <2>1, <2>2 DEF Visits
  <2> HIDE DEF g, before, after
  <2>4. /\ d[k] \in Gatherers /\ d[k].net = start.net
        /\ (start.net = "active" => d[k].players = start.players)
        /\ Fits(d[k], a, after, joiner, linked, knocking')
        /\ \A s \in Joiners : s > k => /\ d[k].clients[s] = start.clients[s]
                                       /\ (s \in d[k].up <=> s \in start.up)
    <3>1. CASE k \in S
      <4>1. g.clients[k] = start.clients[k] /\ (k \in g.up <=> k \in start.up)
        BY <1>1, <2>1, <2>2
      <4>2. /\ VisitOf(g, step[k][g], k)
            /\ Fits(step[k][g], a, [before EXCEPT ![k] = Unread(k, arrived, ended)],
                    joiner, linked, knocking')
        BY <2>1, <2>2, <3>1, <4>1 DEF VisitFits
      <4>3. d[k] = step[k][g]
        BY <2>3, <3>1
      <4>4. \A s \in Joiners : s > k => s # k /\ s > k - 1
        BY <1>1
      <4> QED
        BY <2>1, <2>2, <4>2, <4>3, <4>4 DEF VisitOf
    <3>2. CASE k \notin S
      <4>1. after = before
        BY <1>1, <2>2, <3>2
      <4>2. \A s \in Joiners : s > k => s > k - 1
        BY <1>1
      <4> QED
        BY <2>1, <2>3, <3>2, <4>1, <4>2
    <3> QED
      BY <3>1, <3>2
  <2> HIDE DEF rest
  <2>5. k \in 0 .. NumJoiners
    BY <1>1
  <2>6. T[k] = {f \in Gatherers :
                  /\ f.net = start.net /\ Fits(f, a, rest(k), joiner, linked, knocking')
                  /\ (start.net = "active" => f.players = start.players)
                  /\ \A s \in Joiners : s > k => /\ f.clients[s] = start.clients[s]
                                                 /\ (s \in f.up <=> s \in start.up)}
    BY <2>5
  <2> HIDE DEF T
  <2> QED
    BY <2>4, <2>6 DEF after
<1> HIDE DEF T
<1>5. \A k \in 0 .. NumJoiners : d[k] \in T[k]
  <2> TAKE k \in 0 .. NumJoiners
  <2>1. k \in Nat /\ \A i \in 1 .. k : d[i - 1] \in T[i - 1] => d[i] \in T[i]
    BY <1>1, <1>4
  <2> QED
    BY <1>3, <2>1, LoopsKeep
<1>6. rest(NumJoiners) = AllUnread(arrived, ended)
  BY <1>1 DEF AllUnread
<1>7. \A k \in 0 .. NumJoiners : d[k] \in Gatherers
  BY <1>5 DEF T
<1>8. NumJoiners \in 0 .. NumJoiners
  BY <1>1
<1>9. d[NumJoiners].net = start.net
      /\ (start.net = "active" => d[NumJoiners].players = start.players)
      /\ Fits(d[NumJoiners], a, rest(NumJoiners), joiner, linked, knocking')
  <2> HIDE DEF rest
  <2> QED
    BY <1>5, <1>8 DEF T
<1> QED
  BY <1>6, <1>7, <1>9, Zenon

IsRound(h) == h = [k \in 0 .. NumJoiners |-> h[k]]

\* A round of visits has a result.
LEMMA VisitsEnd ==
  ASSUME NEW start, NEW S, NEW step
  PROVE  \E h : Visits(h, step, start, S) /\ IsRound(h)
<1> DEFINE next == [i \in Joiners |-> [g \in Gatherers |-> IF i \in S THEN step[i][g] ELSE g]]
<1>1. NumJoiners \in Nat
  BY GatheringAssumption
<1>2. PICK h : Loop(h, NumJoiners, start, next)
  <2> HIDE DEF next
  <2> QED
    BY <1>1, LoopsEnd
<1>3. h = [i \in 0 .. NumJoiners |-> IF i = 0 THEN start ELSE next[i][h[i - 1]]]
  <2> HIDE DEF next
  <2> QED
    BY <1>2 DEF Loop
<1>4. h = [k \in 0 .. NumJoiners |-> h[k]] /\ h[0] = start
  <2> HIDE DEF next
  <2> QED
    BY <1>1, <1>3
<1>5. ASSUME NEW k \in Joiners, h[k - 1] \in Gatherers
      PROVE  h[k] = IF k \in S THEN step[k][h[k - 1]] ELSE h[k - 1]
  <2>1. k \in 0 .. NumJoiners /\ k # 0
    BY <1>1 DEF Joiners
  <2>2. h[k] = next[k][h[k - 1]]
    <3> HIDE DEF next
    <3> QED
      BY <1>3, <2>1
  <2>3. \A g \in Gatherers : next[k][g] = IF k \in S THEN step[k][g] ELSE g
    OBVIOUS
  <2> HIDE DEF next
  <2> QED
    BY <1>5, <2>2, <2>3
<1> QED
  BY <1>4, <1>5 DEF Visits, IsRound

\* The dialog's round.
DialogRound(d, start, S, arrived, ended) ==
  d = [s \in 0 .. NumJoiners |->
         IF s = 0 THEN start
         ELSE IF s \in S THEN Visited(d[s - 1], s, arrived, ended) ELSE d[s - 1]]

\* What the round comes to.
DialogRoundEnds(start, arrived, ended) ==
  (CHOOSE d : DialogRound(d, start, Clients(start), arrived, ended))[NumJoiners]

\* The round of NetCheckForNewJoiner.
LEMMA RoundFits ==
  ASSUME NEW start \in Gatherers, NEW a \in [Joiners -> Nat],
         joiner \in [Joiners -> JoinerRecords], toGatherer \in [Joiners -> Seq(Messages)],
         NEW arrived, NEW ended,
         Fits(start, a, toGatherer, joiner, linked, knocking'), start.net = "gathering",
         \A s \in Joiners : MayArrive(start, s, arrived, ended),
         \A s \in Joiners \ Clients(start) : arrived[s] = 0 /\ s \notin ended,
         NEW done,
         done = DialogRoundEnds(start, arrived, ended)
  PROVE  /\ done \in Gatherers /\ done.net = "gathering"
         /\ Fits(done, a, AllUnread(arrived, ended), joiner, linked, knocking')
<1> DEFINE S == Clients(start)
           step == [s \in Joiners |-> [g \in Gatherers |-> Visited(g, s, arrived, ended)]]
           Runs(d) == DialogRound(d, start, S, arrived, ended)
           d == CHOOSE e : Runs(e)
<1>1. /\ S \in SUBSET Joiners /\ \A s \in S : start.clients[s] # "no_client"
      /\ \A s \in Joiners : arrived[s] \in Nat
      /\ \A s \in Joiners \ S : arrived[s] = 0 /\ s \notin ended
  BY DEF Clients, MayArrive
<1>2. done = d[NumJoiners]
  BY DEF DialogRoundEnds
<1> HIDE DEF S
<1>3. VisitFits(step, start, S, a, arrived, ended)
  <2> SUFFICES ASSUME NEW g \in Gatherers, NEW s \in S, NEW rest \in [Joiners -> Seq(Messages)],
                      Fits(g, a, rest, joiner, linked, knocking'),
                      g.net = start.net, g.clients[s] = start.clients[s],
                      s \in g.up <=> s \in start.up, rest[s] = toGatherer[s]
               PROVE  /\ VisitOf(g, step[s][g], s)
                      /\ Fits(step[s][g], a, [rest EXCEPT ![s] = Unread(s, arrived, ended)],
                              joiner, linked, knocking')
    BY DEF VisitFits
  <2>1. s \in Joiners /\ step[s][g] = Visited(g, s, arrived, ended)
    BY <1>1
  <2>2. g.clients[s] # "no_client" /\ g.net = "gathering"
    BY <1>1
  <2>3. MayArrive(g, s, arrived, ended)
    BY <2>1 DEF MayArrive
  <2>4. /\ VisitOf(g, Visited(g, s, arrived, ended), s)
        /\ Fits(Visited(g, s, arrived, ended), a,
                [rest EXCEPT ![s] = Unread(s, arrived, ended)], joiner, linked, knocking')
    BY <2>1, <2>2, <2>3, VisitedFits
  <2> HIDE DEF step
  <2> QED
    BY <2>1, <2>4, Zenon
<1>4. ASSUME NEW e, Visits(e, step, start, S)
      PROVE  /\ \A k \in 0 .. NumJoiners : e[k] \in Gatherers
             /\ e[NumJoiners].net = start.net
             /\ (start.net = "active" => e[NumJoiners].players = start.players)
             /\ Fits(e[NumJoiners], a, AllUnread(arrived, ended), joiner, linked, knocking')
  <2> HIDE DEF step
  <2> QED
    BY <1>1, <1>3, <1>4, VisitsFit, Zenon
<1>5. PICK h : Visits(h, step, start, S) /\ IsRound(h)
  <2> HIDE DEF step
  <2> QED
    BY VisitsEnd
<1>6. \A k \in 0 .. NumJoiners : h[k] \in Gatherers
  <2> HIDE DEF step
  <2> QED
    BY <1>4, <1>5
<1>7. Runs(h)
  <2>1. ASSUME NEW k \in 0 .. NumJoiners
        PROVE  h[k] = IF k = 0 THEN start
                      ELSE IF k \in S THEN Visited(h[k - 1], k, arrived, ended) ELSE h[k - 1]
    <3>1. CASE k = 0
      BY <1>5, <3>1 DEF Visits
    <3>2. CASE k # 0
      <4>1. k \in Joiners /\ k - 1 \in 0 .. NumJoiners
        BY <3>2, GatheringAssumption DEF Joiners
      <4>2. h[k - 1] \in Gatherers
        BY <1>6, <4>1
      <4>3. h[k] = IF k \in S THEN step[k][h[k - 1]] ELSE h[k - 1]
        <5> HIDE DEF step
        <5> QED
          BY <1>5, <4>1, <4>2 DEF Visits
      <4>4. step[k][h[k - 1]] = Visited(h[k - 1], k, arrived, ended)
        BY <4>1, <4>2
      <4> HIDE DEF step
      <4> QED
        BY <3>2, <4>3, <4>4
    <3> QED
      BY <3>1, <3>2
  <2> DEFINE body == [k \in 0 .. NumJoiners |->
                        IF k = 0 THEN start
                        ELSE IF k \in S THEN Visited(h[k - 1], k, arrived, ended) ELSE h[k - 1]]
  <2>2. [k \in 0 .. NumJoiners |-> h[k]] = body
    BY <2>1
  <2> HIDE DEF body
  <2>3. h = body
    BY <1>5, <2>2 DEF IsRound
  <2> QED
    BY <2>3 DEF body, DialogRound
<1>8. Runs(d)
  <2> HIDE DEF Runs
  <2> QED
    BY <1>7
<1> HIDE DEF d
<1>9. Visits(d, step, start, S)
  <2>1. d[0] = start
    BY <1>8, GatheringAssumption DEF DialogRound
  <2>2. ASSUME NEW k \in Joiners, d[k - 1] \in Gatherers
        PROVE  d[k] = IF k \in S THEN step[k][d[k - 1]] ELSE d[k - 1]
    <3>1. k \in 0 .. NumJoiners /\ k # 0
      BY GatheringAssumption DEF Joiners
    <3>2. d[k] = IF k \in S THEN Visited(d[k - 1], k, arrived, ended) ELSE d[k - 1]
      BY <1>8, <3>1 DEF DialogRound
    <3>3. step[k][d[k - 1]] = Visited(d[k - 1], k, arrived, ended)
      BY <2>2
    <3> HIDE DEF step
    <3> QED
      BY <3>2, <3>3
  <2> HIDE DEF step
  <2> QED
    BY <2>1, <2>2 DEF Visits
<1> HIDE DEF step
<1>10. Fits(d[NumJoiners], a, AllUnread(arrived, ended), joiner, linked, knocking')
       /\ d[NumJoiners].net = start.net
  BY <1>4, <1>9, Zenon
<1>11. d[NumJoiners] \in Gatherers
  <2>1. NumJoiners \in 0 .. NumJoiners
    BY GatheringAssumption
  <2> QED
    BY <1>4, <1>9, <2>1
<1> QED
  BY <1>2, <1>10, <1>11

\* The round of the channels in the game.
GameRound(d, start, S, arrived, ended) ==
  d = [s \in 0 .. NumJoiners |->
         IF s = 0 THEN start
         ELSE IF s \in S THEN Pumped(d[s - 1], s, arrived, ended) ELSE d[s - 1]]

\* What it comes to.
GameRoundEnds(start, arrived, ended) ==
  (CHOOSE d : GameRound(d, start, start.up, arrived, ended))[NumJoiners]

\* The round keeps the invariant, and the players.
LEMMA GameRoundFits ==
  ASSUME NEW start \in Gatherers, NEW a \in [Joiners -> Nat],
         joiner \in [Joiners -> JoinerRecords], toGatherer \in [Joiners -> Seq(Messages)],
         NEW arrived, NEW ended,
         Fits(start, a, toGatherer, joiner, linked, knocking'),
         \A s \in Joiners : MayArrive(start, s, arrived, ended),
         \A s \in Joiners \ start.up : arrived[s] = 0 /\ s \notin ended,
         NEW done,
         done = GameRoundEnds(start, arrived, ended)
  PROVE  /\ done \in Gatherers /\ done.net = start.net
         /\ (start.net = "active" => done.players = start.players)
         /\ Fits(done, a, AllUnread(arrived, ended), joiner, linked, knocking')
<1> DEFINE S == start.up
           step == [s \in Joiners |-> [g \in Gatherers |-> Pumped(g, s, arrived, ended)]]
           Runs(d) == GameRound(d, start, S, arrived, ended)
           d == CHOOSE e : Runs(e)
<1>1. /\ S \in SUBSET Joiners
      /\ \A s \in Joiners : arrived[s] \in Nat
      /\ \A s \in Joiners \ S : arrived[s] = 0 /\ s \notin ended
  BY DEF Gatherers, MayArrive
<1>2. done = d[NumJoiners]
  BY DEF GameRoundEnds
<1> HIDE DEF S
<1>3. VisitFits(step, start, S, a, arrived, ended)
  <2> SUFFICES ASSUME NEW g \in Gatherers, NEW s \in S, NEW rest \in [Joiners -> Seq(Messages)],
                      Fits(g, a, rest, joiner, linked, knocking'),
                      g.net = start.net, g.clients[s] = start.clients[s],
                      s \in g.up <=> s \in start.up, rest[s] = toGatherer[s]
               PROVE  /\ VisitOf(g, step[s][g], s)
                      /\ Fits(step[s][g], a, [rest EXCEPT ![s] = Unread(s, arrived, ended)],
                              joiner, linked, knocking')
    BY DEF VisitFits
  <2>1. s \in Joiners /\ step[s][g] = Pumped(g, s, arrived, ended)
    BY <1>1
  <2>2. s \in g.up
    BY DEF S
  <2>3. arrived[s] \in Nat /\ arrived[s] <= Len(rest[s]) /\ (s \in ended => s \notin linked)
    BY <2>1, <2>2 DEF MayArrive
  <2>4. /\ VisitOf(g, Pumped(g, s, arrived, ended), s)
        /\ Fits(Pumped(g, s, arrived, ended), a,
                [rest EXCEPT ![s] = Unread(s, arrived, ended)], joiner, linked, knocking')
    BY <2>1, <2>2, <2>3, PumpedFits
  <2> HIDE DEF step
  <2> QED
    BY <2>1, <2>4, Zenon
<1>4. ASSUME NEW e, Visits(e, step, start, S)
      PROVE  /\ \A k \in 0 .. NumJoiners : e[k] \in Gatherers
             /\ e[NumJoiners].net = start.net
             /\ (start.net = "active" => e[NumJoiners].players = start.players)
             /\ Fits(e[NumJoiners], a, AllUnread(arrived, ended), joiner, linked, knocking')
  <2> HIDE DEF step
  <2> QED
    BY <1>1, <1>3, <1>4, VisitsFit, Zenon
<1>5. PICK h : Visits(h, step, start, S) /\ IsRound(h)
  <2> HIDE DEF step
  <2> QED
    BY VisitsEnd
<1>6. \A k \in 0 .. NumJoiners : h[k] \in Gatherers
  <2> HIDE DEF step
  <2> QED
    BY <1>4, <1>5
<1>7. Runs(h)
  <2>1. ASSUME NEW k \in 0 .. NumJoiners
        PROVE  h[k] = IF k = 0 THEN start
                      ELSE IF k \in S THEN Pumped(h[k - 1], k, arrived, ended) ELSE h[k - 1]
    <3>1. CASE k = 0
      BY <1>5, <3>1 DEF Visits
    <3>2. CASE k # 0
      <4>1. k \in Joiners /\ k - 1 \in 0 .. NumJoiners
        BY <3>2, GatheringAssumption DEF Joiners
      <4>2. h[k - 1] \in Gatherers
        BY <1>6, <4>1
      <4>3. h[k] = IF k \in S THEN step[k][h[k - 1]] ELSE h[k - 1]
        <5> HIDE DEF step
        <5> QED
          BY <1>5, <4>1, <4>2 DEF Visits
      <4>4. step[k][h[k - 1]] = Pumped(h[k - 1], k, arrived, ended)
        BY <4>1, <4>2
      <4> HIDE DEF step
      <4> QED
        BY <3>2, <4>3, <4>4
    <3> QED
      BY <3>1, <3>2
  <2> DEFINE body == [k \in 0 .. NumJoiners |->
                        IF k = 0 THEN start
                        ELSE IF k \in S THEN Pumped(h[k - 1], k, arrived, ended) ELSE h[k - 1]]
  <2>2. [k \in 0 .. NumJoiners |-> h[k]] = body
    BY <2>1
  <2> HIDE DEF body
  <2>3. h = body
    BY <1>5, <2>2 DEF IsRound
  <2> QED
    BY <2>3 DEF body, GameRound
<1>8. Runs(d)
  <2> HIDE DEF Runs
  <2> QED
    BY <1>7
<1> HIDE DEF d
<1>9. Visits(d, step, start, S)
  <2>1. d[0] = start
    BY <1>8, GatheringAssumption DEF GameRound
  <2>2. ASSUME NEW k \in Joiners, d[k - 1] \in Gatherers
        PROVE  d[k] = IF k \in S THEN step[k][d[k - 1]] ELSE d[k - 1]
    <3>1. k \in 0 .. NumJoiners /\ k # 0
      BY GatheringAssumption DEF Joiners
    <3>2. d[k] = IF k \in S THEN Pumped(d[k - 1], k, arrived, ended) ELSE d[k - 1]
      BY <1>8, <3>1 DEF GameRound
    <3>3. step[k][d[k - 1]] = Pumped(d[k - 1], k, arrived, ended)
      BY <2>2
    <3> HIDE DEF step
    <3> QED
      BY <3>2, <3>3
  <2> HIDE DEF step
  <2> QED
    BY <2>1, <2>2 DEF Visits
<1> HIDE DEF step
<1>10. Fits(d[NumJoiners], a, AllUnread(arrived, ended), joiner, linked, knocking')
       /\ d[NumJoiners].net = start.net
       /\ (start.net = "active" => d[NumJoiners].players = start.players)
  BY <1>4, <1>9, Zenon
<1>11. d[NumJoiners] \in Gatherers
  <2>1. NumJoiners \in 0 .. NumJoiners
    BY GatheringAssumption
  <2> QED
    BY <1>4, <1>9, <2>1
<1> QED
  BY <1>2, <1>10, <1>11

----------------------------------------------------------------------------
(* Clients that come, are shown and gathered. *)

\* A connection is accepted from the backlog.
LEMMA AdmittedFits ==
  ASSUME NEW g \in Gatherers, NEW a, NEW rest, NEW js \in [Joiners -> JoinerRecords], NEW knocks,
         NEW s \in Joiners, s \in knocks, g.net = "gathering",
         Fits(g, a, rest, js, linked, knocks)
  PROVE  /\ Admitted(g, s) \in Gatherers /\ Admitted(g, s).net = "gathering"
         /\ Admitted(g, s).clients = [g.clients EXCEPT ![s] = "connecting"]
         /\ Admitted(g, s).up = g.up \cup {s} /\ s \notin g.up
         /\ Fits(Admitted(g, s), a, rest, js, linked, knocks \ {s})
<1> DEFINE h == Admitted(g, s)
<1>1. Talks(s, a[s], g, rest[s], js[s], linked, knocks) /\ Stage(g) /\ Roster(g, a)
      /\ Assigns(g, a) /\ js[s] \in JoinerRecords
  BY DEF Fits
<1>2. /\ g.clients[s] = "no_client" /\ a[s] = 0 /\ rest[s] = << >> /\ js[s].net # "connecting"
      /\ s \notin g.up /\ g.out[s] = << >> /\ Knows(s, a[s], js[s])
      /\ s \in linked => js[s].handler = "awaiting_hello" /\ Coming(s, g, js[s]) = << >>
  BY <1>1 DEF Talks
<1>3. h \in Gatherers
  <2>1. <<Hello>> \in Seq(Messages) /\ "connecting" \in {"no_client"} \cup ClientStates
    BY MessagesAreMessages DEF ClientStates
  <2> QED
    BY <2>1 DEF Admitted, Gatherers
<1>4. /\ h.net = g.net /\ h.players = g.players /\ h.nextIdentifier = g.nextIdentifier
      /\ h.ungathered = g.ungathered /\ h.startable = g.startable /\ h.wire = g.wire
      /\ h.up = g.up \cup {s} /\ h.clients = [g.clients EXCEPT ![s] = "connecting"]
      /\ h.clients[s] = "connecting" /\ h.out[s] = <<Hello>>
      /\ \A t \in Joiners \ {s} : h.clients[t] = g.clients[t] /\ h.out[t] = g.out[t]
  BY DEF Admitted, Gatherers
<1> HIDE DEF h
<1>5. Assigns(h, a)
  BY <1>1, <1>4 DEF Assigns
<1>6. Roster(h, a)
  <2>1. h.clients[s] \notin Members /\ g.clients[s] \notin Members
    BY <1>2, <1>4 DEF Members
  <2> QED
    BY <1>1, <1>4, <2>1 DEF Roster
<1>7. Stage(h)
  <2>1. InState(h, "connected") = InState(g, "connected")
    BY <1>2, <1>4 DEF InState
  <2>2. h.ungathered = InState(h, "connected") /\ \A t \in Joiners : h.clients[t] # "in_game"
    BY <1>1, <1>4, <2>1 DEF Stage
  <2>3. g.startable = (Len(g.players) > 1)
    BY <1>1 DEF Stage
  <2>4. h.startable = (Len(h.players) > 1)
    BY <1>4, <2>3, Zenon
  <2> QED
    BY <1>4, <2>2, <2>4 DEF Stage
<1>8. Talks(s, a[s], h, rest[s], js[s], linked, knocks \ {s})
  <2>1. CASE s \in linked
    <3>1. Coming(s, h, js[s]) = <<Hello>>
      <4>1. h.wire[s] = g.wire[s] /\ h.out[s] = Append(g.out[s], Hello)
        BY <1>2, <1>4
      <4>2. Coming(s, h, js[s]) = Append(Coming(s, g, js[s]), Hello)
        BY <1>1, <4>1, MessagesAreMessages, QueuedComes
      <4>3. Append(<< >>, Hello) = <<Hello>>
        OBVIOUS
      <4> QED
        BY <1>2, <2>1, <4>2, <4>3
    <3>2. js[s].net = "joining"
      <4>1. Linked(s, a[s], g.clients[s], g.players, Coming(s, g, js[s]), rest[s], js[s])
        BY <1>1, <2>1 DEF Talks
      <4>2. js[s].net \notin {"waiting", "starting_up", "active"}
        BY <1>2 DEF Knows
      <4> QED
        BY <4>1, <4>2 DEF Linked, Greets, Introduces, Accepts, Waits, Plays
    <3>3. Greets("connecting", <<Hello>>, << >>, js[s])
      BY <1>2, <2>1, <3>2 DEF Greets
    <3> QED
      BY <1>2, <1>4, <2>1, <3>1, <3>3 DEF Talks, Linked, Members
  <2>2. CASE s \notin linked
    <3>1. Leaves(s, a[s], h.clients[s], h.net, h.players, rest[s], js[s])
      BY <1>1, <1>2, <1>4, <2>2 DEF Talks, Leaves
    <3>2. h.wire[s] = << >>
      BY <1>1, <1>4, <2>2 DEF Talks
    <3> QED
      BY <1>2, <1>4, <2>2, <3>1, <3>2 DEF Talks, Members
  <2> QED
    BY <2>1, <2>2
<1>9. ASSUME NEW t \in Joiners, t # s PROVE Talks(t, a[t], h, rest[t], js[t], linked, knocks \ {s})
  <2>1. Talks(t, a[t], g, rest[t], js[t], linked, knocks)
    BY DEF Fits
  <2>2. /\ h.net = g.net /\ h.players = g.players /\ h.clients[t] = g.clients[t]
        /\ h.wire[t] = g.wire[t] /\ h.out[t] = g.out[t] /\ (t \in h.up <=> t \in g.up)
        /\ (t \in knocks \ {s} => t \in knocks)
    BY <1>4, <1>9
  <2> QED
    BY <2>1, <2>2, OthersGoOn
<1>10. Fits(h, a, rest, js, linked, knocks \ {s})
  BY <1>5, <1>6, <1>7, <1>8, <1>9 DEF Fits
<1> QED
  BY <1>2, <1>3, <1>4, <1>10 DEF h

\* One more joiner appears in the list.
LEMMA ShownFits ==
  ASSUME NEW g \in Gatherers, NEW a, NEW rest, NEW js, NEW knocks, g.net = "gathering",
         Fits(g, a, rest, js, linked, knocks)
  PROVE  /\ Shown(g) \in Gatherers /\ Shown(g).net = "gathering"
         /\ Fits(Shown(g), a, rest, js, linked, knocks)
<1> DEFINE waiting == InState(g, "not_yet_shown")
           s == CHOOSE t \in waiting : \A u \in waiting : t <= u
           h == [g EXCEPT !.clients[s] = "connected", !.ungathered = @ \cup {s}]
<1>1. CASE waiting = {}
  <2>1. Shown(g) = g
    BY <1>1 DEF Shown
  <2> QED
    BY <2>1
<1>2. CASE waiting # {}
  <2>1. waiting \in SUBSET Nat
    BY DEF InState, Joiners
  <2>2. \E t \in waiting : \A u \in waiting : t <= u
    <3> HIDE DEF waiting
    <3> QED
      BY <1>2, <2>1, LeastNatural
  <2>3. s \in waiting
    <3> HIDE DEF waiting
    <3> QED
      BY <2>2
  <2>4. s \in Joiners /\ g.clients[s] = "not_yet_shown"
    BY <2>3 DEF InState
  <2>5. Shown(g) = h
    BY <1>2 DEF Shown
  <2> HIDE DEF s
  <2>6. /\ h.net = g.net /\ h.players = g.players /\ h.nextIdentifier = g.nextIdentifier
        /\ h.ungathered = g.ungathered \cup {s} /\ h.startable = g.startable /\ h.wire = g.wire
        /\ h.up = g.up /\ h.out = g.out /\ h.clients[s] = "connected"
        /\ \A t \in Joiners \ {s} : h.clients[t] = g.clients[t]
    BY <2>4 DEF Gatherers
  <2>7. h \in Gatherers
    <3>1. "connected" \in {"no_client"} \cup ClientStates
      BY DEF ClientStates
    <3> QED
      BY <2>4, <3>1 DEF Gatherers
  <2> HIDE DEF h
  <2>8. Talks(s, a[s], g, rest[s], js[s], linked, knocks) /\ Stage(g)
    BY <2>4 DEF Fits
  <2>9. ChangesOne(s, g, h)
    <3>1. h.clients[s] \notin Members /\ g.clients[s] \notin Members
      BY <2>4, <2>6 DEF Members
    <3> QED
      BY <2>6, <3>1 DEF ChangesOne
  <2>10. Talks(s, a[s], h, rest[s], js[s], linked, knocks)
    <3>1. Coming(s, h, js[s]) = Coming(s, g, js[s])
      BY <2>6 DEF Coming
    <3>2. a[s] = 0
      BY <2>4, <2>8 DEF Talks, Candidates
    <3>3. CASE s \in linked
      <4>1. Linked(s, a[s], "not_yet_shown", g.players, Coming(s, g, js[s]), rest[s], js[s])
        BY <2>4, <2>8, <3>3 DEF Talks
      <4>2. Introduces(s, a[s], "not_yet_shown", Coming(s, g, js[s]), rest[s], js[s])
        BY <4>1 DEF Linked, Greets, Accepts, Waits, Plays, Members
      <4>3. Introduces(s, a[s], "connected", Coming(s, g, js[s]), rest[s], js[s])
        BY <4>2 DEF Introduces
      <4> QED
        BY <2>4, <2>6, <2>8, <3>1, <3>2, <3>3, <4>3 DEF Talks, Linked, Members
    <3>4. CASE s \notin linked
      <4>1. Leaves(s, a[s], h.clients[s], h.net, h.players, rest[s], js[s])
        BY <2>4, <2>6, <2>8, <3>4 DEF Talks, Leaves
      <4> QED
        BY <2>4, <2>6, <2>8, <3>2, <3>4, <4>1 DEF Talks, Members
    <3> QED
      BY <3>3, <3>4
  <2>11. Fits(h, a, rest, js, linked, knocks)
    BY <2>4, <2>7, <2>9, <2>10, OneClientChanges
  <2> QED
    BY <2>5, <2>6, <2>7, <2>11
<1> QED
  BY <1>1, <1>2

\* The next identifier is given away.
LEMMA AssignsOneMore ==
  ASSUME NEW g, NEW h, NEW a \in [Joiners -> Nat], NEW b, NEW s \in Joiners, Assigns(g, a),
         a[s] = 0, b = [a EXCEPT ![s] = g.nextIdentifier], g.nextIdentifier \in Nat,
         h.nextIdentifier = g.nextIdentifier + 1
  PROVE  Assigns(h, b) /\ g.nextIdentifier # 0 /\ b \in [Joiners -> Nat]
<1> DEFINE A == {t \in Joiners : a[t] # 0}
           B == {t \in Joiners : b[t] # 0}
<1>1. IsFiniteSet(A) /\ Cardinality(A) \in Nat
  <2>1. A \subseteq Joiners
    OBVIOUS
  <2> QED
    BY <2>1, JoinersAreFinite, FS_Subset, FS_CardinalityType
<1>2. g.nextIdentifier = Cardinality(A) + 1 /\ \A t \in Joiners : a[t] < g.nextIdentifier
  BY DEF Assigns
<1>3. g.nextIdentifier # 0
  BY <1>1, <1>2
<1>4. B = A \cup {s} /\ s \notin A
  BY <1>3
<1>5. Cardinality(B) + 1 = h.nextIdentifier
  <2>1. Cardinality(A \cup {s}) = Cardinality(A) + 1
    <3> HIDE DEF A
    <3> QED
      BY <1>1, <1>4, FS_AddElement
  <2> QED
    BY <1>1, <1>2, <1>4, <2>1
<1>6. \A t \in Joiners : b[t] < h.nextIdentifier
  BY <1>2
<1>7. ASSUME NEW t \in Joiners, NEW u \in Joiners, b[t] = b[u], b[t] # 0 PROVE t = u
  <2>1. \A r \in Joiners : a[r] # g.nextIdentifier /\ a[r] \in Nat
    BY <1>2
  <2>2. \A r \in Joiners : b[r] = IF r = s THEN g.nextIdentifier ELSE a[r]
    OBVIOUS
  <2>3. CASE t # s /\ u # s
    BY <1>7, <2>2, <2>3 DEF Assigns
  <2>4. CASE t = s \/ u = s
    BY <1>7, <2>1, <2>2, <2>4
  <2> QED
    BY <2>3, <2>4
<1> QED
  BY <1>3, <1>5, <1>6, <1>7 DEF Assigns

\* What the gathering of one joiner leaves as it is.
GatherOf(g, h, s) ==
  /\ h \in Gatherers /\ h.net = g.net /\ h.ungathered = g.ungathered \ {s}

\* A joiner of the list is gathered.
LEMMA GatheredFits ==
  ASSUME NEW g \in Gatherers, NEW a \in [Joiners -> Nat], NEW rest,
         NEW js \in [Joiners -> JoinerRecords], NEW knocks, NEW s \in Joiners,
         g.net = "gathering", s \in g.ungathered, Fits(g, a, rest, js, linked, knocks)
  PROVE  /\ GatherOf(g, Gathered(g, s), s)
         /\ \E b \in [Joiners -> Nat] : Fits(Gathered(g, s), b, rest, js, linked, knocks)
<1> DEFINE i == g.nextIdentifier
           named == [g EXCEPT !.clients[s] = "awaiting_accept_join", !.nextIdentifier = @ + 1,
                              !.ungathered = @ \ {s}]
           m == JoinPlayer(i)
           h == Enqueued(named, {s}, m)
           b == [a EXCEPT ![s] = i]
<1>1. /\ Talks(s, a[s], g, rest[s], js[s], linked, knocks) /\ Stage(g) /\ Roster(g, a)
      /\ Assigns(g, a) /\ js[s] \in JoinerRecords
  BY DEF Fits
<1>2. g.clients[s] = "connected" /\ i \in Nat
  BY <1>1 DEF Stage, InState, Gatherers
<1>3. /\ a[s] = 0 /\ s \notin knocks /\ (s \in linked => s \in g.up) /\ Knows(s, a[s], js[s])
      /\ s \notin g.up => g.out[s] = << >>
  BY <1>1, <1>2 DEF Talks, Candidates
<1>4. Gathered(g, s) = h
  BY DEF Gathered
<1>5. /\ named \in Gatherers /\ named.net = g.net /\ named.players = g.players
      /\ named.nextIdentifier = g.nextIdentifier + 1 /\ named.ungathered = g.ungathered \ {s}
      /\ named.startable = g.startable /\ named.wire = g.wire /\ named.out = g.out
      /\ named.up = g.up /\ named.clients[s] = "awaiting_accept_join"
      /\ \A t \in Joiners \ {s} : named.clients[t] = g.clients[t]
  <2>1. "awaiting_accept_join" \in {"no_client"} \cup ClientStates
    BY DEF ClientStates
  <2>2. g.nextIdentifier + 1 \in Nat /\ g.ungathered \ {s} \in SUBSET Joiners
    BY <1>2 DEF Gatherers
  <2>3. [g.clients EXCEPT ![s] = "awaiting_accept_join"] \in [Joiners -> {"no_client"} \cup ClientStates]
    BY <2>1 DEF Gatherers
  <2>4. named = [g EXCEPT !.clients = [g.clients EXCEPT ![s] = "awaiting_accept_join"],
                          !.nextIdentifier = g.nextIdentifier + 1,
                          !.ungathered = g.ungathered \ {s}]
    BY DEF Gatherers
  <2> HIDE DEF named
  <2>5. named \in Gatherers
    BY <2>2, <2>3, <2>4 DEF Gatherers
  <2>6. /\ named.net = g.net /\ named.players = g.players
        /\ named.nextIdentifier = g.nextIdentifier + 1 /\ named.ungathered = g.ungathered \ {s}
        /\ named.startable = g.startable /\ named.wire = g.wire /\ named.out = g.out
        /\ named.up = g.up /\ named.clients = [g.clients EXCEPT ![s] = "awaiting_accept_join"]
    BY <2>4 DEF Gatherers
  <2>7. \A t \in Joiners : named.clients[t] =
          IF t = s THEN "awaiting_accept_join" ELSE g.clients[t]
    BY <2>6 DEF Gatherers
  <2> QED
    BY <2>5, <2>6, <2>7
<1> HIDE DEF named
<1>6. m \in Messages
  BY <1>2, MessagesAreMessages
<1> HIDE DEF m
<1>7. /\ h \in Gatherers /\ h.net = named.net /\ h.players = named.players
      /\ h.nextIdentifier = named.nextIdentifier /\ h.ungathered = named.ungathered
      /\ h.startable = named.startable /\ h.wire = named.wire /\ h.up = named.up
      /\ h.clients = named.clients
  <2>1. named \in Gatherers
    BY <1>5
  <2> QED
    BY <1>6, <2>1, EnqueuedIsGatherer
<1>8. \A t \in Joiners : h.out[t] = IF t = s /\ t \in g.up THEN Append(g.out[t], m) ELSE g.out[t]
  <2>1. named \in Gatherers /\ named.up = g.up /\ named.out = g.out
    BY <1>5
  <2> QED
    BY <1>6, <2>1, EnqueuedIsGatherer
<1> HIDE DEF h
<1>9. Assigns(h, b) /\ i # 0 /\ b \in [Joiners -> Nat]
  <2>1. h.nextIdentifier = g.nextIdentifier + 1
    BY <1>5, <1>7
  <2> QED
    BY <1>1, <1>2, <1>3, <2>1, AssignsOneMore
<1>10. b[s] = i /\ \A t \in Joiners \ {s} : b[t] = a[t]
  OBVIOUS
<1> HIDE DEF b, i
<1>11. h.clients[s] = "awaiting_accept_join" /\ \A t \in Joiners \ {s} : h.clients[t] = g.clients[t]
  BY <1>5, <1>7
<1>12. h.players = g.players /\ h.net = "gathering" /\ h.up = g.up /\ h.wire = g.wire
       /\ h.startable = g.startable /\ h.ungathered = g.ungathered \ {s}
  BY <1>5, <1>7
<1>13. Roster(h, b)
  <2>1. \A t \in Joiners : g.clients[t] \in Members <=> t \in Streams(g.players)
    BY <1>1 DEF Roster
  <2>2. g.clients[s] \notin Members /\ h.clients[s] \notin Members
    BY <1>2, <1>11 DEF Members
  <2>3. \A k \in 2 .. Len(g.players) : g.players[k].stream \in Joiners \ {s}
    <3> TAKE k \in 2 .. Len(g.players)
    <3>1. k \in DOMAIN g.players
      BY DEF Gatherers
    <3>2. g.players[k].stream \in Streams(g.players)
      BY <3>1 DEF Streams
    <3>3. g.players[k].stream \in Joiners
      BY <1>1 DEF Roster
    <3> QED
      BY <2>1, <2>2, <3>2, <3>3
  <2>4. \A k \in 2 .. Len(g.players) :
          /\ g.players[k].identifier = b[g.players[k].stream] /\ b[g.players[k].stream] # 0
    BY <1>1, <1>10, <2>3 DEF Roster
  <2>5. \A t \in Joiners : h.clients[t] \in Members <=> t \in Streams(h.players)
    BY <1>11, <1>12, <2>1, <2>2
  <2> QED
    BY <1>1, <1>12, <2>3, <2>4, <2>5 DEF Roster
<1>14. Stage(h)
  <2>1. h.ungathered = InState(h, "connected") /\ \A t \in Joiners : h.clients[t] # "in_game"
    BY <1>1, <1>11, <1>12 DEF Stage, InState
  <2>2. g.startable = (Len(g.players) > 1)
    BY <1>1 DEF Stage
  <2>3. h.startable = (Len(h.players) > 1)
    BY <1>12, <2>2, Zenon
  <2> QED
    BY <1>12, <2>1, <2>3 DEF Stage
<1>15. Talks(s, b[s], h, rest[s], js[s], linked, knocks)
  <2>1. CASE s \in linked
    <3>1. Linked(s, a[s], "connected", g.players, Coming(s, g, js[s]), rest[s], js[s])
      BY <1>1, <1>2, <2>1 DEF Talks
    <3>2. Introduces(s, a[s], "connected", Coming(s, g, js[s]), rest[s], js[s])
      BY <3>1 DEF Linked, Greets, Accepts, Waits, Plays, Members
    <3>3. Coming(s, g, js[s]) = << >> /\ rest[s] = << >> /\ js[s].net = "joining"
          /\ js[s].handler = "joining"
      BY <1>3, <3>2 DEF Introduces
    <3>4. Coming(s, h, js[s]) = <<m>>
      <4>1. h.wire[s] = g.wire[s] /\ h.out[s] = Append(g.out[s], m)
        BY <1>3, <1>8, <1>12, <2>1
      <4>2. Coming(s, h, js[s]) = Append(Coming(s, g, js[s]), m)
        BY <1>1, <1>6, <4>1, QueuedComes
      <4>3. Append(<< >>, m) = <<m>>
        OBVIOUS
      <4> QED
        BY <3>3, <4>2, <4>3
    <3>5. Introduces(s, b[s], "awaiting_accept_join", <<m>>, << >>, js[s])
      BY <1>9, <1>10, <3>3 DEF Introduces, m
    <3>6. Knows(s, b[s], js[s])
      BY <1>3, <3>3 DEF Knows
    <3> QED
      BY <1>3, <1>9, <1>10, <1>11, <1>12, <2>1, <3>3, <3>4, <3>5, <3>6
      DEF Talks, Linked, Candidates
  <2>2. CASE s \notin linked
    <3>1. Leaves(s, a[s], "connected", g.net, g.players, rest[s], js[s]) /\ g.wire[s] = << >>
      BY <1>1, <1>2, <2>2 DEF Talks
    <3>2. Leaves(s, b[s], "awaiting_accept_join", h.net, h.players, rest[s], js[s])
      BY <1>12, <3>1 DEF Leaves
    <3>3. Knows(s, b[s], js[s])
      BY <1>3, <1>9, <1>10 DEF Knows
    <3>4. s \notin h.up => h.out[s] = << >>
      BY <1>3, <1>8, <1>12
    <3> QED
      BY <1>3, <1>9, <1>10, <1>11, <1>12, <2>2, <3>1, <3>2, <3>3, <3>4 DEF Talks, Candidates
  <2> QED
    BY <2>1, <2>2
<1>16. ASSUME NEW t \in Joiners, t # s PROVE Talks(t, b[t], h, rest[t], js[t], linked, knocks)
  <2>1. Talks(t, b[t], g, rest[t], js[t], linked, knocks)
    BY <1>10, <1>16 DEF Fits
  <2>2. h.clients[t] = g.clients[t] /\ h.out[t] = g.out[t]
    BY <1>8, <1>11, <1>16
  <2> QED
    BY <1>12, <2>1, <2>2, OthersGoOn
<1>17. Fits(h, b, rest, js, linked, knocks)
  BY <1>9, <1>13, <1>14, <1>15, <1>16 DEF Fits
<1>18. GatherOf(g, h, s)
  BY <1>7, <1>12 DEF GatherOf
<1> QED
  BY <1>4, <1>9, <1>17, <1>18

\* The round in which autogather gathers everybody on the list.
AutogatherRound(d, start, S) ==
  d = [s \in 0 .. NumJoiners |->
         IF s = 0 THEN start ELSE IF s \in S THEN Gathered(d[s - 1], s) ELSE d[s - 1]]

SomeFit(g, rest, js, knocks) == \E b \in [Joiners -> Nat] : Fits(g, b, rest, js, linked, knocks)

\* Autogather picks everybody on the list.
LEMMA AutogatherFits ==
  ASSUME NEW start \in Gatherers, NEW rest, NEW js \in [Joiners -> JoinerRecords], NEW knocks,
         start.net = "gathering", SomeFit(start, rest, js, knocks), NEW done,
         done = (CHOOSE d : AutogatherRound(d, start, start.ungathered))[NumJoiners]
  PROVE  done \in Gatherers /\ done.net = "gathering" /\ SomeFit(done, rest, js, knocks)
<1> DEFINE S == start.ungathered
           step == [s \in Joiners |-> [g \in Gatherers |-> Gathered(g, s)]]
           Runs(d) == AutogatherRound(d, start, S)
           d == CHOOSE e : Runs(e)
           T == [k \in 0 .. NumJoiners |->
                  {g \in Gatherers : /\ g.net = "gathering" /\ SomeFit(g, rest, js, knocks)
                                     /\ \A s \in S : s > k => s \in g.ungathered}]
<1>1. S \in SUBSET Joiners /\ NumJoiners \in Nat
  BY GatheringAssumption DEF Gatherers
<1>2. done = d[NumJoiners]
  OBVIOUS
<1>3. start \in T[0]
  BY <1>1
<1> HIDE DEF S
<1>4. ASSUME NEW e, Visits(e, step, start, S)
      PROVE  \A k \in 0 .. NumJoiners : e[k] \in T[k]
  <2>1. e[0] \in T[0]
    BY <1>3, <1>4 DEF Visits
  <2>2. ASSUME NEW k \in 1 .. NumJoiners, e[k - 1] \in T[k - 1] PROVE e[k] \in T[k]
    <3> DEFINE g == e[k - 1]
    <3>1. k \in Joiners /\ k - 1 \in 0 .. NumJoiners /\ k \in 0 .. NumJoiners
      BY <1>1 DEF Joiners
    <3>2. /\ g \in Gatherers /\ g.net = "gathering" /\ SomeFit(g, rest, js, knocks)
          /\ \A s \in S : s > k - 1 => s \in g.ungathered
      BY <2>2, <3>1
    <3>3. e[k] = IF k \in S THEN Gathered(g, k) ELSE g
      BY <1>4, <3>1, <3>2 DEF Visits
    <3> HIDE DEF g
    <3>4. /\ e[k] \in Gatherers /\ e[k].net = "gathering" /\ SomeFit(e[k], rest, js, knocks)
          /\ \A s \in S : s > k => s \in e[k].ungathered
      <4> HIDE DEF step, T
      <4>1. \A s \in S : s > k => s > k - 1 /\ s # k
        BY <1>1, <3>1 DEF Joiners
      <4>2. CASE k \in S
        <5>1. k \in g.ungathered
          BY <3>1, <3>2, <4>2 DEF Joiners
        <5>2. PICK a \in [Joiners -> Nat] : Fits(g, a, rest, js, linked, knocks)
          BY <3>2 DEF SomeFit
        <5>3. /\ GatherOf(g, Gathered(g, k), k)
              /\ \E b \in [Joiners -> Nat] : Fits(Gathered(g, k), b, rest, js, linked, knocks)
          BY <3>1, <3>2, <5>1, <5>2, GatheredFits
        <5>4. e[k] = Gathered(g, k)
          BY <3>3, <4>2
        <5>5. SomeFit(e[k], rest, js, knocks)
          BY <5>3, <5>4 DEF SomeFit
        <5> QED
          BY <3>2, <4>1, <5>3, <5>4, <5>5 DEF GatherOf
      <4>3. CASE k \notin S
        BY <3>2, <3>3, <4>1, <4>3
      <4> QED
        BY <4>2, <4>3
    <3>5. T[k] = {f \in Gatherers : /\ f.net = "gathering" /\ SomeFit(f, rest, js, knocks)
                                    /\ \A s \in S : s > k => s \in f.ungathered}
      BY <3>1
    <3> HIDE DEF T
    <3> QED
      BY <3>4, <3>5
  <2> HIDE DEF T, step
  <2> TAKE k \in 0 .. NumJoiners
  <2>3. k \in Nat /\ \A i \in 1 .. k : e[i - 1] \in T[i - 1] => e[i] \in T[i]
    BY <1>1, <2>2
  <2> QED
    BY <2>1, <2>3, LoopsKeep
<1>5. \A k \in 0 .. NumJoiners : \A g \in T[k] : g \in Gatherers
  OBVIOUS
<1>6. PICK h : Visits(h, step, start, S) /\ IsRound(h)
  <2> HIDE DEF step, T
  <2> QED
    BY VisitsEnd
<1>7. \A k \in 0 .. NumJoiners : h[k] \in Gatherers
  <2> HIDE DEF step, T
  <2> QED
    BY <1>4, <1>5, <1>6
<1>8. Runs(h)
  <2> HIDE DEF T
  <2>1. ASSUME NEW k \in 0 .. NumJoiners
        PROVE  h[k] = IF k = 0 THEN start
                      ELSE IF k \in S THEN Gathered(h[k - 1], k) ELSE h[k - 1]
    <3>1. CASE k = 0
      BY <1>6, <3>1 DEF Visits
    <3>2. CASE k # 0
      <4>1. k \in Joiners /\ k - 1 \in 0 .. NumJoiners
        BY <3>2, GatheringAssumption DEF Joiners
      <4>2. h[k - 1] \in Gatherers
        BY <1>7, <4>1
      <4>3. h[k] = IF k \in S THEN step[k][h[k - 1]] ELSE h[k - 1]
        <5> HIDE DEF step
        <5> QED
          BY <1>6, <4>1, <4>2 DEF Visits
      <4>4. step[k][h[k - 1]] = Gathered(h[k - 1], k)
        BY <4>1, <4>2
      <4> HIDE DEF step
      <4> QED
        BY <3>2, <4>3, <4>4
    <3> QED
      BY <3>1, <3>2
  <2> DEFINE body == [k \in 0 .. NumJoiners |->
                        IF k = 0 THEN start
                        ELSE IF k \in S THEN Gathered(h[k - 1], k) ELSE h[k - 1]]
  <2>2. [k \in 0 .. NumJoiners |-> h[k]] = body
    BY <2>1
  <2> HIDE DEF body
  <2>3. h = body
    BY <1>6, <2>2 DEF IsRound
  <2> QED
    BY <2>3 DEF body, AutogatherRound
<1>9. Runs(d)
  <2> HIDE DEF Runs, T
  <2> QED
    BY <1>8
<1> HIDE DEF d
<1>10. Visits(d, step, start, S)
  <2> HIDE DEF T
  <2>1. d[0] = start
    BY <1>9, GatheringAssumption DEF AutogatherRound
  <2>2. ASSUME NEW k \in Joiners, d[k - 1] \in Gatherers
        PROVE  d[k] = IF k \in S THEN step[k][d[k - 1]] ELSE d[k - 1]
    <3>1. k \in 0 .. NumJoiners /\ k # 0
      BY GatheringAssumption DEF Joiners
    <3>2. d[k] = IF k \in S THEN Gathered(d[k - 1], k) ELSE d[k - 1]
      BY <1>9, <3>1 DEF AutogatherRound
    <3>3. step[k][d[k - 1]] = Gathered(d[k - 1], k)
      BY <2>2
    <3> HIDE DEF step
    <3> QED
      BY <3>2, <3>3
  <2> HIDE DEF step
  <2> QED
    BY <2>1, <2>2 DEF Visits
<1>11. d[NumJoiners] \in T[NumJoiners]
  <2>1. NumJoiners \in 0 .. NumJoiners
    BY <1>1
  <2> HIDE DEF T, step
  <2> QED
    BY <1>4, <1>10, <2>1
<1> HIDE DEF step
<1> QED
  BY <1>1, <1>2, <1>11

----------------------------------------------------------------------------
(* The idle proc, and the game's. *)

\* The step of a gatherer, seen with what is on the wire.
LEMMA GathererStep ==
  ASSUME NEW g \in Gatherers, gatherer' = OffTheWire(g), toJoiner' = g.wire
  PROVE  OnTheWire' = g /\ gatherer' = OffTheWire(OnTheWire')
  BY DEF OnTheWire, OffTheWire, Gatherers

\* With the connection that the dialog has accepted, if there is one.
Begun(admitted) ==
  IF admitted = {} THEN OnTheWire ELSE Admitted(OnTheWire, CHOOSE s \in admitted : TRUE)

DialogRoundOf(admitted, arrived, ended) == DialogRoundEnds(Begun(admitted), arrived, ended)

After(visited, auto) == IF auto THEN Autogathered(Shown(visited)) ELSE Shown(visited)

\* The round of the dialog, as it is written in Idle.
LEMMA IdleRound ==
  ASSUME NEW admitted, NEW arrived, NEW ended, NEW auto, IdleWith(admitted, arrived, ended, auto)
  PROVE  LET done == After(DialogRoundOf(admitted, arrived, ended), auto)
         IN gatherer' = OffTheWire(done) /\ toJoiner' = done.wire
<1>1. \E visited \in {DialogRoundOf(admitted, arrived, ended)} :
        gatherer' = OffTheWire(After(visited, auto)) /\ toJoiner' = After(visited, auto).wire
  BY DEF IdleWith, ForEach, DialogRound, DialogRoundEnds, DialogRoundOf, Begun, After
<1> QED
  BY <1>1, Zenon

\* Autogather, as it is written in Idle.
LEMMA AutogatheredIs ==
  ASSUME NEW g
  PROVE  Autogathered(g) = IF HasRoom(g)
           THEN (CHOOSE d : AutogatherRound(d, g, g.ungathered))[NumJoiners] ELSE g
  BY DEF Autogathered, ForEach, AutogatherRound

\* The invariant after a step of the gatherer.
LEMMA GathererKeeps ==
  ASSUME NEW g \in Gatherers, gatherer' = OffTheWire(g), toJoiner' = g.wire,
         joiner' \in [Joiners -> JoinerRecords], toGatherer' \in [Joiners -> Seq(Messages)],
         knocking' \in SUBSET Joiners, linked' \in SUBSET Joiners,
         \E b \in [Joiners -> Nat] : Fits(g, b, toGatherer', joiner', linked', knocking')
  PROVE  GatheringInvariant'
<1>1. OnTheWire' = g /\ gatherer' = OffTheWire(OnTheWire')
  BY GathererStep
<1> QED
  BY <1>1 DEF GatheringInvariant, GatheringTyped

\* What is left of what has been sent, when some of it has arrived.
LEMMA ConsumedIsUnread ==
  ASSUME toGatherer \in [Joiners -> Seq(Messages)], NEW arrived, NEW ended,
         \A s \in Joiners : arrived[s] \in Nat,
         \A s \in Joiners \ gatherer.up : arrived[s] = 0 /\ s \notin ended
  PROVE  /\ Consumed(arrived, ended) = AllUnread(arrived, ended)
         /\ AllUnread(arrived, ended) \in [Joiners -> Seq(Messages)]
<1>1. ASSUME NEW s \in Joiners
      PROVE  /\ Unread(s, arrived, ended) \in Seq(Messages)
             /\ Unread(s, arrived, ended) =
                  CASE s \in ended -> << >>
                    [] s \in gatherer.up \ ended ->
                         SubSeq(toGatherer[s], arrived[s] + 1, Len(toGatherer[s]))
                    [] OTHER -> toGatherer[s]
  <2>1. arrived[s] \in Nat
    OBVIOUS
  <2>2. /\ Unread(s, arrived, ended) \in Seq(Messages)
        /\ arrived[s] = 0 /\ s \notin ended => Unread(s, arrived, ended) = toGatherer[s]
    BY <2>1, UnreadIsTyped
  <2>3. CASE s \in ended
    BY <2>2, <2>3 DEF Unread
  <2>4. CASE s \notin ended /\ s \in gatherer.up
    BY <2>2, <2>4 DEF Unread
  <2>5. CASE s \notin gatherer.up
    BY <2>2, <2>5
  <2> QED
    BY <2>3, <2>4, <2>5
<1>2. Consumed(arrived, ended) = AllUnread(arrived, ended)
  BY <1>1 DEF Consumed, AllUnread
<1>3. AllUnread(arrived, ended) \in [Joiners -> Seq(Messages)]
  BY <1>1 DEF AllUnread
<1> QED
  BY <1>2, <1>3

\* The idle proc of the dialog.
LEMMA IdleKeeps ==
  ASSUME GatheringInvariant, Idle
  PROVE  GatheringInvariant'
<1>1. PICK arrived \in Arrivals, ended \in SUBSET gatherer.up, auto \in BOOLEAN,
           admitted \in {{}} \cup {{s} : s \in knocking} :
        IsArrival(arrived, ended) /\ IdleWith(admitted, arrived, ended, auto)
  BY DEF Idle
<1>2. /\ OnTheWire \in Gatherers /\ joiner \in [Joiners -> JoinerRecords]
      /\ toGatherer \in [Joiners -> Seq(Messages)]
      /\ knocking \in SUBSET Joiners /\ linked \in SUBSET Joiners
  BY DEF GatheringInvariant, GatheringTyped
<1>3. PICK a \in [Joiners -> Nat] : Fits(OnTheWire, a, toGatherer, joiner, linked, knocking)
  BY DEF GatheringInvariant
<1>4. /\ gatherer.net = "gathering" /\ toGatherer' = Consumed(arrived, ended)
      /\ knocking' = knocking \ admitted /\ joiner' = joiner /\ linked' = linked
  BY <1>1, Zenon DEF IdleWith, ForEach
<1>5. OnTheWire.net = "gathering" /\ OnTheWire.up = gatherer.up
  BY <1>4 DEF OnTheWire
<1> DEFINE start == Begun(admitted)
<1>6. /\ start \in Gatherers /\ start.net = "gathering"
      /\ gatherer.up \subseteq start.up
      /\ Fits(start, a, toGatherer, joiner, linked, knocking')
  <2>1. CASE admitted = {}
    <3>1. start = OnTheWire /\ knocking' = knocking
      BY <1>4, <2>1 DEF Begun
    <3> QED
      BY <1>2, <1>3, <1>5, <3>1
  <2>2. CASE admitted # {}
    <3>1. PICK s \in knocking : admitted = {s}
      BY <1>1, <2>2
    <3>2. start = Admitted(OnTheWire, s) /\ s \in Joiners /\ knocking' = knocking \ {s}
      <4>1. (CHOOSE x \in admitted : TRUE) = s
        <5>1. (CHOOSE x \in admitted : TRUE) \in admitted
          BY <2>2
        <5> QED
          BY <3>1, <5>1
      <4>2. start = Admitted(OnTheWire, CHOOSE x \in admitted : TRUE)
        BY <2>2 DEF Begun
      <4> HIDE DEF start
      <4>3. start = Admitted(OnTheWire, s)
        BY <4>1, <4>2
      <4> QED
        BY <1>2, <1>4, <3>1, <4>3
    <3>3. /\ Admitted(OnTheWire, s) \in Gatherers /\ Admitted(OnTheWire, s).net = "gathering"
          /\ Admitted(OnTheWire, s).up = OnTheWire.up \cup {s}
          /\ Fits(Admitted(OnTheWire, s), a, toGatherer, joiner, linked, knocking \ {s})
      <4>1. s \in Joiners /\ s \in knocking /\ OnTheWire.net = "gathering"
        BY <1>5, <3>2
      <4>2. OnTheWire \in Gatherers /\ joiner \in [Joiners -> JoinerRecords]
        BY <1>2
      <4> QED
        BY <1>3, <4>1, <4>2, AdmittedFits, Zenon
    <3> HIDE DEF start
    <3> QED
      BY <1>5, <3>2, <3>3
  <2> QED
    BY <2>1, <2>2
<1> HIDE DEF start
<1>7. \A s \in Joiners : MayArrive(start, s, arrived, ended)
  <2> TAKE s \in Joiners
  <2>1. arrived[s] \in Nat /\ arrived[s] <= IF s \in gatherer.up THEN Len(toGatherer[s]) ELSE 0
    BY <1>1 DEF IsArrival, Arrivals
  <2>2. Len(toGatherer[s]) \in Nat
    BY <1>2
  <2>3. arrived[s] <= IF s \in start.up THEN Len(toGatherer[s]) ELSE 0
    BY <1>6, <2>1, <2>2
  <2>4. s \in ended => s \notin linked /\ s \in start.up
    BY <1>1, <1>6 DEF IsArrival
  <2> QED
    BY <2>1, <2>3, <2>4 DEF MayArrive
<1>8. \A s \in Joiners : s \notin gatherer.up => arrived[s] = 0 /\ s \notin ended
  BY <1>1 DEF IsArrival, Arrivals
<1>9. \A s \in Joiners \ Clients(start) : arrived[s] = 0 /\ s \notin ended
  <2> TAKE s \in Joiners \ Clients(start)
  <2>1. Talks(s, a[s], start, toGatherer[s], joiner[s], linked, knocking')
    BY <1>6 DEF Fits
  <2>2. s \notin start.up
    BY <2>1 DEF Talks, Clients
  <2> QED
    BY <1>6, <1>8, <2>2
<1> DEFINE visited == DialogRoundOf(admitted, arrived, ended)
<1>10. /\ visited \in Gatherers /\ visited.net = "gathering"
       /\ Fits(visited, a, AllUnread(arrived, ended), joiner, linked, knocking')
  <2>1. visited = DialogRoundEnds(start, arrived, ended)
    BY DEF DialogRoundOf, start
  <2> HIDE DEF visited
  <2> QED
    <3>1. start \in Gatherers /\ start.net = "gathering"
          /\ Fits(start, a, toGatherer, joiner, linked, knocking')
      BY <1>6
    <3>2. joiner \in [Joiners -> JoinerRecords] /\ toGatherer \in [Joiners -> Seq(Messages)]
      BY <1>2
    <3> QED
      BY <1>7, <1>9, <2>1, <3>1, <3>2, RoundFits, Zenon
<1>11. toGatherer' = AllUnread(arrived, ended) /\ toGatherer' \in [Joiners -> Seq(Messages)]
  <2>1. \A s \in Joiners : arrived[s] \in Nat
    BY <1>7 DEF MayArrive
  <2> QED
    BY <1>2, <1>4, <1>8, <2>1, ConsumedIsUnread
<1> HIDE DEF visited
<1> DEFINE shown == Shown(visited)
<1>12. /\ shown \in Gatherers /\ shown.net = "gathering"
       /\ Fits(shown, a, toGatherer', joiner, linked, knocking')
  BY <1>10, <1>11, ShownFits
<1> HIDE DEF shown
<1> DEFINE done == After(visited, auto)
<1>13. done \in Gatherers /\ SomeFit(done, toGatherer', joiner, knocking')
  <2>1. SomeFit(shown, toGatherer', joiner, knocking')
    BY <1>12 DEF SomeFit
  <2>2. CASE auto /\ HasRoom(shown)
    <3>1. done = (CHOOSE d : AutogatherRound(d, shown, shown.ungathered))[NumJoiners]
      BY <2>2, AutogatheredIs DEF After, shown
    <3> HIDE DEF done
    <3> QED
      BY <1>2, <1>12, <2>1, <3>1, AutogatherFits
  <2>3. CASE ~ (auto /\ HasRoom(shown))
    <3>1. done = shown
      BY <2>3, AutogatheredIs DEF After, shown
    <3> QED
      BY <1>12, <2>1, <3>1
  <2> QED
    BY <2>2, <2>3
<1>14. gatherer' = OffTheWire(done) /\ toJoiner' = done.wire
  BY <1>1, IdleRound DEF visited
<1> HIDE DEF done
<1> QED
  BY <1>2, <1>4, <1>11, <1>13, <1>14, GathererKeeps DEF SomeFit

\* What NetProcessMessagesInGame comes to.
LEMMA InGameRound ==
  ASSUME GathererInGame
  PROVE  \E arrived \in Arrivals, ended \in SUBSET gatherer.up :
           /\ IsArrival(arrived, ended)
           /\ gatherer' = OffTheWire(GameRoundEnds(OnTheWire, arrived, ended))
           /\ toJoiner' = GameRoundEnds(OnTheWire, arrived, ended).wire
           /\ toGatherer' = Consumed(arrived, ended)
           /\ joiner' = joiner /\ knocking' = knocking /\ linked' = linked
<1>1. OnTheWire.up = gatherer.up
  BY DEF OnTheWire
<1>2. PICK arrived \in Arrivals, ended \in SUBSET gatherer.up :
        /\ IsArrival(arrived, ended)
        /\ gatherer' = OffTheWire(GameRoundEnds(OnTheWire, arrived, ended))
        /\ toJoiner' = GameRoundEnds(OnTheWire, arrived, ended).wire
        /\ toGatherer' = Consumed(arrived, ended)
        /\ joiner' = joiner /\ knocking' = knocking /\ linked' = linked
  BY <1>1, ZenonT(60) DEF GathererInGame, ForEach, GameRound, GameRoundEnds
<1> QED
  BY <1>2, Zenon

\* The gatherer in the game: what comes of the round fits, and the players are the same.
LEMMA InGameRoundFits ==
  ASSUME GatheringInvariant, GathererInGame
  PROVE  \E done \in Gatherers, a \in [Joiners -> Nat] :
           /\ gatherer' = OffTheWire(done) /\ toJoiner' = done.wire
           /\ done.players = gatherer.players
           /\ Fits(done, a, toGatherer', joiner', linked', knocking')
           /\ toGatherer' \in [Joiners -> Seq(Messages)]
           /\ joiner' = joiner /\ knocking' = knocking /\ linked' = linked
<1>1. PICK arrived \in Arrivals, ended \in SUBSET gatherer.up :
        /\ IsArrival(arrived, ended)
        /\ gatherer' = OffTheWire(GameRoundEnds(OnTheWire, arrived, ended))
        /\ toJoiner' = GameRoundEnds(OnTheWire, arrived, ended).wire
        /\ toGatherer' = Consumed(arrived, ended)
        /\ joiner' = joiner /\ knocking' = knocking /\ linked' = linked
  BY InGameRound
<1>2. /\ OnTheWire \in Gatherers /\ joiner \in [Joiners -> JoinerRecords]
      /\ toGatherer \in [Joiners -> Seq(Messages)]
      /\ knocking \in SUBSET Joiners /\ linked \in SUBSET Joiners
  BY DEF GatheringInvariant, GatheringTyped
<1>3. PICK a \in [Joiners -> Nat] : Fits(OnTheWire, a, toGatherer, joiner, linked, knocking)
  BY DEF GatheringInvariant
<1>4. OnTheWire.up = gatherer.up /\ OnTheWire.players = gatherer.players
      /\ OnTheWire.net = gatherer.net
  BY DEF OnTheWire
<1>5. \A s \in Joiners : MayArrive(OnTheWire, s, arrived, ended)
  BY <1>1, <1>4 DEF IsArrival, Arrivals, MayArrive
<1>6. \A s \in Joiners \ OnTheWire.up : arrived[s] = 0 /\ s \notin ended
  BY <1>1, <1>4 DEF IsArrival, Arrivals
<1>7. toGatherer' = AllUnread(arrived, ended) /\ toGatherer' \in [Joiners -> Seq(Messages)]
  <2>1. \A s \in Joiners : arrived[s] \in Nat
    BY <1>5 DEF MayArrive
  <2>2. \A s \in Joiners \ gatherer.up : arrived[s] = 0 /\ s \notin ended
    BY <1>4, <1>6
  <2> QED
    BY <1>1, <1>2, <2>1, <2>2, ConsumedIsUnread
<1> DEFINE done == GameRoundEnds(OnTheWire, arrived, ended)
<1>8. /\ done \in Gatherers /\ done.net = OnTheWire.net
      /\ (OnTheWire.net = "active" => done.players = OnTheWire.players)
      /\ Fits(done, a, AllUnread(arrived, ended), joiner, linked, knocking')
  <2>1. Fits(OnTheWire, a, toGatherer, joiner, linked, knocking')
    BY <1>1, <1>3
  <2> QED
    BY <1>2, <1>5, <1>6, <2>1, GameRoundFits, Zenon
<1>9. gatherer' = OffTheWire(done) /\ toJoiner' = done.wire
  BY <1>1
<1>10. gatherer.net = "active"
  BY DEF GathererInGame
<1> HIDE DEF done
<1>11. /\ done.players = gatherer.players
       /\ Fits(done, a, toGatherer', joiner', linked', knocking')
  BY <1>1, <1>4, <1>7, <1>8, <1>10
<1>12. /\ toGatherer' \in [Joiners -> Seq(Messages)]
       /\ joiner' = joiner /\ knocking' = knocking /\ linked' = linked
  BY <1>1, <1>7
<1>13. done \in Gatherers
  BY <1>8
<1> QED
  BY <1>9, <1>11, <1>12, <1>13, Zenon

\* NetProcessMessagesInGame of the gatherer.
LEMMA GathererInGameKeeps ==
  ASSUME GatheringInvariant, GathererInGame
  PROVE  GatheringInvariant'
<1>1. PICK done \in Gatherers, a \in [Joiners -> Nat] :
        /\ gatherer' = OffTheWire(done) /\ toJoiner' = done.wire
        /\ Fits(done, a, toGatherer', joiner', linked', knocking')
        /\ toGatherer' \in [Joiners -> Seq(Messages)]
        /\ joiner' = joiner /\ knocking' = knocking /\ linked' = linked
  BY InGameRoundFits
<1>2. /\ joiner' \in [Joiners -> JoinerRecords] /\ knocking' \in SUBSET Joiners
      /\ linked' \in SUBSET Joiners
  BY <1>1 DEF GatheringInvariant, GatheringTyped
<1>3. \E b \in [Joiners -> Nat] : Fits(done, b, toGatherer', joiner', linked', knocking')
  BY <1>1
<1> QED
  BY <1>1, <1>2, <1>3, GathererKeeps, Zenon

\* The types that the invariant gives.
LEMMA TypesHold ==
  ASSUME GatheringInvariant
  PROVE  /\ OnTheWire \in Gatherers /\ gatherer = OffTheWire(OnTheWire)
         /\ joiner \in [Joiners -> JoinerRecords]
         /\ toGatherer \in [Joiners -> Seq(Messages)]
         /\ knocking \in SUBSET Joiners /\ linked \in SUBSET Joiners
         /\ \E a \in [Joiners -> Nat] : Fits(OnTheWire, a, toGatherer, joiner, linked, knocking)
  BY DEF GatheringInvariant, GatheringTyped

----------------------------------------------------------------------------
(* The user picks a joiner, leaves, or starts the game. *)

\* A joiner is picked from the list: seen with what is on the wire, nothing else changes.
LEMMA GatheredOnTheWire ==
  ASSUME NEW g \in Gatherers, NEW s \in Joiners
  PROVE  /\ Gathered(OffTheWire(g), s) = OffTheWire(Gathered(g, s))
         /\ Gathered(g, s).wire = g.wire
<1> DEFINE out == [t \in Joiners |-> IF t \in {s} \cap g.up
                                   THEN Append(g.out[t], JoinPlayer(g.nextIdentifier)) ELSE g.out[t]]
           clients == [g.clients EXCEPT ![s] = "awaiting_accept_join"]
           off == [net |-> g.net, clients |-> clients, up |-> g.up, players |-> g.players,
                   nextIdentifier |-> g.nextIdentifier + 1, ungathered |-> g.ungathered \ {s},
                   startable |-> g.startable, out |-> out]
           on == [net |-> g.net, clients |-> clients, up |-> g.up, players |-> g.players,
                  nextIdentifier |-> g.nextIdentifier + 1, ungathered |-> g.ungathered \ {s},
                  startable |-> g.startable, out |-> out, wire |-> g.wire]
<1>1. Gathered(OffTheWire(g), s) = off
  <2>1. Gathered(OffTheWire(g), s)
          = [[OffTheWire(g) EXCEPT !.clients[s] = "awaiting_accept_join",
                                   !.nextIdentifier = @ + 1, !.ungathered = @ \ {s}]
               EXCEPT !.out = out]
    BY DEF Gathered, Enqueued, OffTheWire
  <2> HIDE DEF out
  <2> QED
    BY <2>1 DEF OffTheWire
<1>2. Gathered(g, s) = on
  <2>1. Gathered(g, s)
          = [[g EXCEPT !.clients[s] = "awaiting_accept_join",
                       !.nextIdentifier = @ + 1, !.ungathered = @ \ {s}]
               EXCEPT !.out = out]
    BY DEF Gathered, Enqueued, Gatherers
  <2> HIDE DEF out
  <2> QED
    BY <2>1 DEF Gatherers
<1> HIDE DEF out, clients
<1> QED
  BY <1>1, <1>2 DEF OffTheWire

\* The user picks a joiner.
LEMMA GatheredPlayerKeeps ==
  ASSUME GatheringInvariant, NEW s \in Joiners, GatheredPlayer(s)
  PROVE  GatheringInvariant'
<1>1. /\ OnTheWire \in Gatherers /\ gatherer = OffTheWire(OnTheWire)
      /\ joiner \in [Joiners -> JoinerRecords]
      /\ toGatherer \in [Joiners -> Seq(Messages)]
      /\ knocking \in SUBSET Joiners /\ linked \in SUBSET Joiners
  BY TypesHold
<1>2. PICK a \in [Joiners -> Nat] : Fits(OnTheWire, a, toGatherer, joiner, linked, knocking)
  BY TypesHold
<1>3. /\ OnTheWire.net = "gathering" /\ s \in OnTheWire.ungathered
      /\ gatherer' = Gathered(gatherer, s)
      /\ joiner' = joiner /\ knocking' = knocking /\ linked' = linked
      /\ toJoiner' = toJoiner /\ toGatherer' = toGatherer
  BY DEF GatheredPlayer, OnTheWire
<1>4. OnTheWire.wire = toJoiner
  BY DEF OnTheWire
<1> DEFINE g == OnTheWire
           h == Gathered(g, s)
<1> HIDE DEF g
<1>5. /\ gatherer' = OffTheWire(h) /\ toJoiner' = h.wire
  BY <1>1, <1>3, <1>4, GatheredOnTheWire DEF g
<1>6. h \in Gatherers /\ \E b \in [Joiners -> Nat] : Fits(h, b, toGatherer, joiner, linked, knocking)
  <2>1. GatherOf(g, h, s)
        /\ \E b \in [Joiners -> Nat] : Fits(h, b, toGatherer, joiner, linked, knocking)
    BY <1>1, <1>2, <1>3, GatheredFits DEF g
  <2> QED
    BY <2>1 DEF GatherOf
<1> HIDE DEF h
<1> QED
  BY <1>1, <1>3, <1>5, <1>6, GathererKeeps

\* A conversation that the gatherer breaks off before the game: what he had queued is lost.
LEMMA BrokenOff ==
  ASSUME NEW s, NEW i, NEW c, NEW players, NEW after, NEW p \in Seq(Messages),
         NEW q \in Seq(Messages), NEW rest, NEW j, c # "in_game",
         Linked(s, i, c, players, p \o q, rest, j)
  PROVE  Linked(s, i, "no_client", after, p, rest, j)
<1> DEFINE pend == p \o q
<1>1. /\ pend \in Seq(Messages) /\ Len(pend) = Len(p) + Len(q) /\ Len(p) \in Nat /\ Len(q) \in Nat
      /\ \A k \in 1 .. Len(p) : pend[k] = p[k]
      /\ DOMAIN p = 1 .. Len(p) /\ DOMAIN pend = 1 .. Len(pend)
  BY ConcatProperties, LenProperties
<1>2. Linked(s, i, c, players, pend, rest, j)
  OBVIOUS
<1> HIDE DEF pend
<1>3. pend = << >> => p = << >>
  BY <1>1, EmptySeq
<1>4. ASSUME NEW m, pend = <<m>> PROVE p = << >> \/ p = <<m>>
  <2>1. Len(pend) = 1 /\ pend[1] = m
    BY <1>4
  <2>2. Len(p) = 0 \/ Len(p) = 1
    BY <1>1, <2>1
  <2>3. CASE Len(p) = 0
    BY <2>3, EmptySeq
  <2>4. CASE Len(p) = 1
    <3>1. p[1] = m
      BY <1>1, <2>1, <2>4
    <3> QED
      BY <2>4, <3>1
  <2> QED
    BY <2>2, <2>3, <2>4
<1>5. CASE Greets(c, pend, rest, j)
  <2>1. p = << >> \/ p = <<Hello>>
    BY <1>3, <1>4, <1>5 DEF Greets
  <2> QED
    BY <1>5, <2>1 DEF Greets, Linked
<1>6. CASE Introduces(s, i, c, pend, rest, j)
  <2>1. CASE pend = << >>
    BY <1>3, <1>6, <2>1 DEF Introduces, Linked
  <2>2. CASE pend = <<CapabilitiesOf(0)>> /\ rest = << >>
    BY <1>4, <1>6, <2>2 DEF Introduces, Linked
  <2>3. CASE pend = <<JoinPlayer(i)>> /\ rest = << >> /\ i # 0
    BY <1>4, <1>6, <2>3 DEF Introduces, Linked
  <2> QED
    BY <1>6, <2>1, <2>2, <2>3 DEF Introduces
<1>7. CASE Accepts(i, c, pend, rest, j)
  BY <1>3, <1>7 DEF Accepts, Linked
<1>8. CASE Waits(s, i, c, players, pend, rest, j)
  <2>1. Announces(s, i, "no_client", p)
    BY <1>1, <1>8 DEF Waits, Announces
  <2>2. HasSession("no_client", p, j)
    <3>1. j.session \/ (pend # << >> /\ pend[1] = GameSession) \/ pend = << >>
      BY <1>8 DEF Waits, HasSession
    <3>2. p # << >> => p[1] = pend[1]
      BY <1>1, EmptySeq
    <3> QED
      BY <1>3, <3>1, <3>2 DEF HasSession
  <2> QED
    BY <1>8, <2>1, <2>2 DEF Waits, Linked
<1>9. CASE Plays(c, players, pend, rest, j)
  BY <1>9 DEF Plays
<1> QED
  BY <1>2, <1>5, <1>6, <1>7, <1>8, <1>9 DEF Linked

\* The connection of a client who is not in the game is closed.
LEMMA ClosedTalks ==
  ASSUME NEW g \in Gatherers, NEW h, NEW s \in Joiners, NEW i, NEW rest,
         NEW j \in JoinerRecords, NEW links, NEW knocks,
         g.net = "gathering", g.clients[s] # "in_game", Talks(s, i, g, rest, j, links, knocks),
         h.clients[s] = "no_client", h.out[s] = << >>, h.wire[s] = g.wire[s], s \notin h.up
  PROVE  Talks(s, i, h, rest, j, links, {})
<1>1. CASE s \in links
  <2> DEFINE wire == g.wire[s]
             out == g.out[s]
             inbox == j.inbox
             p == inbox \o wire
  <2>1. wire \in Seq(Messages) /\ out \in Seq(Messages) /\ inbox \in Seq(Messages)
    BY DEF JoinerRecords, Gatherers
  <2>2. Coming(s, g, j) = inbox \o (wire \o out) /\ Coming(s, h, j) = inbox \o (wire \o << >>)
    BY DEF Coming
  <2> HIDE DEF wire, out, inbox
  <2>3. p \in Seq(Messages) /\ wire \o << >> = wire
    BY <2>1, ConcatProperties, ConcatEmptySeq
  <2>4. inbox \o (wire \o out) = p \o out
    BY <2>1, ConcatAssociative
  <2>5. Coming(s, g, j) = p \o out /\ Coming(s, h, j) = p
    BY <2>2, <2>3, <2>4
  <2> HIDE DEF p
  <2>6. Linked(s, i, "no_client", h.players, p, rest, j)
    <3>1. Linked(s, i, g.clients[s], g.players, p \o out, rest, j)
      BY <1>1, <2>5 DEF Talks
    <3> QED
      BY <2>1, <2>3, <3>1, BrokenOff
  <2> QED
    BY <1>1, <2>5, <2>6 DEF Talks, Candidates, Members
<1>2. CASE s \notin links
  <2>1. Leaves(s, i, "no_client", h.net, h.players, rest, j)
    BY <1>2 DEF Talks, Leaves
  <2>2. h.wire[s] = << >>
    BY <1>2 DEF Talks
  <2> QED
    BY <1>2, <2>1, <2>2 DEF Talks, Candidates, Members
<1> QED
  BY <1>1, <1>2

\* NetCancelGather.
LEMMA CancelGatherKeeps ==
  ASSUME GatheringInvariant, CancelGather
  PROVE  GatheringInvariant'
<1>1. /\ OnTheWire \in Gatherers /\ gatherer = OffTheWire(OnTheWire)
      /\ joiner \in [Joiners -> JoinerRecords]
      /\ toGatherer \in [Joiners -> Seq(Messages)]
      /\ knocking \in SUBSET Joiners /\ linked \in SUBSET Joiners
  BY TypesHold
<1>2. PICK a \in [Joiners -> Nat] : Fits(OnTheWire, a, toGatherer, joiner, linked, knocking)
  BY TypesHold
<1> DEFINE g == OnTheWire
           told == Distributed(g, "cancel_game")
           gone == Erased(told, Joiners)
           h == [gone EXCEPT !.net = "down"]
<1>3. /\ g.net = "gathering" /\ gatherer' = [OffTheWire(gone) EXCEPT !.net = "down"]
      /\ joiner' = joiner /\ knocking' = {} /\ linked' = linked
      /\ toJoiner' = g.wire /\ toGatherer' = toGatherer
  BY DEF CancelGather, OnTheWire
<1> HIDE DEF g
<1>4. /\ told \in Gatherers /\ told.players = g.players /\ told.nextIdentifier = g.nextIdentifier
      /\ told.wire = g.wire
  <2>1. Topology("cancel_game", g.players) \in Messages
    BY <1>1, MessagesAreMessages DEF g, Gatherers
  <2> QED
    BY <1>1, <2>1, EnqueuedIsGatherer DEF g, Distributed
<1> HIDE DEF told
<1>5. /\ gone \in Gatherers /\ gone.players = g.players /\ gone.nextIdentifier = g.nextIdentifier
      /\ gone.wire = g.wire /\ gone.up = told.up \ Joiners
      /\ \A s \in Joiners : gone.clients[s] = "no_client" /\ gone.out[s] = << >>
  BY <1>4, ErasedIsGatherer
<1> HIDE DEF gone
<1>6. /\ h \in Gatherers /\ h.players = g.players /\ h.nextIdentifier = g.nextIdentifier
      /\ h.wire = g.wire /\ h.up = told.up \ Joiners /\ h.net = "down"
      /\ \A s \in Joiners : h.clients[s] = "no_client" /\ h.out[s] = << >>
  BY <1>5 DEF Gatherers
<1>7. gatherer' = OffTheWire(h)
  BY <1>3, <1>5 DEF OffTheWire, Gatherers
<1> HIDE DEF h
<1>8. Assigns(h, a) /\ Roster(h, a) /\ Stage(h)
  BY <1>2, <1>6 DEF g, Fits, Assigns, Roster, Stage
<1>9. ASSUME NEW s \in Joiners
      PROVE  Talks(s, a[s], h, toGatherer[s], joiner[s], linked, {})
  <2>1. Talks(s, a[s], g, toGatherer[s], joiner[s], linked, knocking) /\ Stage(g)
    BY <1>2 DEF g, Fits
  <2>2. g.clients[s] # "in_game"
    BY <1>3, <2>1 DEF Stage
  <2>3. /\ h.clients[s] = "no_client" /\ h.out[s] = << >> /\ h.wire[s] = g.wire[s] /\ s \notin h.up
        /\ joiner[s] \in JoinerRecords /\ g \in Gatherers
    BY <1>1, <1>6 DEF g
  <2> QED
    BY <1>3, <2>1, <2>2, <2>3, ClosedTalks
<1>10. Fits(h, a, toGatherer, joiner, linked, {})
  BY <1>8, <1>9 DEF Fits
<1>11. \E b \in [Joiners -> Nat] : Fits(h, b, toGatherer', joiner', linked', knocking')
  BY <1>3, <1>10
<1>12. /\ toJoiner' = h.wire /\ joiner' \in [Joiners -> JoinerRecords]
       /\ toGatherer' \in [Joiners -> Seq(Messages)]
       /\ knocking' \in SUBSET Joiners /\ linked' \in SUBSET Joiners
  BY <1>1, <1>3, <1>6
<1> QED
  BY <1>6, <1>7, <1>11, <1>12, GathererKeeps

\* A member who waits is told of the start.
LEMMA StartIsTold ==
  ASSUME NEW s, NEW i, NEW players \in Seq(Players), NEW pend \in Seq(Messages), NEW rest, NEW j,
         Waits(s, i, "awaiting_map", players, pend, rest, j), FindsItself(players, i, s)
  PROVE  Waits(s, i, "in_game", players,
               Append(Append(pend, Topology("start_game", players)), EndGameData), rest, j)
<1> DEFINE m == Topology("start_game", players)
           e == EndGameData
           more == Append(Append(pend, m), e)
           n == Len(pend)
<1>1. m \in Messages /\ m.type = "topology" /\ m.players = players /\ m.tag = "start_game"
  BY MessagesAreMessages DEF Topology
<1>2. e \in Messages /\ e.type # "topology"
  BY MessagesAreMessages DEF EndGameData
<1> HIDE DEF m, e
<1>3. /\ n \in Nat /\ DOMAIN pend = 1 .. n /\ Len(more) = n + 2 /\ DOMAIN more = 1 .. n + 2
      /\ more[n + 1] = m /\ more[n + 2] = e /\ \A k \in 1 .. n : more[k] = pend[k]
      /\ more # << >>
  <2> DEFINE first == Append(pend, m)
  <2>1. /\ first \in Seq(Messages) /\ Len(first) = n + 1 /\ n \in Nat /\ DOMAIN pend = 1 .. n
        /\ first[n + 1] = m /\ \A k \in 1 .. n : first[k] = pend[k]
    BY <1>1, AppendProperties, LenProperties
  <2> HIDE DEF first
  <2>2. DEFINE both == Append(first, e)
  <2>3. /\ both \in Seq(Messages) /\ Len(both) = n + 2 /\ DOMAIN both = 1 .. n + 2
        /\ both[n + 2] = e /\ \A k \in 1 .. n + 1 : both[k] = first[k]
    BY <1>2, <2>1, AppendProperties, LenProperties
  <2> HIDE DEF both
  <2>4. both # << >>
    BY <2>1, <2>3
  <2>5. both[n + 1] = m /\ \A k \in 1 .. n : both[k] = pend[k]
    BY <2>1, <2>3
  <2>6. more = both
    BY DEF both, first
  <2> HIDE DEF more
  <2> QED
    BY <2>1, <2>3, <2>4, <2>5, <2>6
<1> HIDE DEF more, n
<1>4. Announces(s, i, "in_game", more)
  <2> SUFFICES ASSUME NEW k \in DOMAIN more
      PROVE  \/ k = 1 /\ more[k] = GameSession
             \/ IsTopology(more[k], i, s) /\ more[k].tag \in {"new_player", "dropped_player"}
             \/ /\ k = Len(more) - 1
                /\ IsTopology(more[k], i, s) /\ more[k].tag = "start_game"
             \/ k = Len(more) /\ more[k] = EndGameData
    BY DEF Announces
  <2>1. CASE k = n + 1
    BY <1>1, <1>3, <2>1 DEF IsTopology
  <2>2. CASE k = n + 2
    BY <1>3, <2>2 DEF e
  <2>3. CASE k \in 1 .. n
    <3>1. more[k] = pend[k] /\ k \in DOMAIN pend
      BY <1>3, <2>3
    <3>2. \/ k = 1 /\ pend[k] = GameSession
          \/ IsTopology(pend[k], i, s) /\ pend[k].tag \in {"new_player", "dropped_player"}
      BY <3>1 DEF Waits, Announces
    <3> QED
      BY <3>1, <3>2
  <2> QED
    BY <1>3, <2>1, <2>2, <2>3
<1>5. HasSession("in_game", more, j)
  <2>1. j.session \/ (pend # << >> /\ pend[1] = GameSession)
    BY DEF Waits, HasSession
  <2>2. pend # << >> => more[1] = pend[1]
    BY <1>3, EmptySeq DEF n
  <2> QED
    BY <1>3, <2>1, <2>2 DEF HasSession
<1>6. Starts(more)
  <2>1. more[n + 1].type = "topology" /\ more[n + 1].tag = "start_game"
    BY <1>1, <1>3
  <2>2. Len(more) - 1 = n + 1
    BY <1>3
  <2> QED
    BY <1>3, <2>1, <2>2 DEF Starts, e
<1>7. Updates(players, more, j)
  <2>1. more[n + 1].type = "topology" /\ more[n + 1].players = players /\ n + 1 \in DOMAIN more
        /\ more[n + 2].type # "topology"
    BY <1>1, <1>2, <1>3
  <2>2. ASSUME NEW k \in DOMAIN more, more[k].type = "topology",
               \A l \in DOMAIN more : more[l].type = "topology" => l <= k
        PROVE  more[k].players = players
    <3>1. k >= n + 1
      BY <2>1, <2>2
    <3>2. k # n + 2
      BY <2>1, <2>2
    <3>3. k = n + 1
      BY <1>3, <3>1, <3>2
    <3> QED
      BY <2>1, <3>3
  <2> QED
    BY <2>1, <2>2 DEF Updates
<1> QED
  BY <1>4, <1>5, <1>6, <1>7 DEF Waits, m, e, more, Members

\* What the gatherer comes to when the game starts.
Playing(g) == Streams(g.players)
Told(g) == Distributed(Erased(g, g.ungathered), "start_game")
Sent(g) == Flushed(Enqueued(Told(g), Playing(g), EndGameData), Playing(g))
Started(g) ==
  [Sent(g) EXCEPT !.net = "active", !.ungathered = {},
     !.clients = [s \in Joiners |-> IF s \in Playing(g) THEN "in_game" ELSE @[s]]]

\* What the gatherer is when everybody has been told of the start.
LEMMA ToldIs ==
  ASSUME NEW g \in Gatherers
  PROVE  /\ Told(g) \in Gatherers /\ Told(g).players = g.players
         /\ Told(g).nextIdentifier = g.nextIdentifier /\ Told(g).wire = g.wire
         /\ Told(g).up = g.up \ g.ungathered
         /\ Topology("start_game", g.players) \in Messages
         /\ \A s \in Joiners :
              /\ Told(g).clients[s] = IF s \in g.ungathered THEN "no_client" ELSE g.clients[s]
              /\ Told(g).out[s] =
                   IF s \in Playing(g) /\ s \in g.up /\ s \notin g.ungathered
                   THEN Append(g.out[s], Topology("start_game", g.players))
                   ELSE IF s \in g.ungathered THEN << >> ELSE g.out[s]
<1> DEFINE kept == Erased(g, g.ungathered)
           m == Topology("start_game", kept.players)
<1>1. /\ kept \in Gatherers /\ kept.players = g.players
      /\ kept.nextIdentifier = g.nextIdentifier /\ kept.wire = g.wire
      /\ kept.up = g.up \ g.ungathered
      /\ \A s \in Joiners :
           /\ kept.clients[s] = IF s \in g.ungathered THEN "no_client" ELSE g.clients[s]
           /\ kept.out[s] = IF s \in g.ungathered THEN << >> ELSE g.out[s]
  BY ErasedIsGatherer
<1>2. Told(g) = Enqueued(kept, Streams(kept.players), m)
  BY DEF Told, Distributed
<1>3. Topology("start_game", g.players) \in Messages
  BY MessagesAreMessages DEF Gatherers
<1>4. m \in Messages /\ m = Topology("start_game", g.players) /\ Streams(kept.players) = Playing(g)
  BY <1>1, <1>3 DEF Playing
<1> HIDE DEF kept, m
<1> DEFINE told == Enqueued(kept, Playing(g), m)
<1>5. /\ told \in Gatherers /\ told.players = kept.players /\ told.clients = kept.clients
      /\ told.nextIdentifier = kept.nextIdentifier /\ told.wire = kept.wire /\ told.up = kept.up
      /\ \A t \in Joiners : told.out[t] =
           IF t \in Playing(g) /\ t \in kept.up THEN Append(kept.out[t], m) ELSE kept.out[t]
  BY <1>1, <1>4, EnqueuedIsGatherer
<1>6. Told(g) = told
  BY <1>2, <1>4
<1> HIDE DEF told
<1>7. ASSUME NEW s \in Joiners
      PROVE  /\ told.clients[s] = IF s \in g.ungathered THEN "no_client" ELSE g.clients[s]
             /\ told.out[s] =
                  IF s \in Playing(g) /\ s \in g.up /\ s \notin g.ungathered
                  THEN Append(g.out[s], m)
                  ELSE IF s \in g.ungathered THEN << >> ELSE g.out[s]
  BY <1>1, <1>5
<1> QED
  BY <1>1, <1>3, <1>4, <1>5, <1>6, <1>7

IsToldOfStart(s, g, h, j) ==
  Coming(s, h, j)
    = Append(Append(Coming(s, g, j), Topology("start_game", g.players)), EndGameData)

\* What it is when the end of the game data has been sent.
LEMMA StartedIs ==
  ASSUME NEW g \in Gatherers
  PROVE  /\ Started(g) \in Gatherers /\ Started(g).net = "active" /\ Started(g).ungathered = {}
         /\ Started(g).players = g.players /\ Started(g).nextIdentifier = g.nextIdentifier
         /\ Started(g).up = g.up \ g.ungathered
         /\ \A s \in Joiners :
              /\ Started(g).clients[s] =
                   IF s \in Playing(g) THEN "in_game"
                   ELSE IF s \in g.ungathered THEN "no_client" ELSE g.clients[s]
              /\ Started(g).out[s] =
                   IF s \in Playing(g) \/ s \in g.ungathered THEN << >> ELSE g.out[s]
              /\ s \notin Playing(g) \/ s \notin linked => Started(g).wire[s] = g.wire[s]
              /\ s \in Playing(g) /\ s \in linked /\ s \in g.up /\ s \notin g.ungathered =>
                   \A j \in JoinerRecords : IsToldOfStart(s, g, Started(g), j)
<1> DEFINE told == Told(g)
           m == Topology("start_game", g.players)
           S == Playing(g)
           both == Enqueued(told, S, EndGameData)
           sent == Flushed(both, S)
<1>1. /\ told \in Gatherers /\ told.players = g.players
      /\ told.nextIdentifier = g.nextIdentifier /\ told.wire = g.wire
      /\ told.up = g.up \ g.ungathered /\ m \in Messages
      /\ \A s \in Joiners :
           /\ told.clients[s] = IF s \in g.ungathered THEN "no_client" ELSE g.clients[s]
           /\ told.out[s] = IF s \in S /\ s \in g.up /\ s \notin g.ungathered THEN Append(g.out[s], m)
                            ELSE IF s \in g.ungathered THEN << >> ELSE g.out[s]
  BY ToldIs
<1>2. Started(g) = [sent EXCEPT !.net = "active", !.ungathered = {},
                      !.clients = [s \in Joiners |-> IF s \in S THEN "in_game" ELSE @[s]]]
  BY DEF Started, Sent
<1> HIDE DEF told, m, S
<1>3. /\ both \in Gatherers /\ both.players = told.players /\ both.clients = told.clients
      /\ both.nextIdentifier = told.nextIdentifier /\ both.wire = told.wire /\ both.up = told.up
      /\ \A t \in Joiners : both.out[t] =
           IF t \in S /\ t \in told.up THEN Append(told.out[t], EndGameData) ELSE told.out[t]
  BY <1>1, EnqueuedIsGatherer, MessagesAreMessages
<1> HIDE DEF both
<1>4. /\ sent \in Gatherers /\ sent.players = both.players /\ sent.clients = both.clients
      /\ sent.nextIdentifier = both.nextIdentifier /\ sent.up = both.up
      /\ \A s \in Joiners :
           /\ sent.wire[s] = IF s \in S \cap linked THEN both.wire[s] \o both.out[s] ELSE both.wire[s]
           /\ sent.out[s] = IF s \in S THEN << >> ELSE both.out[s]
  <2>1. \A s \in Joiners : both.wire[s] \o both.out[s] \in Seq(Messages) /\ << >> \in Seq(Messages)
    <3>1. \A s \in Joiners : both.wire[s] \in Seq(Messages) /\ both.out[s] \in Seq(Messages)
      BY <1>3 DEF Gatherers
    <3> QED
      BY <3>1, ConcatProperties
  <2> QED
    BY <1>3, <2>1 DEF Flushed, Gatherers
<1> HIDE DEF sent
<1> DEFINE h == [sent EXCEPT !.net = "active", !.ungathered = {},
                   !.clients = [s \in Joiners |-> IF s \in S THEN "in_game" ELSE @[s]]]
<1>5. /\ h.net = "active" /\ h.ungathered = {} /\ h.players = sent.players
      /\ h.nextIdentifier = sent.nextIdentifier /\ h.up = sent.up /\ h.wire = sent.wire
      /\ h.out = sent.out
      /\ \A s \in Joiners : h.clients[s] = IF s \in S THEN "in_game" ELSE sent.clients[s]
  BY <1>4 DEF Gatherers
<1>6. h \in Gatherers
  <2>1. "in_game" \in {"no_client"} \cup ClientStates
    BY DEF ClientStates
  <2> QED
    BY <1>4, <2>1 DEF Gatherers
<1>7. Started(g) = h
  BY <1>2
<1> HIDE DEF h
<1>8. ASSUME NEW s \in Joiners
      PROVE  /\ h.clients[s] = IF s \in S THEN "in_game"
                               ELSE IF s \in g.ungathered THEN "no_client" ELSE g.clients[s]
             /\ h.out[s] = IF s \in S \/ s \in g.ungathered THEN << >> ELSE g.out[s]
             /\ s \notin S \/ s \notin linked => h.wire[s] = g.wire[s]
             /\ s \in S /\ s \in linked /\ s \in g.up /\ s \notin g.ungathered =>
                  \A j \in JoinerRecords : IsToldOfStart(s, g, h, j)
  <2>1. h.clients[s] = IF s \in S THEN "in_game"
                       ELSE IF s \in g.ungathered THEN "no_client" ELSE g.clients[s]
    BY <1>1, <1>3, <1>4, <1>5
  <2>2. h.out[s] = IF s \in S \/ s \in g.ungathered THEN << >> ELSE g.out[s]
    BY <1>1, <1>3, <1>4, <1>5
  <2>3. ASSUME s \notin S \/ s \notin linked PROVE h.wire[s] = g.wire[s]
    BY <1>1, <1>3, <1>4, <1>5, <2>3
  <2>4. ASSUME s \in S, s \in linked, s \in g.up, s \notin g.ungathered, NEW j \in JoinerRecords
        PROVE  IsToldOfStart(s, g, h, j)
    <3>1. told.out[s] = Append(g.out[s], m) /\ told.wire[s] = g.wire[s]
      BY <1>1, <2>4
    <3>2. Coming(s, told, j) = Append(Coming(s, g, j), m)
      BY <1>1, <3>1, QueuedComes
    <3>3. both.out[s] = Append(told.out[s], EndGameData) /\ both.wire[s] = told.wire[s]
      BY <1>1, <1>3, <2>4
    <3>4. Coming(s, both, j) = Append(Coming(s, told, j), EndGameData)
      BY <1>1, <3>3, QueuedComes, MessagesAreMessages
    <3>5. h.wire[s] = both.wire[s] \o both.out[s] /\ h.out[s] = << >>
      <4>1. h.wire[s] = sent.wire[s] /\ h.out[s] = sent.out[s]
        BY <1>5
      <4>2. sent.wire[s] = both.wire[s] \o both.out[s] /\ sent.out[s] = << >>
        BY <1>4, <2>4
      <4> QED
        BY <4>1, <4>2
    <3>6. both.wire[s] \in Seq(Messages) /\ both.out[s] \in Seq(Messages) /\ j.inbox \in Seq(Messages)
      BY <1>3 DEF Gatherers, JoinerRecords
    <3>7. Coming(s, h, j) = Coming(s, both, j)
      BY <3>5, <3>6, FlushingKeepsLine DEF Coming
    <3> QED
      BY <3>2, <3>4, <3>7 DEF IsToldOfStart, m
  <2> QED
    BY <2>1, <2>2, <2>3, <2>4
<1> QED
  BY <1>1, <1>3, <1>4, <1>5, <1>6, <1>7, <1>8 DEF m, S

\* A conversation that is not heard of when the game starts.
LEMMA StartPassesBy ==
  ASSUME NEW g, NEW h, NEW s, NEW i, NEW rest, NEW j, NEW links, NEW knocks,
         g.net = "gathering", g.clients[s] \notin Members, h.clients[s] = g.clients[s],
         h.out[s] = g.out[s], h.wire[s] = g.wire[s], s \in h.up <=> s \in g.up,
         h.players = g.players, Talks(s, i, g, rest, j, links, knocks)
  PROVE  Talks(s, i, h, rest, j, links, {})
<1>1. Coming(s, h, j) = Coming(s, g, j)
  BY DEF Coming
<1>2. CASE s \in links
  BY <1>1, <1>2 DEF Talks
<1>3. CASE s \notin links
  <2>1. Leaves(s, i, h.clients[s], h.net, h.players, rest, j)
    BY <1>3 DEF Talks, Leaves
  <2> QED
    BY <1>3, <2>1 DEF Talks
<1> QED
  BY <1>2, <1>3

\* The conversation of a player when the game starts.
LEMMA PlayerStarts ==
  ASSUME NEW g \in Gatherers, NEW h, NEW s \in Joiners, NEW i, NEW rest,
         NEW j \in JoinerRecords, NEW links, NEW knocks,
         g.net = "gathering", g.clients[s] = "awaiting_map", FindsItself(g.players, i, s),
         h.clients[s] = "in_game", h.out[s] = << >>, s \in h.up <=> s \in g.up,
         h.players = g.players, s \notin links => h.wire[s] = g.wire[s],
         s \in links /\ s \in g.up => IsToldOfStart(s, g, h, j),
         Talks(s, i, g, rest, j, links, knocks)
  PROVE  Talks(s, i, h, rest, j, links, {})
<1>1. CASE s \in links
  <2>1. s \in g.up
    BY <1>1 DEF Talks
  <2>2. Waits(s, i, "awaiting_map", g.players, Coming(s, g, j), rest, j)
    BY <1>1 DEF Talks, Linked, Greets, Introduces, Accepts, Plays
  <2> DEFINE pend == Coming(s, g, j)
  <2>3. pend \in Seq(Messages) /\ g.players \in Seq(Players)
    <3>1. g.wire[s] \in Seq(Messages) /\ g.out[s] \in Seq(Messages) /\ j.inbox \in Seq(Messages)
          /\ g.players \in Seq(Players)
      BY DEF JoinerRecords, Gatherers
    <3> QED
      BY <3>1, ConcatProperties DEF Coming
  <2>4. Waits(s, i, "awaiting_map", g.players, pend, rest, j)
    BY <2>2
  <2>5. Coming(s, h, j) = Append(Append(pend, Topology("start_game", g.players)), EndGameData)
    BY <1>1, <2>1 DEF IsToldOfStart
  <2> HIDE DEF pend
  <2>6. Waits(s, i, "in_game", g.players, Coming(s, h, j), rest, j)
    BY <2>3, <2>4, <2>5, StartIsTold
  <2>7. Waits(s, i, "in_game", h.players, Coming(s, h, j), rest, j)
    BY <2>6
  <2> QED
    BY <1>1, <2>1, <2>7 DEF Talks, Linked, Candidates, Members
<1>2. CASE s \notin links
  <2>1. Leaves(s, i, h.clients[s], h.net, h.players, rest, j)
    BY <1>2 DEF Talks, Leaves
  <2>2. h.wire[s] = << >> /\ i # 0
    BY <1>2 DEF Talks, Members
  <2> QED
    BY <1>2, <2>1, <2>2 DEF Talks, Candidates, Members
<1> QED
  BY <1>1, <1>2

\* The start, as it is written in StartGameHit.
LEMMA StartIsOffTheWire ==
  ASSUME NEW sent \in Gatherers, NEW playing
  PROVE  LET h == [sent EXCEPT !.net = "active", !.ungathered = {},
                     !.clients = [s \in Joiners |-> IF s \in playing THEN "in_game" ELSE @[s]]]
         IN /\ [OffTheWire(sent) EXCEPT
                  !.net = "active", !.ungathered = {},
                  !.clients = [s \in Joiners |-> IF s \in playing THEN "in_game" ELSE @[s]]]
                 = OffTheWire(h)
            /\ h.wire = sent.wire
<1> DEFINE clients == [s \in Joiners |-> IF s \in playing THEN "in_game" ELSE sent.clients[s]]
           off == [OffTheWire(sent) EXCEPT !.net = "active", !.ungathered = {}, !.clients = clients]
           h == [sent EXCEPT !.net = "active", !.ungathered = {}, !.clients = clients]
<1>1. OffTheWire(sent).clients = sent.clients
  BY DEF OffTheWire
<1>2. [OffTheWire(sent) EXCEPT
         !.net = "active", !.ungathered = {},
         !.clients = [s \in Joiners |-> IF s \in playing THEN "in_game" ELSE @[s]]] = off
  BY <1>1
<1>3. off = OffTheWire(h) /\ h.wire = sent.wire
  <2> DEFINE eight == [net |-> "active", clients |-> clients, up |-> sent.up, players |-> sent.players,
                       nextIdentifier |-> sent.nextIdentifier, ungathered |-> {},
                       startable |-> sent.startable, out |-> sent.out]
  <2> HIDE DEF clients
  <2>1. off = eight
    <3> DEFINE first == [net |-> "active", clients |-> sent.clients, up |-> sent.up,
                         players |-> sent.players, nextIdentifier |-> sent.nextIdentifier,
                         ungathered |-> sent.ungathered, startable |-> sent.startable,
                         out |-> sent.out]
               second == [net |-> "active", clients |-> sent.clients, up |-> sent.up,
                          players |-> sent.players, nextIdentifier |-> sent.nextIdentifier,
                          ungathered |-> {}, startable |-> sent.startable, out |-> sent.out]
    <3>1. [OffTheWire(sent) EXCEPT !.net = "active"] = first
      BY DEF OffTheWire
    <3>2. [first EXCEPT !.ungathered = {}] = second
      OBVIOUS
    <3>3. [second EXCEPT !.clients = clients] = eight
      OBVIOUS
    <3> QED
      BY <3>1, <3>2, <3>3, Zenon
  <2>2. /\ h.net = "active" /\ h.clients = clients /\ h.up = sent.up /\ h.players = sent.players
        /\ h.nextIdentifier = sent.nextIdentifier /\ h.ungathered = {}
        /\ h.startable = sent.startable /\ h.out = sent.out /\ h.wire = sent.wire
    BY DEF Gatherers
  <2> HIDE DEF h, off
  <2> QED
    BY <2>1, <2>2 DEF OffTheWire
<1> QED
  BY <1>2, <1>3

\* The values of the gatherer that has started.
LEMMA SentIsGatherer ==
  ASSUME NEW g \in Gatherers
  PROVE  Sent(g) \in Gatherers
<1> DEFINE both == Enqueued(Told(g), Playing(g), EndGameData)
<1>1. both \in Gatherers
  <2>1. Told(g) \in Gatherers /\ EndGameData \in Messages
    BY ToldIs, MessagesAreMessages
  <2> QED
    BY <2>1, EnqueuedIsGatherer
<1>2. Sent(g) = Flushed(both, Playing(g))
  BY DEF Sent
<1> HIDE DEF both
<1>3. \A s \in Joiners : both.wire[s] \o both.out[s] \in Seq(Messages) /\ << >> \in Seq(Messages)
  <2>1. \A s \in Joiners : both.wire[s] \in Seq(Messages) /\ both.out[s] \in Seq(Messages)
    BY <1>1 DEF Gatherers
  <2> QED
    BY <2>1, ConcatProperties
<1>4. Flushed(both, Playing(g)) \in Gatherers
  BY <1>1, <1>3 DEF Flushed, Gatherers
<1> QED
  BY <1>2, <1>4

\* StartGameHit, when nobody's answer is awaited.
LEMMA StartGameKeeps ==
  ASSUME ~ StartsAhead, GatheringInvariant, StartGameHit
  PROVE  GatheringInvariant'
<1>1. /\ OnTheWire \in Gatherers /\ gatherer = OffTheWire(OnTheWire)
      /\ joiner \in [Joiners -> JoinerRecords]
      /\ toGatherer \in [Joiners -> Seq(Messages)]
      /\ knocking \in SUBSET Joiners /\ linked \in SUBSET Joiners
  BY TypesHold
<1>2. PICK a \in [Joiners -> Nat] : Fits(OnTheWire, a, toGatherer, joiner, linked, knocking)
  BY TypesHold
<1> DEFINE g == OnTheWire
           h == Started(g)
<1>3. /\ g.net = "gathering" /\ InState(g, "awaiting_accept_join") = {}
      /\ joiner' = joiner /\ knocking' = {} /\ linked' = linked
      /\ toGatherer' = toGatherer
  BY DEF StartGameHit, OnTheWire, InState
<1>4. gatherer' = OffTheWire(h) /\ toJoiner' = h.wire
  <2>1. gatherer.ungathered = g.ungathered
    BY DEF OnTheWire
  <2>2. Told(g).players = g.players /\ Sent(g) \in Gatherers
    BY <1>1, ToldIs, SentIsGatherer
  <2>3. /\ gatherer' = [OffTheWire(Sent(g)) EXCEPT
               !.net = "active", !.ungathered = {},
               !.clients = [s \in Joiners |-> IF s \in Playing(g) THEN "in_game" ELSE @[s]]]
        /\ toJoiner' = Sent(g).wire
    <3> HIDE DEF g
    <3>1. Streams(Told(g).players) = Playing(g)
      BY <2>2 DEF Playing
    <3>2. /\ gatherer' = [OffTheWire(Flushed(Enqueued(Told(g), Streams(Told(g).players), EndGameData),
                                              Streams(Told(g).players))) EXCEPT
               !.net = "active", !.ungathered = {},
               !.clients = [s \in Joiners |-> IF s \in Streams(Told(g).players) THEN "in_game" ELSE @[s]]]
          /\ toJoiner' = Flushed(Enqueued(Told(g), Streams(Told(g).players), EndGameData),
                                 Streams(Told(g).players)).wire
      BY <2>1, Zenon DEF StartGameHit, Told, g
    <3>3. Flushed(Enqueued(Told(g), Streams(Told(g).players), EndGameData), Streams(Told(g).players)) = Sent(g)
      BY <3>1, Zenon DEF Sent
    <3> QED
      BY <3>1, <3>2, <3>3, Zenon
  <2> QED
    BY <2>2, <2>3, StartIsOffTheWire, Zenon DEF Started
<1> HIDE DEF g
<1>5. /\ h \in Gatherers /\ h.net = "active" /\ h.ungathered = {}
      /\ h.players = g.players /\ h.nextIdentifier = g.nextIdentifier
      /\ h.up = g.up \ g.ungathered
  BY <1>1, StartedIs DEF g
<1>6. ASSUME NEW s \in Joiners
      PROVE  /\ h.clients[s] =
                   IF s \in Playing(g) THEN "in_game"
                   ELSE IF s \in g.ungathered THEN "no_client" ELSE g.clients[s]
             /\ h.out[s] = IF s \in Playing(g) \/ s \in g.ungathered THEN << >> ELSE g.out[s]
             /\ s \notin Playing(g) \/ s \notin linked => h.wire[s] = g.wire[s]
             /\ s \in Playing(g) /\ s \in linked /\ s \in g.up /\ s \notin g.ungathered =>
                  \A j \in JoinerRecords : IsToldOfStart(s, g, h, j)
  <2>1. g \in Gatherers
    BY <1>1 DEF g
  <2> QED
    BY <2>1, StartedIs, Zenon
<1> HIDE DEF h
<1>7. /\ Stage(g) /\ Roster(g, a) /\ Assigns(g, a)
      /\ \A s \in Joiners : Talks(s, a[s], g, toGatherer[s], joiner[s], linked, knocking)
  BY <1>2 DEF g, Fits
<1>8. ASSUME NEW s \in Joiners
      PROVE  /\ s \in Playing(g) <=> g.clients[s] = "awaiting_map"
             /\ s \in g.ungathered <=> g.clients[s] = "connected"
             /\ g.clients[s] # "awaiting_accept_join" /\ g.clients[s] # "in_game"
  <2>1. g.clients[s] # "in_game" /\ (s \in g.ungathered <=> g.clients[s] = "connected")
    BY <1>3, <1>7 DEF Stage, InState
  <2>2. s \in Playing(g) <=> g.clients[s] = "awaiting_map"
    BY <1>3, <1>7, <2>1 DEF Roster, Playing, Members
  <2>3. g.clients[s] # "awaiting_accept_join"
    BY <1>3 DEF InState
  <2> QED
    BY <2>1, <2>2, <2>3
<1>9. Assigns(h, a)
  BY <1>5, <1>7 DEF Assigns
<1>10. Roster(h, a)
  <2>1. \A s \in Joiners : h.clients[s] \in Members <=> s \in Streams(h.players)
    <3> TAKE s \in Joiners
    <3>1. s \in Streams(h.players) <=> s \in Playing(g)
      BY <1>5 DEF Playing
    <3>2. CASE s \in Playing(g)
      BY <1>6, <3>1, <3>2 DEF Members
    <3>3. CASE s \notin Playing(g)
      BY <1>6, <1>8, <3>1, <3>3 DEF Members
    <3> QED
      BY <3>2, <3>3
  <2> QED
    BY <1>5, <1>7, <2>1 DEF Roster
<1>11. Stage(h)
  <2>1. \A s \in Joiners : h.clients[s] \notin {"connected", "awaiting_accept_join", "awaiting_map"}
    BY <1>6, <1>8
  <2> QED
    BY <1>5, <2>1 DEF Stage
<1>12. ASSUME NEW s \in Joiners
       PROVE  Talks(s, a[s], h, toGatherer[s], joiner[s], linked, {})
  <2>1. Talks(s, a[s], g, toGatherer[s], joiner[s], linked, knocking)
    BY <1>7
  <2>2. g \in Gatherers /\ joiner[s] \in JoinerRecords /\ g.net = "gathering"
    BY <1>1, <1>3 DEF g
  <2>3. CASE g.clients[s] = "awaiting_map"
    <3>1. h.clients[s] = "in_game" /\ h.out[s] = << >> /\ (s \notin linked => h.wire[s] = g.wire[s])
      BY <1>6, <1>8, <2>3
    <3>2. s \in h.up <=> s \in g.up
      BY <1>5, <1>8, <2>3
    <3>3. FindsItself(g.players, a[s], s)
      BY <1>7, <1>8, <2>2, <2>3, PlayersAreFound DEF Playing
    <3>4. s \in linked /\ s \in g.up => IsToldOfStart(s, g, h, joiner[s])
      BY <1>6, <1>8, <2>2, <2>3
    <3> QED
      BY <1>5, <2>1, <2>2, <2>3, <3>1, <3>2, <3>3, <3>4, PlayerStarts
  <2>4. CASE g.clients[s] = "connected"
    <3>1. h.clients[s] = "no_client" /\ h.out[s] = << >> /\ h.wire[s] = g.wire[s] /\ s \notin h.up
      BY <1>5, <1>6, <1>8, <2>4
    <3>2. g.clients[s] # "in_game"
      BY <2>4
    <3> QED
      BY <2>1, <2>2, <3>1, <3>2, ClosedTalks
  <2>5. CASE g.clients[s] \notin {"awaiting_map", "connected"}
    <3>1. h.clients[s] = g.clients[s] /\ h.out[s] = g.out[s] /\ h.wire[s] = g.wire[s]
      BY <1>6, <1>8, <2>5
    <3>2. s \in h.up <=> s \in g.up
      BY <1>5, <1>8, <2>5
    <3>3. g.clients[s] \notin Members
      BY <1>8, <2>5 DEF Members
    <3> QED
      BY <1>5, <2>1, <2>2, <3>1, <3>2, <3>3, StartPassesBy
  <2> QED
    BY <2>3, <2>4, <2>5
<1>13. Fits(h, a, toGatherer, joiner, linked, {})
  BY <1>9, <1>10, <1>11, <1>12 DEF Fits
<1>14. \E b \in [Joiners -> Nat] : Fits(h, b, toGatherer', joiner', linked', knocking')
  BY <1>3, <1>13
<1>15. /\ joiner' \in [Joiners -> JoinerRecords] /\ toGatherer' \in [Joiners -> Seq(Messages)]
       /\ knocking' \in SUBSET Joiners /\ linked' \in SUBSET Joiners
  BY <1>1, <1>3
<1> QED
  BY <1>4, <1>5, <1>14, <1>15, GathererKeeps

----------------------------------------------------------------------------
(* Joiners that come and leave. *)

\* The step of a joiner: the others, and what the gatherer knows, stay as they are.
LEMMA JoinerKeeps ==
  ASSUME GatheringInvariant, NEW s \in Joiners, gatherer' = gatherer,
         NEW a \in [Joiners -> Nat], Fits(OnTheWire, a, toGatherer, joiner, linked, knocking),
         toJoiner' \in [Joiners -> Seq(Messages)], joiner' \in [Joiners -> JoinerRecords],
         toGatherer' \in [Joiners -> Seq(Messages)],
         knocking' \in SUBSET Joiners, linked' \in SUBSET Joiners,
         \A t \in Joiners \ {s} :
           /\ toJoiner'[t] = toJoiner[t] /\ joiner'[t] = joiner[t] /\ toGatherer'[t] = toGatherer[t]
           /\ (t \in linked' <=> t \in linked) /\ (t \in knocking' <=> t \in knocking),
         Talks(s, a[s], OnTheWire', toGatherer'[s], joiner'[s], linked', knocking')
  PROVE  GatheringInvariant'
<1> DEFINE g == OnTheWire
           h == OnTheWire'
<1>1. /\ h.net = g.net /\ h.clients = g.clients /\ h.up = g.up /\ h.players = g.players
      /\ h.nextIdentifier = g.nextIdentifier /\ h.ungathered = g.ungathered
      /\ h.startable = g.startable /\ h.out = g.out /\ h.wire = toJoiner' /\ g.wire = toJoiner
  BY DEF OnTheWire
<1>2. g \in Gatherers /\ gatherer = OffTheWire(g)
  BY TypesHold
<1>3. h = [net |-> g.net, clients |-> g.clients, up |-> g.up, players |-> g.players,
           nextIdentifier |-> g.nextIdentifier, ungathered |-> g.ungathered,
           startable |-> g.startable, out |-> g.out, wire |-> toJoiner']
  BY DEF OnTheWire
<1>4. OffTheWire(h) = OffTheWire(g)
  <2> HIDE DEF g, h
  <2> QED
    BY <1>1 DEF OffTheWire
<1> HIDE DEF g, h
<1>5. h \in Gatherers
  BY <1>2, <1>3 DEF Gatherers
<1>6. gatherer' = OffTheWire(h)
  BY <1>2, <1>4
<1>7. ASSUME NEW t \in Joiners
      PROVE  Talks(t, a[t], h, toGatherer'[t], joiner'[t], linked', knocking')
  <2>1. CASE t = s
    BY <2>1 DEF h
  <2>2. CASE t # s
    <3>1. Talks(t, a[t], g, toGatherer[t], joiner[t], linked, knocking)
      BY DEF Fits, g
    <3>2. /\ toGatherer'[t] = toGatherer[t] /\ joiner'[t] = joiner[t] /\ h.wire[t] = g.wire[t]
          /\ h.out[t] = g.out[t] /\ h.clients[t] = g.clients[t] /\ (t \in h.up <=> t \in g.up)
          /\ (t \in linked' <=> t \in linked) /\ (t \in knocking' <=> t \in knocking)
      BY <1>1, <2>2
    <3> QED
      BY <1>1, <3>1, <3>2 DEF Talks, Coming
  <2> QED
    BY <2>1, <2>2
<1>8. Assigns(h, a) /\ Roster(h, a) /\ Stage(h)
  BY <1>1 DEF Fits, Assigns, Roster, Stage, InState, g
<1>9. Fits(h, a, toGatherer', joiner', linked', knocking')
  BY <1>7, <1>8 DEF Fits
<1> QED
  BY <1>5, <1>6, <1>9 DEF GatheringInvariant, GatheringTyped, h

\* What the gatherer knows is the same after the step of a joiner.
LEMMA JoinersAside ==
  ASSUME gatherer' = gatherer
  PROVE  /\ OnTheWire'.net = OnTheWire.net /\ OnTheWire'.clients = OnTheWire.clients
         /\ OnTheWire'.up = OnTheWire.up /\ OnTheWire'.players = OnTheWire.players
         /\ OnTheWire'.out = OnTheWire.out /\ OnTheWire'.wire = toJoiner'
         /\ OnTheWire.wire = toJoiner /\ OnTheWire.up = gatherer.up
         /\ OnTheWire.net = gatherer.net
  BY DEF OnTheWire

\* A connection is made.
LEMMA ConnectsKeeps ==
  ASSUME GatheringInvariant, NEW s \in Joiners, Connects(s)
  PROVE  GatheringInvariant'
<1>1. /\ OnTheWire \in Gatherers /\ gatherer = OffTheWire(OnTheWire)
      /\ joiner \in [Joiners -> JoinerRecords]
      /\ toGatherer \in [Joiners -> Seq(Messages)]
      /\ knocking \in SUBSET Joiners /\ linked \in SUBSET Joiners
  BY TypesHold
<1>2. PICK a \in [Joiners -> Nat] : Fits(OnTheWire, a, toGatherer, joiner, linked, knocking)
  BY TypesHold
<1>3. /\ joiner[s].net = "connecting" /\ joiner' = [joiner EXCEPT ![s].net = "joining"]
      /\ knocking' = knocking \cup {s} /\ linked' = linked \cup {s}
      /\ gatherer' = gatherer /\ toJoiner' = toJoiner /\ toGatherer' = toGatherer
  BY DEF Connects
<1> DEFINE g == OnTheWire
           h == OnTheWire'
           j == joiner[s]
           k == joiner'[s]
<1>4. /\ h.net = g.net /\ h.clients = g.clients /\ h.up = g.up /\ h.players = g.players
      /\ h.out = g.out /\ h.wire = g.wire /\ g.wire = toJoiner
  BY <1>3, JoinersAside
<1>5. Talks(s, a[s], g, toGatherer[s], j, linked, knocking)
  BY <1>2 DEF Fits
<1>6. k = [j EXCEPT !.net = "joining"] /\ j \in JoinerRecords
  BY <1>1, <1>3
<1>7. /\ k \in JoinerRecords /\ k.net = "joining" /\ k.handler = j.handler
      /\ k.identifier = j.identifier /\ k.inbox = j.inbox /\ k.players = j.players
  BY <1>6 DEF JoinerRecords, JoinerStates
<1>8. toJoiner \in [Joiners -> Seq(Messages)]
  BY <1>1, <1>4 DEF Gatherers
<1> HIDE DEF g, h, j, k
<1>9. s \notin linked
  BY <1>3, <1>5 DEF Talks, Linked, Greets, Introduces, Accepts, Waits, Plays, j
<1>10. /\ g.clients[s] = "no_client" /\ a[s] = 0 /\ toGatherer[s] = << >> /\ j = NewJoiner
       /\ g.wire[s] = << >> /\ s \notin g.up /\ g.out[s] = << >>
  <2>1. g.clients[s] = "no_client" /\ a[s] = 0 /\ toGatherer[s] = << >> /\ j = NewJoiner
        /\ g.wire[s] = << >>
    BY <1>3, <1>5, <1>9 DEF Talks, Leaves, j
  <2> QED
    BY <1>5, <2>1 DEF Talks
<1>11. /\ k.handler = "awaiting_hello" /\ k.identifier = 0 /\ k.inbox = << >>
       /\ k.players = <<ThisPlayer>>
  BY <1>7, <1>10 DEF NewJoiner
<1>12. Coming(s, h, k) = << >>
  BY <1>4, <1>10, <1>11 DEF Coming
<1>13. Talks(s, a[s], h, toGatherer'[s], k, linked', knocking')
  <2>1. Greets("no_client", << >>, << >>, k)
    BY <1>7, <1>11 DEF Greets
  <2>2. Knows(s, a[s], k)
    BY <1>7, <1>11 DEF Knows
  <2> QED
    BY <1>3, <1>4, <1>7, <1>10, <1>11, <1>12, <2>1, <2>2 DEF Talks, Linked, Members, Candidates
<1>14. joiner' \in [Joiners -> JoinerRecords]
  BY <1>1, <1>3, <1>7 DEF k
<1>15. /\ knocking' \in SUBSET Joiners /\ linked' \in SUBSET Joiners
       /\ toJoiner' \in [Joiners -> Seq(Messages)] /\ toGatherer' \in [Joiners -> Seq(Messages)]
  BY <1>1, <1>3, <1>8
<1>16. \A t \in Joiners \ {s} :
         /\ toJoiner'[t] = toJoiner[t] /\ joiner'[t] = joiner[t] /\ toGatherer'[t] = toGatherer[t]
         /\ (t \in linked' <=> t \in linked) /\ (t \in knocking' <=> t \in knocking)
  BY <1>1, <1>3
<1> QED
  BY <1>2, <1>3, <1>13, <1>14, <1>15, <1>16, JoinerKeeps DEF h, k

\* A joiner leaves, or finds that the gatherer has.
LEMMA QuitsKeeps ==
  ASSUME GatheringInvariant, NEW s \in Joiners, NEW net \in {"join_error", "given_up"},
         joiner[s].net # "connecting", Quits(s, net)
  PROVE  GatheringInvariant'
<1>1. /\ OnTheWire \in Gatherers /\ gatherer = OffTheWire(OnTheWire)
      /\ joiner \in [Joiners -> JoinerRecords]
      /\ toGatherer \in [Joiners -> Seq(Messages)]
      /\ knocking \in SUBSET Joiners /\ linked \in SUBSET Joiners
  BY TypesHold
<1>2. PICK a \in [Joiners -> Nat] : Fits(OnTheWire, a, toGatherer, joiner, linked, knocking)
  BY TypesHold
<1>3. /\ joiner' = [joiner EXCEPT ![s].net = net, ![s].inbox = << >>]
      /\ linked' = linked \ {s} /\ toJoiner' = [toJoiner EXCEPT ![s] = << >>]
      /\ gatherer' = gatherer /\ knocking' = knocking /\ toGatherer' = toGatherer
  BY DEF Quits
<1> DEFINE g == OnTheWire
           h == OnTheWire'
           j == joiner[s]
           k == joiner'[s]
<1>4. /\ h.net = g.net /\ h.clients = g.clients /\ h.up = g.up /\ h.players = g.players
      /\ h.out = g.out /\ h.wire = toJoiner' /\ g.wire = toJoiner
  BY <1>3, JoinersAside
<1>5. Talks(s, a[s], g, toGatherer[s], j, linked, knocking)
  BY <1>2 DEF Fits
<1>6. k = [[j EXCEPT !.net = net] EXCEPT !.inbox = << >>] /\ j \in JoinerRecords
  BY <1>1, <1>3
<1>7. /\ k \in JoinerRecords /\ k.net = net /\ k.identifier = j.identifier /\ k.handler = j.handler
  <2>1. << >> \in Seq(Messages) /\ net \in JoinerStates
    BY DEF JoinerStates
  <2> HIDE DEF j, k
  <2>2. /\ k.net = net /\ k.identifier = j.identifier /\ k.handler = j.handler
        /\ k = [net |-> net, handler |-> j.handler, identifier |-> j.identifier,
                session |-> j.session, players |-> j.players, inbox |-> << >>, reply |-> j.reply]
    BY <1>6 DEF JoinerRecords
  <2> QED
    BY <1>6, <2>1, <2>2 DEF JoinerRecords
<1>8. toJoiner \in [Joiners -> Seq(Messages)]
  BY <1>1, <1>4 DEF Gatherers
<1>9. toJoiner'[s] = << >> /\ toJoiner' \in [Joiners -> Seq(Messages)]
  BY <1>3, <1>8
<1>10. j.net # "connecting"
  OBVIOUS
<1> HIDE DEF g, h, j, k
<1>11. Knows(s, a[s], k)
  <2>1. j.identifier \in {0, a[s]}
    BY <1>5 DEF Talks, Knows
  <2> QED
    BY <1>7, <2>1 DEF Knows
<1>12. Leaves(s, a[s], g.clients[s], g.net, g.players, toGatherer[s], k)
  <2>1. \/ toGatherer[s] = << >>
        \/ toGatherer[s] = <<JoinerInfo>> /\ g.clients[s] \in {"no_client", "connecting"}
        \/ /\ toGatherer[s] = <<CapabilitiesOf(s)>>
           /\ g.clients[s] \in {"no_client", "awaiting_capabilities"}
        \/ /\ toGatherer[s] = <<AcceptJoin(a[s])>> /\ a[s] # 0
           /\ g.clients[s] \in {"no_client", "awaiting_accept_join"}
    BY <1>5, RestIsOneMessage, Zenon
  <2> QED
    BY <1>7, <2>1 DEF Leaves
<1>13. Talks(s, a[s], h, toGatherer'[s], k, linked', knocking')
  <2>1. s \notin linked'
    BY <1>3
  <2>2. /\ (g.clients[s] \in Candidates => a[s] = 0)
        /\ (g.clients[s] \in Members \cup {"awaiting_accept_join"} => a[s] # 0)
        /\ (s \in g.up => g.clients[s] # "no_client")
        /\ (s \notin g.up => g.out[s] = << >>)
        /\ (s \in knocking => /\ g.clients[s] = "no_client" /\ a[s] = 0 /\ toGatherer[s] = << >>)
    BY <1>5 DEF Talks
  <2> QED
    BY <1>3, <1>4, <1>7, <1>9, <1>11, <1>12, <2>1, <2>2 DEF Talks
<1>14. joiner' \in [Joiners -> JoinerRecords]
  BY <1>1, <1>3, <1>7 DEF k
<1>15. /\ knocking' \in SUBSET Joiners /\ linked' \in SUBSET Joiners
       /\ toGatherer' \in [Joiners -> Seq(Messages)]
  BY <1>1, <1>3
<1>16. \A t \in Joiners \ {s} :
         /\ toJoiner'[t] = toJoiner[t] /\ joiner'[t] = joiner[t] /\ toGatherer'[t] = toGatherer[t]
         /\ (t \in linked' <=> t \in linked) /\ (t \in knocking' <=> t \in knocking)
  BY <1>1, <1>3, <1>8
<1> QED
  BY <1>2, <1>3, <1>9, <1>13, <1>14, <1>15, <1>16, JoinerKeeps DEF h, k

----------------------------------------------------------------------------
(* What a joiner finds. *)

\* What is received, sent and queued can be put together in either order.
LEMMA LinesAssociate == \A x, y, z \in Seq(Messages) : (x \o y) \o z = x \o (y \o z)
  BY ConcatAssociative

\* What is under way to a joiner is what it finds and what it leaves for later.
LEMMA FoundIsFirst ==
  ASSUME NEW inbox \in Seq(Messages), NEW wire \in Seq(Messages), NEW out \in Seq(Messages),
         NEW n \in 0 .. Len(wire)
  PROVE  LET found == inbox \o SubSeq(wire, 1, n)
             left == SubSeq(wire, n + 1, Len(wire))
         IN /\ found \in Seq(Messages) /\ left \in Seq(Messages) /\ left \o out \in Seq(Messages)
            /\ inbox \o (wire \o out) = found \o (left \o out)
<1> DEFINE first == SubSeq(wire, 1, n)
           left == SubSeq(wire, n + 1, Len(wire))
<1>1. first \in Seq(Messages) /\ left \in Seq(Messages)
  BY SubSeqProperties
<1>2. first \o left = wire
  <2>1. SubSeq(wire, 1, n) \o SubSeq(wire, n + 1, Len(wire)) = SubSeq(wire, 1, Len(wire))
    <3>1. Len(wire) \in Nat /\ 1 \in 1 .. Len(wire) + 1 /\ n \in 1 - 1 .. Len(wire)
          /\ Len(wire) \in n .. Len(wire)
      OBVIOUS
    <3> QED
      BY <3>1, ConcatAdjacentSubSeq
  <2>2. SubSeq(wire, 1, Len(wire)) = wire
    BY SubSeqFull
  <2> QED
    BY <2>1, <2>2
<1> HIDE DEF first, left
<1>3. left \o out \in Seq(Messages) /\ inbox \o first \in Seq(Messages)
  BY <1>1, ConcatProperties
<1>4. (first \o left) \o out = first \o (left \o out)
  BY <1>1, LinesAssociate, ZenonT(40)
<1>5. inbox \o (first \o (left \o out)) = (inbox \o first) \o (left \o out)
  <2> DEFINE rest == left \o out
  <2>1. rest \in Seq(Messages)
    BY <1>3
  <2> HIDE DEF rest
  <2>2. (inbox \o first) \o rest = inbox \o (first \o rest)
    BY <1>1, <2>1, LinesAssociate, ZenonT(40)
  <2> QED
    BY <2>2 DEF rest
<1>6. inbox \o (wire \o out) = (inbox \o first) \o (left \o out)
  BY <1>2, <1>4, <1>5
<1> QED
  BY <1>1, <1>3, <1>6 DEF first, left

Unfound(s, n) == SubSeq(toJoiner[s], n + 1, Len(toJoiner[s]))
Later(s, n) == Unfound(s, n) \o OnTheWire.out[s]

\* What a joiner finds, with what the invariant says of it.
LEMMA JoinerFinds ==
  ASSUME GatheringInvariant, NEW s \in Joiners, NEW n \in 0 .. Len(toJoiner[s]), NEW ended \in BOOLEAN,
         Finds(s, n, ended), NEW a \in [Joiners -> Nat],
         Fits(OnTheWire, a, toGatherer, joiner, linked, knocking)
  PROVE  /\ joiner[s] \in JoinerRecords /\ toGatherer[s] \in Seq(Messages)
         /\ Found(s, n) \in Seq(Messages) /\ Later(s, n) \in Seq(Messages)
         /\ Knows(s, a[s], joiner[s])
         /\ s \in linked =>
              Linked(s, a[s], OnTheWire.clients[s], OnTheWire.players,
                     Found(s, n) \o Later(s, n), toGatherer[s], joiner[s])
         /\ s \notin linked =>
              /\ Leaves(s, a[s], OnTheWire.clients[s], OnTheWire.net, OnTheWire.players,
                        toGatherer[s], joiner[s])
              /\ ~ ended /\ toJoiner[s] = << >> /\ Found(s, n) = joiner[s].inbox
         /\ ended => s \in linked /\ OnTheWire.clients[s] = "no_client" /\ s \notin knocking
         /\ s \in linked /\ s \in knocking =>
              joiner[s].handler = "awaiting_hello" /\ Found(s, n) \o Later(s, n) = << >>
         /\ linked' = IF ended THEN linked \ {s} ELSE linked
<1>1. /\ OnTheWire \in Gatherers /\ joiner[s] \in JoinerRecords /\ toGatherer[s] \in Seq(Messages)
  BY TypesHold
<1>2. OnTheWire.wire = toJoiner /\ OnTheWire.up = gatherer.up
  BY DEF OnTheWire
<1> DEFINE g == OnTheWire
           j == joiner[s]
           rest == toGatherer[s]
           wire == toJoiner[s]
           out == g.out[s]
           inbox == j.inbox
<1>3. wire \in Seq(Messages) /\ out \in Seq(Messages) /\ inbox \in Seq(Messages)
  BY <1>1, <1>2 DEF Gatherers, JoinerRecords
<1>4. Talks(s, a[s], g, rest, j, linked, knocking)
  BY DEF Fits
<1>5. /\ (s \in linked \/ n = 0) /\ (ended => s \in linked \ Served)
      /\ linked' = IF ended THEN linked \ {s} ELSE linked
  BY DEF Finds
<1>6. Coming(s, g, j) = inbox \o (wire \o out)
  BY <1>2 DEF Coming
<1>7. /\ Found(s, n) \in Seq(Messages) /\ Later(s, n) \in Seq(Messages)
      /\ inbox \o (wire \o out) = Found(s, n) \o Later(s, n)
  <2>1. /\ Found(s, n) = inbox \o SubSeq(wire, 1, n)
        /\ Later(s, n) = SubSeq(wire, n + 1, Len(wire)) \o out
    BY DEF Found, Later, Unfound
  <2>2. n \in 0 .. Len(wire)
    OBVIOUS
  <2> HIDE DEF wire, out, inbox
  <2>3. /\ inbox \o SubSeq(wire, 1, n) \in Seq(Messages)
        /\ SubSeq(wire, n + 1, Len(wire)) \o out \in Seq(Messages)
        /\ inbox \o (wire \o out)
              = (inbox \o SubSeq(wire, 1, n)) \o (SubSeq(wire, n + 1, Len(wire)) \o out)
    BY <1>3, <2>2, FoundIsFirst, Zenon
  <2> QED
    BY <2>1, <2>3, Zenon
<1>8. Coming(s, g, j) = Found(s, n) \o Later(s, n)
  BY <1>6, <1>7
<1>9. ended => s \in linked /\ s \notin g.up /\ s \notin knocking
  BY <1>2, <1>5 DEF Served
<1>10. ASSUME s \notin linked PROVE toJoiner[s] = << >> /\ Found(s, n) = joiner[s].inbox /\ ~ ended
  <2>1. wire = << >> /\ n = 0 /\ ~ ended
    BY <1>2, <1>4, <1>5, <1>10 DEF Talks
  <2>2. SubSeq(wire, 1, n) = << >>
    BY <2>1, <1>3
  <2>3. Found(s, n) = inbox \o << >>
    BY <2>2, Zenon DEF Found
  <2>4. inbox \o << >> = inbox
    BY <1>3, ConcatEmptySeq
  <2> QED
    BY <2>1, <2>3, <2>4
<1> HIDE DEF g, j, rest
<1>11. /\ Knows(s, a[s], j)
       /\ s \in linked => Linked(s, a[s], g.clients[s], g.players, Found(s, n) \o Later(s, n), rest, j)
       /\ s \notin linked => Leaves(s, a[s], g.clients[s], g.net, g.players, rest, j)
       /\ s \in linked /\ s \notin g.up => g.clients[s] = "no_client"
       /\ s \in linked /\ s \in knocking =>
            j.handler = "awaiting_hello" /\ Found(s, n) \o Later(s, n) = << >>
  BY <1>4, <1>8 DEF Talks
<1> QED
  BY <1>1, <1>5, <1>7, <1>9, <1>10, <1>11 DEF g, j, rest

\* What he makes of it, and the invariant after it.
LEMMA JoinerAnswers ==
  ASSUME GatheringInvariant, NEW s \in Joiners, NEW n \in 0 .. Len(toJoiner[s]), NEW ended \in BOOLEAN,
         Finds(s, n, ended), NEW a \in [Joiners -> Nat],
         Fits(OnTheWire, a, toGatherer, joiner, linked, knocking),
         gatherer' = gatherer, knocking' = knocking, NEW j, Answered(s, j),
         j.reply \in Seq(Messages), NEW k \in JoinerRecords, k = [j EXCEPT !.reply = << >>],
         k.net # "connecting", Knows(s, a[s], k),
         s \notin linked' => Leaves(s, a[s], OnTheWire.clients[s], OnTheWire.net,
                                    OnTheWire.players, toGatherer[s], k),
         s \in linked' => Linked(s, a[s], OnTheWire.clients[s], OnTheWire.players,
                                 k.inbox \o Later(s, n), toGatherer[s] \o j.reply, k),
         s \in linked' /\ s \in knocking =>
           k.handler = "awaiting_hello" /\ k.inbox \o Later(s, n) = << >> /\ j.reply = << >>
  PROVE  GatheringInvariant'
<1>1. /\ OnTheWire \in Gatherers /\ gatherer = OffTheWire(OnTheWire)
      /\ joiner \in [Joiners -> JoinerRecords]
      /\ toGatherer \in [Joiners -> Seq(Messages)]
      /\ knocking \in SUBSET Joiners /\ linked \in SUBSET Joiners
  BY TypesHold
<1>2. /\ joiner' = [joiner EXCEPT ![s] = k]
      /\ toGatherer' = [toGatherer EXCEPT ![s] = IF s \in linked' THEN toGatherer[s] \o j.reply
                                                 ELSE toGatherer[s]]
      /\ toJoiner' = [toJoiner EXCEPT ![s] = IF ended THEN << >> ELSE Unfound(s, n)]
      /\ linked' = IF ended THEN linked \ {s} ELSE linked
      /\ (ended => s \in linked)
  BY <1>1 DEF Answered, Finds, Unfound
<1> DEFINE g == OnTheWire
           h == OnTheWire'
           rest == toGatherer[s]
           wire == toJoiner[s]
<1>3. /\ h.net = g.net /\ h.clients = g.clients /\ h.up = g.up /\ h.players = g.players
      /\ h.out = g.out /\ h.wire = toJoiner' /\ g.wire = toJoiner
  BY JoinersAside
<1>4. toJoiner \in [Joiners -> Seq(Messages)] /\ wire \in Seq(Messages)
  BY <1>1, <1>3 DEF Gatherers
<1>5. Unfound(s, n) \in Seq(Messages)
  <2>1. n + 1 \in Int /\ Len(wire) \in Int
    BY <1>4
  <2>2. SubSeq(wire, n + 1, Len(wire)) \in Seq(Messages)
    <3>1. \A i \in n + 1 .. Len(wire) : i \in 1 .. Len(wire)
      OBVIOUS
    <3> QED
      BY <1>4, SubSeqProperties
  <2> QED
    BY <2>2 DEF Unfound
<1>6. toJoiner' \in [Joiners -> Seq(Messages)]
  <2>1. (IF ended THEN << >> ELSE Unfound(s, n)) \in Seq(Messages)
    BY <1>5
  <2> QED
    BY <1>2, <1>4, <2>1
<1>7. rest \o j.reply \in Seq(Messages) /\ rest \in Seq(Messages)
  <2>1. rest \in Seq(Messages)
    BY <1>1
  <2> QED
    BY <2>1, ConcatProperties
<1>8. toGatherer' \in [Joiners -> Seq(Messages)]
  <2>1. (IF s \in linked' THEN rest \o j.reply ELSE rest) \in Seq(Messages)
    BY <1>7
  <2> QED
    BY <1>1, <1>2, <2>1
<1>9. /\ joiner' \in [Joiners -> JoinerRecords] /\ knocking' \in SUBSET Joiners
      /\ linked' \in SUBSET Joiners /\ joiner'[s] = k
  BY <1>1, <1>2
<1>10. Talks(s, a[s], g, rest, joiner[s], linked, knocking)
  BY DEF Fits
<1>11. /\ toGatherer'[s] = IF s \in linked' THEN rest \o j.reply ELSE rest
       /\ h.wire[s] = IF ended THEN << >> ELSE Unfound(s, n)
  BY <1>1, <1>2, <1>3, <1>4
<1> HIDE DEF g, h, rest, wire
<1>12. /\ (g.clients[s] \in Candidates => a[s] = 0)
       /\ (g.clients[s] \in Members \cup {"awaiting_accept_join"} => a[s] # 0)
       /\ (s \in g.up => g.clients[s] # "no_client")
       /\ (s \notin g.up => g.out[s] = << >>)
       /\ (s \in linked /\ s \notin g.up => g.clients[s] = "no_client")
       /\ (s \in knocking => g.clients[s] = "no_client" /\ a[s] = 0 /\ rest = << >>)
       /\ (s \notin linked => g.wire[s] = << >>)
  BY <1>10 DEF Talks
<1>13. ASSUME s \in linked' PROVE Talks(s, a[s], h, toGatherer'[s], k, linked', knocking')
  <2>1. s \in linked /\ ~ ended
    BY <1>2, <1>13
  <2>2. Coming(s, h, k) = k.inbox \o Later(s, n)
    <3>1. h.wire[s] = Unfound(s, n) /\ h.out[s] = g.out[s]
      BY <1>3, <1>11, <2>1
    <3> QED
      BY <3>1, Zenon DEF Coming, Later, g
  <2>3. toGatherer'[s] = rest \o j.reply
    BY <1>11, <1>13
  <2>4. Linked(s, a[s], h.clients[s], h.players, Coming(s, h, k), toGatherer'[s], k)
    BY <1>3, <1>13, <2>2, <2>3 DEF g, rest
  <2>5. s \in knocking => toGatherer'[s] = << >> /\ k.handler = "awaiting_hello"
                          /\ Coming(s, h, k) = << >>
    <3>1. << >> \o << >> = << >>
      OBVIOUS
    <3> QED
      BY <1>12, <1>13, <2>2, <2>3, <3>1
  <2> QED
    BY <1>3, <1>12, <1>13, <2>1, <2>4, <2>5 DEF Talks
<1>14. ASSUME s \notin linked' PROVE Talks(s, a[s], h, toGatherer'[s], k, linked', knocking')
  <2>1. h.wire[s] = << >>
    <3>1. CASE ended
      BY <1>11, <3>1
    <3>2. CASE ~ ended
      <4>1. s \notin linked /\ n = 0 /\ toJoiner[s] = << >>
        BY <1>2, <1>3, <1>12, <1>14, <3>2 DEF Finds
      <4>2. Unfound(s, n) = << >>
        BY <4>1 DEF Unfound
      <4> QED
        BY <1>11, <3>2, <4>2
    <3> QED
      BY <3>1, <3>2
  <2>2. toGatherer'[s] = rest
    BY <1>11, <1>14
  <2>3. Leaves(s, a[s], h.clients[s], h.net, h.players, toGatherer'[s], k)
    BY <1>3, <1>14, <2>2 DEF g, rest
  <2> QED
    BY <1>3, <1>12, <1>14, <2>1, <2>2, <2>3 DEF Talks
<1>15. Talks(s, a[s], h, toGatherer'[s], joiner'[s], linked', knocking')
  BY <1>9, <1>13, <1>14
<1>16. \A t \in Joiners \ {s} :
         /\ toJoiner'[t] = toJoiner[t] /\ joiner'[t] = joiner[t] /\ toGatherer'[t] = toGatherer[t]
         /\ (t \in linked' <=> t \in linked) /\ (t \in knocking' <=> t \in knocking)
  BY <1>1, <1>2, <1>4
<1> QED
  BY <1>6, <1>8, <1>9, <1>15, <1>16, JoinerKeeps DEF h

----------------------------------------------------------------------------
(* A joiner that has not been gathered. *)

\* A joiner that is handed nothing, and one that is handed a single message.
LEMMA NothingDispatched ==
  ASSUME NEW j, NEW s
  PROVE  JoinerDispatched(j, s, << >>) = j
<1> DEFINE Runs(h) == h = [i \in 0 .. 0 |-> IF i = 0 THEN j
                                           ELSE JoinerHandled(h[i - 1], s, << >>[i])]
           handled == CHOOSE h : Runs(h)
<1>1. JoinerDispatched(j, s, << >>) = handled[0]
  BY DEF JoinerDispatched
<1>2. Runs([i \in 0 .. 0 |-> j])
  OBVIOUS
<1>3. Runs(handled)
  <2> HIDE DEF Runs
  <2> QED
    BY <1>2
<1>4. handled[0] = j
  <2> HIDE DEF handled
  <2> QED
    BY <1>3
<1> QED
  BY <1>1, <1>4

\* One message is dispatched.
LEMMA OneDispatched ==
  ASSUME NEW j, NEW s, NEW m
  PROVE  JoinerDispatched(j, s, <<m>>) = JoinerHandled(j, s, m)
<1> DEFINE Runs(h) == h = [i \in 0 .. Len(<<m>>) |-> IF i = 0 THEN j
                                                    ELSE JoinerHandled(h[i - 1], s, <<m>>[i])]
           handled == CHOOSE h : Runs(h)
           both == [i \in 0 .. 1 |-> IF i = 0 THEN j ELSE JoinerHandled(j, s, m)]
<1>1. JoinerDispatched(j, s, <<m>>) = handled[1]
  BY DEF JoinerDispatched
<1>2. Runs(both)
  <2>1. both[0] = j /\ both[1] = JoinerHandled(j, s, m) /\ <<m>>[1] = m /\ Len(<<m>>) = 1
    OBVIOUS
  <2>2. \A i \in 0 .. 1 : i = 0 \/ i = 1
    OBVIOUS
  <2> QED
    BY <2>1, <2>2
<1>3. Runs(handled)
  <2> HIDE DEF Runs, both
  <2> QED
    BY <1>2
<1>4. handled[0] = j /\ handled[1] = JoinerHandled(handled[0], s, m)
  <2> HIDE DEF handled
  <2>1. /\ Len(<<m>>) = 1 /\ <<m>>[1] = m /\ 0 \in 0 .. 1 /\ 1 \in 0 .. 1 /\ 1 - 1 = 0
    OBVIOUS
  <2> QED
    BY <1>3, <2>1
<1> QED
  BY <1>1, <1>4

\* A message is found as a whole or not at all.
LEMMA OneMessageFound ==
  ASSUME NEW p \in Seq(Messages), NEW q \in Seq(Messages), NEW pend, pend = p \o q
  PROVE  /\ pend = << >> => p = << >> /\ q = << >>
         /\ p = << >> => pend = q
         /\ \A m : pend = <<m>> => (p = << >> /\ q = <<m>>) \/ (p = <<m>> /\ q = << >>)
<1>1. /\ Len(pend) = Len(p) + Len(q) /\ Len(p) \in Nat /\ Len(q) \in Nat
      /\ \A k \in 1 .. Len(p) : pend[k] = p[k]
      /\ \A k \in 1 .. Len(q) : pend[Len(p) + k] = q[k]
  BY ConcatProperties, LenProperties
<1>2. p = << >> => pend = q
  BY ConcatEmptySeq
<1>3. pend = << >> => p = << >> /\ q = << >>
  BY <1>1, EmptySeq
<1>4. ASSUME NEW m, pend = <<m>> PROVE (p = << >> /\ q = <<m>>) \/ (p = <<m>> /\ q = << >>)
  <2>1. Len(pend) = 1 /\ pend[1] = m
    BY <1>4
  <2>2. CASE Len(p) = 0
    <3>1. p = << >>
      BY <2>2, EmptySeq
    <3> QED
      BY <1>2, <1>4, <3>1
  <2>3. CASE Len(p) # 0
    <3>1. Len(p) = 1 /\ Len(q) = 0
      BY <1>1, <2>1, <2>3
    <3>2. p[1] = m /\ q = << >>
      BY <1>1, <2>1, <3>1, EmptySeq
    <3>3. p = <<m>>
      BY <3>1, <3>2
    <3> QED
      BY <3>2, <3>3
  <2> QED
    BY <2>2, <2>3
<1> QED
  BY <1>2, <1>3, <1>4

\* The joiner after a call of NetUpdateJoinState before it has been gathered.
Joined(j) == [j EXCEPT !.net = IF j.handler = "waiting" THEN "waiting" ELSE @]
Silent(j) == [j EXCEPT !.reply = << >>]
Emptied(j) == [j EXCEPT !.inbox = << >>]

\* A joiner whose inbox is taken out to be dispatched.
LEMMA EmptiedIs ==
  ASSUME NEW j \in JoinerRecords
  PROVE  /\ Emptied(j) \in JoinerRecords /\ Emptied(j).inbox = << >>
         /\ Emptied(j).reply = << >>
         /\ Emptied(j).net = j.net /\ Emptied(j).handler = j.handler
         /\ Emptied(j).identifier = j.identifier /\ Emptied(j).players = j.players
         /\ Emptied(j).session = j.session
<1>1. << >> \in Seq(Messages)
  OBVIOUS
<1> QED
  BY <1>1 DEF Emptied, JoinerRecords

\* A joiner that is in the middle of nothing is silent.
LEMMA JoinedIdly ==
  ASSUME NEW j \in JoinerRecords, j.net = "joining", j.handler # "waiting"
  PROVE  Joined(j) = j /\ Silent(j) = j
  BY DEF Joined, Silent, JoinerRecords

\* The joiner answers the greeting.
LEMMA JoinedAtHello ==
  ASSUME NEW j \in JoinerRecords, NEW s, j.net = "joining", j.handler = "awaiting_hello"
  PROVE  LET jj == Joined(JoinerHandled(j, s, Hello))
             k == Silent(jj)
         IN /\ jj.reply = <<JoinerInfo>> /\ k \in JoinerRecords /\ k.net = "joining"
            /\ k.handler = "joining" /\ k.inbox = j.inbox /\ k.identifier = j.identifier
            /\ k.players = j.players
<1> DEFINE jj == Joined(JoinerHandled(j, s, Hello))
           k == Silent(jj)
<1>1. JoinerHandled(j, s, Hello) = [j EXCEPT !.handler = "joining", !.reply = Append(@, JoinerInfo)]
  BY DEF JoinerHandled, Hello, HandleHello
<1>2. j.reply = << >> /\ Append(<< >>, JoinerInfo) = <<JoinerInfo>>
  BY DEF JoinerRecords
<1> DEFINE handled == [net |-> j.net, handler |-> "joining", identifier |-> j.identifier,
                       session |-> j.session, players |-> j.players, inbox |-> j.inbox,
                       reply |-> <<JoinerInfo>>]
<1>3. JoinerHandled(j, s, Hello) = handled
  BY <1>1, <1>2 DEF JoinerRecords
<1>4. jj = handled
  BY <1>3 DEF Joined
<1>5. k = [net |-> j.net, handler |-> "joining", identifier |-> j.identifier,
           session |-> j.session, players |-> j.players, inbox |-> j.inbox, reply |-> << >>]
  BY <1>4 DEF Silent
<1> HIDE DEF jj, k
<1> QED
  BY <1>4, <1>5 DEF JoinerRecords, jj, k

\* The joiner answers the gatherer's capabilities.
LEMMA JoinedAtCapabilities ==
  ASSUME NEW j \in JoinerRecords, NEW s, j.net = "joining", j.handler = "joining"
  PROVE  LET jj == Joined(JoinerHandled(j, s, CapabilitiesOf(0)))
             k == Silent(jj)
         IN jj.reply = <<CapabilitiesOf(s)>> /\ k = j
<1> DEFINE jj == Joined(JoinerHandled(j, s, CapabilitiesOf(0)))
           k == Silent(jj)
           handled == [net |-> j.net, handler |-> j.handler, identifier |-> j.identifier,
                       session |-> j.session, players |-> j.players, inbox |-> j.inbox,
                       reply |-> <<CapabilitiesOf(s)>>]
<1>1. JoinerHandled(j, s, CapabilitiesOf(0)) = [j EXCEPT !.reply = Append(@, CapabilitiesOf(s))]
  <2>1. CapabilitiesOf(0).type = "capabilities"
    BY DEF CapabilitiesOf
  <2> QED
    BY <2>1 DEF JoinerHandled, HandleTheirCapabilities
<1>2. j.reply = << >> /\ Append(<< >>, CapabilitiesOf(s)) = <<CapabilitiesOf(s)>>
  BY DEF JoinerRecords
<1>3. JoinerHandled(j, s, CapabilitiesOf(0)) = handled
  BY <1>1, <1>2 DEF JoinerRecords
<1>4. jj = handled
  BY <1>3 DEF Joined
<1>5. k = [net |-> j.net, handler |-> j.handler, identifier |-> j.identifier,
           session |-> j.session, players |-> j.players, inbox |-> j.inbox, reply |-> << >>]
  BY <1>4 DEF Silent
<1>6. k = j
  <2> HIDE DEF k
  <2> QED
    BY <1>5 DEF JoinerRecords
<1> HIDE DEF jj, k
<1> QED
  BY <1>4, <1>6 DEF jj, k

\* The joiner accepts, and is the only player of its own topology.
LEMMA JoinedAtJoinPlayer ==
  ASSUME NEW j \in JoinerRecords, NEW s, NEW i \in Nat, j.net = "joining", j.handler = "joining",
         j.players = <<ThisPlayer>>
  PROVE  LET jj == Joined(JoinerHandled(j, s, JoinPlayer(i)))
             k == Silent(jj)
         IN /\ jj.reply = <<AcceptJoin(i)>> /\ k \in JoinerRecords /\ k.net = "waiting"
            /\ k.inbox = j.inbox /\ k.identifier = i /\ FindsItself(k.players, i, s)
<1> DEFINE jj == Joined(JoinerHandled(j, s, JoinPlayer(i)))
           k == Silent(jj)
           me == [identifier |-> i, stream |-> 0]
           players == <<me>>
           m == JoinPlayer(i)
<1>1. m.type = "join_player" /\ m.identifier = i
  BY DEF JoinPlayer
<1>2. JoinerHandled(j, s, m) = HandleJoinPlayer(j, m)
  BY <1>1 DEF JoinerHandled
<1> HIDE DEF m
<1>3. HandleJoinPlayer(j, m) =
        [j EXCEPT !.identifier = i, !.players[1].identifier = i,
                  !.handler = "waiting", !.reply = Append(@, AcceptJoin(i))]
  BY <1>1 DEF HandleJoinPlayer
<1>4. j.reply = << >> /\ Append(<< >>, AcceptJoin(i)) = <<AcceptJoin(i)>>
  BY DEF JoinerRecords
<1>5. [j.players EXCEPT ![1].identifier = i] = players
  <2>1. [ThisPlayer EXCEPT !.identifier = i] = me
    BY DEF ThisPlayer
  <2>2. [<<ThisPlayer>> EXCEPT ![1] = me] = players
    OBVIOUS
  <2> QED
    BY <2>1, <2>2
<1> DEFINE handled == [net |-> j.net, handler |-> "waiting", identifier |-> i,
                       session |-> j.session, players |-> players, inbox |-> j.inbox,
                       reply |-> <<AcceptJoin(i)>>]
<1>6. players \in Seq(Players)
  <2>1. me \in Players
    BY GatheringAssumption DEF Players
  <2> HIDE DEF me
  <2> QED
    BY <2>1
<1>7. FindsItself(players, i, s)
  <2>1. DOMAIN players = {1} /\ players[1] = me /\ me.identifier = i /\ me.stream = 0
    OBVIOUS
  <2> HIDE DEF players, me
  <2> QED
    BY <2>1 DEF FindsItself
<1> HIDE DEF players
<1>8. HandleJoinPlayer(j, m) = handled
  BY <1>3, <1>4, <1>5 DEF JoinerRecords
<1>9. jj = [net |-> "waiting", handler |-> "waiting", identifier |-> i,
            session |-> j.session, players |-> players, inbox |-> j.inbox,
            reply |-> <<AcceptJoin(i)>>]
  BY <1>2, <1>8 DEF Joined, m
<1>10. k = [net |-> "waiting", handler |-> "waiting", identifier |-> i,
            session |-> j.session, players |-> players, inbox |-> j.inbox, reply |-> << >>]
  BY <1>9 DEF Silent
<1> HIDE DEF jj, k
<1>11. k \in JoinerRecords
  BY <1>6, <1>10 DEF JoinerRecords, JoinerStates
<1> QED
  BY <1>7, <1>9, <1>10, <1>11 DEF jj, k, m

\* Everything that holds of the joiner after the call.
LEMMA JoiningHears ==
  ASSUME NEW j \in JoinerRecords, NEW s, NEW i \in Nat, NEW c, NEW players, NEW rest \in Seq(Messages),
         NEW p \in Seq(Messages), NEW q \in Seq(Messages), j.net = "joining",
         Knows(s, i, j), Linked(s, i, c, players, p \o q, rest, j),
         NEW jj, jj = Joined(JoinerDispatched(Emptied(j), s, p)), NEW k, k = Silent(jj)
  PROVE  /\ jj.reply \in Seq(Messages) /\ k \in JoinerRecords /\ k.net \in {"joining", "waiting"}
         /\ Knows(s, i, k) /\ k.inbox = << >>
         /\ Linked(s, i, c, players, q, rest \o jj.reply, k)
         /\ j.handler = "awaiting_hello" /\ p \o q = << >> =>
              k.handler = "awaiting_hello" /\ q = << >> /\ jj.reply = << >>
<1> DEFINE e == Emptied(j)
           pend == p \o q
<1>1. /\ e \in JoinerRecords /\ e.inbox = << >> /\ e.reply = << >>
      /\ e.net = "joining" /\ e.handler = j.handler /\ e.identifier = j.identifier
      /\ e.players = j.players
  BY EmptiedIs
<1>2. /\ pend = << >> => p = << >> /\ q = << >>
      /\ p = << >> => pend = q
      /\ \A m : pend = <<m>> => (p = << >> /\ q = <<m>>) \/ (p = <<m>> /\ q = << >>)
  <2>1. pend = p \o q
    OBVIOUS
  <2> HIDE DEF pend
  <2> QED
    BY <2>1, OneMessageFound, ZenonT(40)
<1>3. \/ Greets(c, pend, rest, j)
      \/ Introduces(s, i, c, pend, rest, j)
  BY DEF Linked, Accepts, Waits, Plays
<1>4. rest \o << >> = rest /\ << >> \in Seq(Messages)
  BY ConcatEmptySeq
<1>5. j.identifier \in {0, i} /\ j.players = <<ThisPlayer>>
  BY DEF Knows
<1> HIDE DEF e, pend
<1>6. CASE p = << >>
  <2>1. jj = Joined(e)
    BY <1>6, NothingDispatched DEF e
  <2>2. e.handler # "waiting"
    BY <1>1, <1>3 DEF Greets, Introduces
  <2>3. jj = e /\ k = e
    BY <1>1, <2>1, <2>2, JoinedIdly
  <2>4. Knows(s, i, k)
    BY <1>1, <1>5, <2>3 DEF Knows
  <2>5. q = pend /\ rest \o jj.reply = rest
    BY <1>1, <1>2, <1>4, <1>6, <2>3
  <2>6. Greets(c, pend, rest, k) \/ Introduces(s, i, c, pend, rest, k)
    BY <1>1, <1>3, <2>3 DEF Greets, Introduces
  <2>7. Linked(s, i, c, players, q, rest \o jj.reply, k)
    BY <2>5, <2>6 DEF Linked
  <2> QED
    BY <1>1, <1>2, <1>4, <2>3, <2>4, <2>7 DEF pend
<1>7. CASE p # << >>
  <2>1. pend # << >>
    BY <1>2, <1>7
  <2>2. CASE Greets(c, pend, rest, j)
    <3>1. pend = <<Hello>> /\ rest = << >> /\ j.handler = "awaiting_hello"
          /\ c \in {"no_client", "connecting"}
      BY <2>1, <2>2 DEF Greets
    <3>2. p = <<Hello>> /\ q = << >>
      BY <1>2, <1>7, <3>1
    <3>3. jj = Joined(JoinerHandled(e, s, Hello))
      BY <3>2, OneDispatched DEF e
    <3>4. /\ jj.reply = <<JoinerInfo>> /\ k \in JoinerRecords /\ k.net = "joining"
          /\ k.handler = "joining" /\ k.inbox = e.inbox /\ k.identifier = e.identifier
          /\ k.players = e.players
      BY <1>1, <3>1, <3>3, JoinedAtHello
    <3>5. << >> \o <<JoinerInfo>> = <<JoinerInfo>> /\ <<JoinerInfo>> \in Seq(Messages)
      BY MessagesAreMessages
    <3>6. Introduces(s, i, c, q, rest \o jj.reply, k)
      BY <3>1, <3>2, <3>4, <3>5 DEF Introduces
    <3>7. Knows(s, i, k)
      BY <1>1, <1>5, <3>4 DEF Knows
    <3> QED
      BY <1>1, <2>1, <3>4, <3>5, <3>6, <3>7 DEF Linked, pend
  <2>3. CASE Introduces(s, i, c, pend, rest, j)
    <3>1. /\ rest = << >> /\ j.handler = "joining"
          /\ \/ pend = <<CapabilitiesOf(0)>> /\ c \in {"no_client", "awaiting_capabilities"}
             \/ pend = <<JoinPlayer(i)>> /\ i # 0 /\ c \in {"no_client", "awaiting_accept_join"}
      BY <2>1, <2>3 DEF Introduces
    <3>2. CASE pend = <<CapabilitiesOf(0)>> /\ c \in {"no_client", "awaiting_capabilities"}
      <4>1. p = <<CapabilitiesOf(0)>> /\ q = << >>
        BY <1>2, <1>7, <3>2
      <4>2. jj = Joined(JoinerHandled(e, s, CapabilitiesOf(0)))
        BY <4>1, OneDispatched DEF e
      <4>3. jj.reply = <<CapabilitiesOf(s)>> /\ k = e
        BY <1>1, <3>1, <4>2, JoinedAtCapabilities
      <4>4. << >> \o <<CapabilitiesOf(s)>> = <<CapabilitiesOf(s)>>
        OBVIOUS
      <4>5. Introduces(s, i, c, q, rest \o jj.reply, k)
        BY <1>1, <3>1, <3>2, <4>1, <4>3, <4>4 DEF Introduces
      <4>6. Knows(s, i, k)
        BY <1>1, <1>5, <4>3 DEF Knows
      <4>7. jj.reply \in Seq(Messages)
        <5>1. CapabilitiesOf(s) \in Messages
          BY DEF CapabilitiesOf, Messages
        <5> QED
          BY <4>3, <5>1
      <4> QED
        BY <1>1, <2>1, <4>3, <4>5, <4>6, <4>7 DEF Linked, pend
    <3>3. CASE pend = <<JoinPlayer(i)>> /\ i # 0 /\ c \in {"no_client", "awaiting_accept_join"}
      <4>1. p = <<JoinPlayer(i)>> /\ q = << >>
        BY <1>2, <1>7, <3>3
      <4>2. jj = Joined(JoinerHandled(e, s, JoinPlayer(i)))
        BY <4>1, OneDispatched DEF e
      <4>3. /\ jj.reply = <<AcceptJoin(i)>> /\ k \in JoinerRecords /\ k.net = "waiting"
            /\ k.inbox = e.inbox /\ k.identifier = i /\ FindsItself(k.players, i, s)
        BY <1>1, <1>5, <3>1, <4>2, JoinedAtJoinPlayer
      <4>4. << >> \o <<AcceptJoin(i)>> = <<AcceptJoin(i)>>
        OBVIOUS
      <4>5. Accepts(i, c, q, rest \o jj.reply, k)
        BY <3>1, <3>3, <4>1, <4>3, <4>4 DEF Accepts
      <4>6. Knows(s, i, k)
        BY <3>3, <4>3 DEF Knows
      <4>7. jj.reply \in Seq(Messages)
        <5>1. AcceptJoin(i) \in Messages
          BY MessagesAreMessages
        <5> QED
          BY <4>3, <5>1
      <4> QED
        BY <1>1, <2>1, <4>3, <4>5, <4>6, <4>7 DEF Linked, pend
    <3> QED
      BY <3>1, <3>2, <3>3
  <2> QED
    BY <1>3, <2>2, <2>3
<1> QED
  BY <1>6, <1>7

\* What a joiner has sent and not been read stays when it is gone.
LEMMA RestIsLeft ==
  ASSUME NEW s, NEW i, NEW g, NEW rest, NEW j, NEW links, NEW knocks, NEW k,
         Talks(s, i, g, rest, j, links, knocks), NEW c, c = g.clients[s], NEW net, NEW players,
         k.net \notin {"connecting", "starting_up", "active"}
  PROVE  Leaves(s, i, c, net, players, rest, k)
<1>1. \/ rest = << >>
      \/ rest = <<JoinerInfo>> /\ g.clients[s] \in {"no_client", "connecting"}
      \/ rest = <<CapabilitiesOf(s)>> /\ g.clients[s] \in {"no_client", "awaiting_capabilities"}
      \/ /\ rest = <<AcceptJoin(i)>> /\ i # 0
         /\ g.clients[s] \in {"no_client", "awaiting_accept_join"}
  BY RestIsOneMessage, Zenon
<1> QED
  BY <1>1 DEF Leaves

\* NetUpdateJoinState of a joiner that has not been gathered.
LEMMA JoinerJoinsKeeps ==
  ASSUME GatheringInvariant, NEW s \in Joiners, NEW n \in 0 .. Len(toJoiner[s]),
         NEW ended \in BOOLEAN, JoinerJoins(s, n, ended)
  PROVE  GatheringInvariant'
<1>1. PICK a \in [Joiners -> Nat] : Fits(OnTheWire, a, toGatherer, joiner, linked, knocking)
  BY TypesHold
<1> DEFINE e == [joiner[s] EXCEPT !.inbox = << >>]
           j == JoinerDispatched(e, s, Found(s, n))
           jj == [j EXCEPT !.net = IF j.handler = "waiting" THEN "waiting" ELSE @]
           k == Silent(jj)
           p == Found(s, n)
           q == Later(s, n)
           c == OnTheWire.clients[s]
           players == OnTheWire.players
           rest == toGatherer[s]
<1>2. /\ joiner[s].net = "joining" /\ s \in linked /\ Finds(s, n, ended)
      /\ Answered(s, jj) /\ gatherer' = gatherer /\ knocking' = knocking
  BY DEF JoinerJoins
<1>3. /\ joiner[s] \in JoinerRecords /\ rest \in Seq(Messages)
      /\ p \in Seq(Messages) /\ q \in Seq(Messages)
      /\ Knows(s, a[s], joiner[s])
      /\ Linked(s, a[s], c, players, p \o q, rest, joiner[s])
      /\ s \in knocking => joiner[s].handler = "awaiting_hello" /\ p \o q = << >>
  BY <1>1, <1>2, JoinerFinds
<1>4. jj = Joined(JoinerDispatched(Emptied(joiner[s]), s, p)) /\ a[s] \in Nat
  BY DEF Joined, Emptied
<1>5. Talks(s, a[s], OnTheWire, rest, joiner[s], linked, knocking)
  BY <1>1 DEF Fits
<1> HIDE DEF j, jj, k, p, q, c, players, rest
<1>6. k = Silent(jj)
  BY DEF k
<1>7. /\ jj.reply \in Seq(Messages) /\ k \in JoinerRecords /\ k.net \in {"joining", "waiting"}
      /\ Knows(s, a[s], k) /\ k.inbox = << >>
      /\ Linked(s, a[s], c, players, q, rest \o jj.reply, k)
      /\ joiner[s].handler = "awaiting_hello" /\ p \o q = << >> =>
           k.handler = "awaiting_hello" /\ q = << >> /\ jj.reply = << >>
  BY <1>2, <1>3, <1>4, <1>6, JoiningHears
<1>8. k.inbox \o q = q
  BY <1>3, <1>7, ConcatEmptySeq
<1>9. Leaves(s, a[s], c, OnTheWire.net, players, rest, k)
  BY <1>5, <1>7, RestIsLeft DEF c
<1>10. k = [jj EXCEPT !.reply = << >>]
  BY DEF k, Silent
<1>11. Linked(s, a[s], c, players, k.inbox \o q, rest \o jj.reply, k)
  BY <1>7, <1>8
<1>12. s \in knocking => k.handler = "awaiting_hello" /\ k.inbox \o q = << >> /\ jj.reply = << >>
  BY <1>3, <1>7, <1>8
<1>13. k.net # "connecting" /\ jj.reply \in Seq(Messages) /\ k \in JoinerRecords /\ Knows(s, a[s], k)
  BY <1>7
<1> QED
  BY <1>1, <1>2, <1>9, <1>10, <1>11, <1>12, <1>13, JoinerAnswers DEF c, players, rest, q

\* A joiner leaves the dialog for one reason or the other.
LEMMA JoinerLeavesKeeps ==
  ASSUME GatheringInvariant, NEW s \in Joiners, JoinerLosesConnection(s) \/ JoinerGivesUp(s)
  PROVE  GatheringInvariant'
<1>1. joiner[s].net # "connecting"
  BY DEF JoinerLosesConnection, JoinerGivesUp
<1>2. Quits(s, "join_error") \/ Quits(s, "given_up")
  BY DEF JoinerLosesConnection, JoinerGivesUp
<1>3. CASE Quits(s, "join_error")
  BY <1>1, <1>3, QuitsKeeps
<1>4. CASE Quits(s, "given_up")
  BY <1>1, <1>4, QuitsKeeps
<1> QED
  BY <1>2, <1>3, <1>4

----------------------------------------------------------------------------
(* A joiner that waits. *)

\* What is left of what is announced, when the first of it has been heard.
LEMMA TailAnnounces ==
  ASSUME NEW s, NEW i, NEW c, NEW pend \in Seq(Messages), pend # << >>, NEW tl, tl = Tail(pend),
         Announces(s, i, c, pend)
  PROVE  /\ Len(tl) = Len(pend) - 1 /\ Len(pend) \in Nat /\ Len(pend) >= 1
         /\ DOMAIN tl = 1 .. Len(tl) /\ DOMAIN pend = 1 .. Len(pend)
         /\ \A k \in 1 .. Len(tl) : tl[k] = pend[k + 1]
         /\ tl \in Seq(Messages) /\ Announces(s, i, c, tl)
<1>1. /\ tl \in Seq(Messages) /\ Len(tl) = Len(pend) - 1 /\ Len(pend) \in Nat /\ Len(pend) >= 1
      /\ DOMAIN tl = 1 .. Len(tl) /\ DOMAIN pend = 1 .. Len(pend)
      /\ \A k \in 1 .. Len(tl) : tl[k] = pend[k + 1]
  BY HeadTailProperties, LenProperties, EmptySeq
<1>2. Announces(s, i, c, tl)
  <2> SUFFICES ASSUME NEW k \in DOMAIN tl
      PROVE  \/ k = 1 /\ tl[k] = GameSession
             \/ IsTopology(tl[k], i, s) /\ tl[k].tag \in {"new_player", "dropped_player"}
             \/ /\ c = "in_game" /\ k = Len(tl) - 1
                /\ IsTopology(tl[k], i, s) /\ tl[k].tag = "start_game"
             \/ c = "in_game" /\ k = Len(tl) /\ tl[k] = EndGameData
    BY DEF Announces
  <2>1. tl[k] = pend[k + 1] /\ k + 1 \in DOMAIN pend /\ k + 1 # 1
    BY <1>1
  <2>2. \/ IsTopology(pend[k + 1], i, s) /\ pend[k + 1].tag \in {"new_player", "dropped_player"}
        \/ /\ c = "in_game" /\ k + 1 = Len(pend) - 1
           /\ IsTopology(pend[k + 1], i, s) /\ pend[k + 1].tag = "start_game"
        \/ c = "in_game" /\ k + 1 = Len(pend) /\ pend[k + 1] = EndGameData
    BY <2>1 DEF Announces
  <2>3. /\ k + 1 = Len(pend) - 1 => k = Len(tl) - 1
        /\ k + 1 = Len(pend) => k = Len(tl)
    BY <1>1
  <2> QED
    BY <2>1, <2>2, <2>3
<1> QED
  BY <1>1, <1>2

\* The start is still announced, if it was not the first.
LEMMA TailStarts ==
  ASSUME NEW pend \in Seq(Messages), NEW tl, Len(tl) = Len(pend) - 1, Len(pend) >= 1,
         \A k \in 1 .. Len(tl) : tl[k] = pend[k + 1],
         Starts(pend), pend[1].type # "topology" \/ pend[1].tag # "start_game"
  PROVE  Starts(tl)
<1>1. Len(pend) # 2 /\ Len(pend) > 1 /\ Len(pend) \in Nat
  BY DEF Starts
<1>2. Len(tl) > 1 /\ Len(tl) \in 1 .. Len(tl) /\ Len(tl) - 1 \in 1 .. Len(tl)
  BY <1>1
<1>3. tl[Len(tl)] = pend[Len(pend)] /\ tl[Len(tl) - 1] = pend[Len(pend) - 1]
  BY <1>1, <1>2
<1> QED
  BY <1>2, <1>3 DEF Starts

\* The last topology is in the rest, or it has just been heard.
LEMMA TailUpdates ==
  ASSUME NEW pend \in Seq(Messages), NEW tl, Len(tl) = Len(pend) - 1, Len(pend) >= 1,
         DOMAIN tl = 1 .. Len(tl), \A k \in 1 .. Len(tl) : tl[k] = pend[k + 1],
         NEW players, NEW j, NEW k, Updates(players, pend, j),
         IF pend[1].type = "topology" THEN k.players = pend[1].players ELSE k.players = j.players
  PROVE  Updates(players, tl, k)
<1>1. DOMAIN pend = 1 .. Len(pend) /\ Len(pend) \in Nat
  BY LenProperties
<1>2. ASSUME \A l \in DOMAIN tl : tl[l].type # "topology" PROVE k.players = players
  <2>1. \A l \in DOMAIN pend : l # 1 => pend[l].type # "topology"
    <3> SUFFICES ASSUME NEW l \in DOMAIN pend, l # 1 PROVE pend[l].type # "topology"
      OBVIOUS
    <3>1. l - 1 \in 1 .. Len(tl) /\ l - 1 + 1 = l
      BY <1>1
    <3>2. tl[l - 1] = pend[l]
      BY <3>1
    <3> QED
      BY <1>2, <3>1, <3>2
  <2>2. CASE pend[1].type = "topology"
    <3>1. 1 \in DOMAIN pend /\ \A l \in DOMAIN pend : pend[l].type = "topology" => l <= 1
      BY <1>1, <2>1
    <3>2. pend[1].players = players
      BY <2>2, <3>1 DEF Updates
    <3> QED
      BY <2>2, <3>2
  <2>3. CASE pend[1].type # "topology"
    <3>1. \A l \in DOMAIN pend : pend[l].type # "topology"
      BY <2>1, <2>3
    <3>2. j.players = players
      BY <3>1 DEF Updates
    <3> QED
      BY <2>3, <3>2
  <2> QED
    BY <2>2, <2>3
<1>3. ASSUME NEW m \in DOMAIN tl, tl[m].type = "topology",
             \A l \in DOMAIN tl : tl[l].type = "topology" => l <= m
      PROVE  tl[m].players = players
  <2>1. m + 1 \in DOMAIN pend /\ tl[m] = pend[m + 1] /\ m \in Nat
    BY <1>1
  <2>2. ASSUME NEW l \in DOMAIN pend, pend[l].type = "topology" PROVE l <= m + 1
    <3>1. CASE l = 1
      BY <2>1, <3>1
    <3>2. CASE l # 1
      <4>1. l - 1 \in 1 .. Len(tl) /\ l - 1 + 1 = l
        BY <1>1, <3>2
      <4>2. tl[l - 1].type = "topology"
        BY <2>2, <4>1
      <4>3. l - 1 <= m
        BY <1>3, <4>1, <4>2
      <4> QED
        BY <2>1, <4>1, <4>3
    <3> QED
      BY <3>1, <3>2
  <2>3. pend[m + 1].type = "topology"
    BY <1>3, <2>1
  <2>4. pend[m + 1].players = players
    BY <2>1, <2>2, <2>3 DEF Updates
  <2> QED
    BY <2>1, <2>4
<1> QED
  BY <1>2, <1>3 DEF Updates

\* The joiner at a call of NetUpdateJoinState after it has been gathered, and after it.
Waiting(j, msgs) == [j EXCEPT !.handler = "waiting", !.inbox = msgs]
Heard(j) ==
  [j EXCEPT !.net = CASE j.handler = "start_game" -> "starting_up"
                      [] j.handler = "cancel_game" -> "cancelled"
                      [] OTHER -> @]

\* A joiner that goes on waiting, whatever it was told last.
LEMMA WaitingIs ==
  ASSUME NEW j \in JoinerRecords, NEW msgs \in Seq(Messages)
  PROVE  /\ Waiting(j, msgs) \in JoinerRecords /\ Waiting(j, msgs).inbox = msgs
         /\ Waiting(j, msgs).net = j.net /\ Waiting(j, msgs).handler = "waiting"
         /\ Waiting(j, msgs).identifier = j.identifier /\ Waiting(j, msgs).players = j.players
         /\ Waiting(j, msgs).session = j.session
<1> DEFINE w == [j EXCEPT !.handler = "waiting"]
           k == [w EXCEPT !.inbox = msgs]
<1>1. w \in JoinerRecords /\ w.handler = "waiting" /\ w.inbox = j.inbox /\ w.net = j.net
      /\ w.identifier = j.identifier /\ w.players = j.players /\ w.session = j.session
  BY DEF JoinerRecords
<1>2. Waiting(j, msgs) = k
  BY DEF Waiting
<1> HIDE DEF w
<1>3. k \in JoinerRecords /\ k.handler = w.handler /\ k.inbox = msgs /\ k.net = w.net
      /\ k.identifier = w.identifier /\ k.players = w.players /\ k.session = w.session
  BY <1>1 DEF JoinerRecords
<1> HIDE DEF k
<1> QED
  BY <1>1, <1>2, <1>3

\* A joiner that hears nothing goes on waiting.
LEMMA HeardNothing ==
  ASSUME NEW j \in JoinerRecords, j.net = "waiting", j.handler = "waiting"
  PROVE  Heard(j) = j /\ Silent(j) = j /\ j.reply = << >>
  BY DEF Heard, Silent, JoinerRecords

\* The joiner hears the session's name.
LEMMA HeardSession ==
  ASSUME NEW j \in JoinerRecords, NEW s, j.net = "waiting", j.handler = "waiting",
         NEW jj, jj = Heard(JoinerHandled(j, s, GameSession)), NEW k, k = Silent(jj)
  PROVE  /\ jj.reply = << >> /\ k \in JoinerRecords /\ k.net = "waiting" /\ k.session
         /\ k.inbox = j.inbox /\ k.identifier = j.identifier /\ k.players = j.players
<1>1. JoinerHandled(j, s, GameSession) = [j EXCEPT !.session = TRUE]
  BY DEF JoinerHandled, GameSession, HandleGameSession
<1> DEFINE h == [j EXCEPT !.session = TRUE]
<1>2. /\ h \in JoinerRecords /\ h.net = "waiting" /\ h.handler = "waiting" /\ h.inbox = j.inbox
      /\ h.identifier = j.identifier /\ h.players = j.players
  BY DEF JoinerRecords
<1>3. h.session
  BY DEF JoinerRecords
<1>4. jj = Heard(h)
  BY <1>1
<1> HIDE DEF h
<1>5. jj = h /\ k = h /\ h.reply = << >>
  BY <1>2, <1>4, HeardNothing
<1> QED
  BY <1>2, <1>3, <1>5

\* What a topology message holds.
LEMMA TopologiesHold ==
  ASSUME NEW m \in Messages, m.type = "topology"
  PROVE  /\ m.players \in Seq(Players)
         /\ m.tag \in {"new_player", "dropped_player", "start_game", "cancel_game"}
  BY DEF Messages, Hello, JoinerInfo, GameSession, EndGameData

\* The joiner hears a change of the topology, or the start.
LEMMA HeardTopology ==
  ASSUME NEW j \in JoinerRecords, NEW s, j.net = "waiting", j.handler = "waiting",
         NEW m \in Messages, m.type = "topology",
         m.tag \in {"new_player", "dropped_player", "start_game"},
         NEW jj, jj = Heard(JoinerHandled(j, s, m)), NEW k, k = Silent(jj)
  PROVE  /\ jj.reply = << >> /\ k \in JoinerRecords /\ k.session = j.session
         /\ k.net = IF m.tag = "start_game" THEN "starting_up" ELSE "waiting"
         /\ k.inbox = j.inbox /\ k.identifier = j.identifier /\ k.players = m.players
<1>1. JoinerHandled(j, s, m) = [j EXCEPT !.players = m.players, !.handler = m.tag]
  BY DEF JoinerHandled, HandleTopology
<1>2. m.players \in Seq(Players)
  BY TopologiesHold
<1> DEFINE w == [j EXCEPT !.players = m.players]
           h == [w EXCEPT !.handler = m.tag]
           net == IF m.tag = "start_game" THEN "starting_up" ELSE "waiting"
<1>3. /\ w \in JoinerRecords /\ w.net = "waiting" /\ w.inbox = j.inbox
      /\ w.identifier = j.identifier /\ w.players = m.players /\ w.session = j.session
  BY <1>2 DEF JoinerRecords
<1>4. jj = Heard(h)
  BY <1>1
<1> HIDE DEF w
<1>5. /\ h \in JoinerRecords /\ h.net = "waiting" /\ h.handler = m.tag /\ h.inbox = w.inbox
      /\ h.identifier = w.identifier /\ h.players = w.players /\ h.session = w.session
      /\ h.reply = << >>
  BY <1>3 DEF JoinerRecords
<1> HIDE DEF h
<1> DEFINE r == [h EXCEPT !.net = net]
<1>6. jj = r
  BY <1>4, <1>5 DEF Heard
<1>7. /\ r \in JoinerRecords /\ r.net = net /\ r.inbox = h.inbox /\ r.reply = << >>
      /\ r.identifier = h.identifier /\ r.players = h.players /\ r.session = h.session
  BY <1>5 DEF JoinerRecords, JoinerStates
<1>8. Silent(r) = r
  <2> HIDE DEF r
  <2> QED
    BY <1>7 DEF Silent, JoinerRecords
<1> HIDE DEF r
<1> QED
  BY <1>3, <1>5, <1>6, <1>7, <1>8

\* The first of what is found is the first of what is under way.
LEMMA FirstFound ==
  ASSUME NEW p \in Seq(Messages), NEW q \in Seq(Messages), p # << >>, NEW pend, pend = p \o q
  PROVE  /\ pend \in Seq(Messages) /\ pend # << >> /\ Head(p) = pend[1] /\ Head(p) \in Messages
         /\ Tail(p) \in Seq(Messages) /\ Tail(p) \o q = Tail(pend)
<1>1. /\ Len(pend) = Len(p) + Len(q) /\ Len(p) \in Nat /\ Len(q) \in Nat /\ pend \in Seq(Messages)
      /\ \A k \in 1 .. Len(p) : pend[k] = p[k]
      /\ \A k \in 1 .. Len(q) : pend[Len(p) + k] = q[k]
  BY ConcatProperties, LenProperties
<1>2. Len(p) # 0 /\ Head(p) = p[1] /\ p[1] \in Messages /\ Tail(p) \in Seq(Messages)
      /\ Len(Tail(p)) = Len(p) - 1
      /\ \A k \in 1 .. Len(p) - 1 : Tail(p)[k] = p[k + 1]
  BY EmptySeq, HeadTailProperties
<1>3. pend # << >> /\ Head(p) = pend[1]
  BY <1>1, <1>2, EmptySeq
<1>4. /\ Tail(pend) \in Seq(Messages) /\ Len(Tail(pend)) = Len(pend) - 1
      /\ \A k \in 1 .. Len(pend) - 1 : Tail(pend)[k] = pend[k + 1]
  BY <1>1, <1>3, HeadTailProperties
<1> DEFINE tl == Tail(p)
           both == tl \o q
           left == Tail(pend)
<1>5. /\ both \in Seq(Messages) /\ Len(both) = Len(tl) + Len(q)
      /\ \A k \in 1 .. Len(tl) : both[k] = tl[k]
      /\ \A k \in 1 .. Len(q) : both[Len(tl) + k] = q[k]
  BY <1>2, ConcatProperties
<1> HIDE DEF tl, both, left
<1>6. Len(both) = Len(left)
  BY <1>1, <1>2, <1>4, <1>5 DEF tl, left
<1>7. ASSUME NEW k \in 1 .. Len(both) PROVE both[k] = left[k]
  <2>1. left[k] = pend[k + 1]
    BY <1>1, <1>4, <1>6, <1>7 DEF left
  <2>2. CASE k <= Len(tl)
    BY <1>1, <1>2, <1>5, <2>1, <2>2 DEF tl
  <2>3. CASE ~ (k <= Len(tl))
    <3>1. k - Len(tl) \in 1 .. Len(q) /\ Len(tl) + (k - Len(tl)) = k
          /\ Len(p) + (k - Len(tl)) = k + 1
      BY <1>1, <1>2, <1>5, <2>3 DEF tl
    <3>2. both[k] = q[k - Len(tl)]
      BY <1>5, <3>1
    <3>3. pend[k + 1] = q[k - Len(tl)]
      BY <1>1, <3>1
    <3> QED
      BY <2>1, <3>2, <3>3
  <2> QED
    BY <2>2, <2>3
<1>8. both = left
  BY <1>4, <1>5, <1>6, <1>7, SeqEqual DEF left
<1> QED
  BY <1>1, <1>2, <1>3, <1>8 DEF both, tl, left

\* A joiner that hears the start has heard everything but the end of the game data.
LEMMA StartIsHeard ==
  ASSUME NEW pend \in Seq(Messages), NEW tl, Len(tl) = Len(pend) - 1, Len(pend) = 2,
         tl \in Seq(Messages), \A k \in 1 .. Len(tl) : tl[k] = pend[k + 1],
         Starts(pend), NEW players, NEW j, Updates(players, pend, j), pend[1].type = "topology"
  PROVE  tl = <<EndGameData>> /\ pend[1].players = players
<1>1. pend[2] = EndGameData /\ DOMAIN pend = 1 .. 2
  BY DEF Starts
<1>2. tl[1] = EndGameData /\ Len(tl) = 1
  BY <1>1
<1>3. pend[2].type # "topology"
  BY <1>1 DEF EndGameData
<1>4. \A l \in DOMAIN pend : pend[l].type = "topology" => l <= 1
  BY <1>1, <1>3
<1>5. pend[1].players = players
  BY <1>1, <1>4 DEF Updates
<1>6. tl = <<EndGameData>>
  <2> DEFINE one == <<EndGameData>>
  <2>1. one \in Seq(Messages) /\ Len(one) = 1 /\ one[1] = EndGameData
    BY MessagesAreMessages
  <2> HIDE DEF one
  <2>2. \A k \in 1 .. Len(tl) : tl[k] = one[k]
    BY <1>2, <2>1
  <2>3. tl = one
    BY <1>2, <2>1, <2>2, SeqEqual
  <2> QED
    BY <2>3 DEF one
<1> QED
  BY <1>5, <1>6

\* Everything that holds of a gathered joiner after the call.
LEMMA WaitingHears ==
  ASSUME NEW j \in JoinerRecords, NEW s, NEW i \in Nat, NEW c, NEW players, NEW rest \in Seq(Messages),
         NEW p \in Seq(Messages), NEW q \in Seq(Messages), j.net = "waiting",
         Knows(s, i, j), Linked(s, i, c, players, p \o q, rest, j),
         NEW jj, jj = Heard(IF p = << >> THEN Waiting(j, p)
                            ELSE JoinerHandled(Waiting(j, Tail(p)), s, Head(p))),
         NEW k, k = Silent(jj)
  PROVE  /\ jj.reply = << >> /\ k \in JoinerRecords
         /\ k.net = "waiting" \/ (k.net = "starting_up" /\ c = "in_game")
         /\ Knows(s, i, k)
         /\ Linked(s, i, c, players, k.inbox \o q, rest, k)
<1> DEFINE pend == p \o q
<1>1. Accepts(i, c, pend, rest, j) \/ Waits(s, i, c, players, pend, rest, j)
  BY DEF Linked, Greets, Introduces, Plays
<1>2. i # 0 /\ j.identifier = i /\ FindsItself(j.players, i, s)
  BY DEF Knows
<1>3. CASE p = << >>
  <2> DEFINE f == Waiting(j, p)
  <2>1. /\ f \in JoinerRecords /\ f.inbox = p /\ f.net = "waiting" /\ f.handler = "waiting"
        /\ f.identifier = j.identifier /\ f.players = j.players /\ f.session = j.session
    BY WaitingIs
  <2>2. jj = Heard(f)
    BY <1>3
  <2> HIDE DEF f
  <2>3. jj = f /\ k = f /\ f.reply = << >>
    BY <2>1, <2>2, HeardNothing
  <2>4. k.inbox \o q = pend
    BY <2>1, <2>3
  <2> HIDE DEF pend
  <2>5. Accepts(i, c, pend, rest, k) \/ Waits(s, i, c, players, pend, rest, k)
    BY <1>1, <2>1, <2>3 DEF Accepts, Waits, HasSession, Updates
  <2>6. Knows(s, i, k)
    BY <1>2, <2>1, <2>3 DEF Knows
  <2> QED
    BY <2>1, <2>3, <2>4, <2>5, <2>6 DEF Linked
<1>4. CASE p # << >>
  <2> DEFINE f == Waiting(j, Tail(p))
             m == pend[1]
             tl == Tail(pend)
  <2>1. /\ pend \in Seq(Messages) /\ pend # << >> /\ Head(p) = m /\ m \in Messages
        /\ Tail(p) \in Seq(Messages) /\ Tail(p) \o q = tl
    <3>1. \A x : x = p \o q =>
            /\ x \in Seq(Messages) /\ x # << >> /\ Head(p) = x[1] /\ Head(p) \in Messages
            /\ Tail(p) \in Seq(Messages) /\ Tail(p) \o q = Tail(x)
      BY <1>4, FirstFound
    <3> QED
      BY <3>1
  <2>2. /\ f \in JoinerRecords /\ f.inbox = Tail(p) /\ f.net = "waiting" /\ f.handler = "waiting"
        /\ f.identifier = j.identifier /\ f.players = j.players /\ f.session = j.session
    BY <2>1, WaitingIs
  <2>3. jj = Heard(JoinerHandled(f, s, m))
    BY <1>4, <2>1
  <2>4. tl = Tail(pend) /\ m = pend[1]
    OBVIOUS
  <2> HIDE DEF f, pend, m, tl
  <2>5. Waits(s, i, c, players, pend, rest, j)
    BY <1>1, <2>1 DEF Accepts
  <2>6. Announces(s, i, c, pend) /\ HasSession(c, pend, j) /\ rest = << >>
        /\ c \in {"no_client"} \cup Members
        /\ (c = "in_game" => Starts(pend)) /\ (c # "no_client" => Updates(players, pend, j))
    BY <2>5 DEF Waits
  <2>7. /\ Len(tl) = Len(pend) - 1 /\ Len(pend) \in Nat /\ Len(pend) >= 1
        /\ DOMAIN tl = 1 .. Len(tl) /\ DOMAIN pend = 1 .. Len(pend)
        /\ \A l \in 1 .. Len(tl) : tl[l] = pend[l + 1]
        /\ tl \in Seq(Messages) /\ Announces(s, i, c, tl)
    BY <2>1, <2>4, <2>6, TailAnnounces
  <2>8. \/ m = GameSession
        \/ IsTopology(m, i, s) /\ m.tag \in {"new_player", "dropped_player"}
        \/ /\ c = "in_game" /\ Len(pend) = 2 /\ IsTopology(m, i, s) /\ m.tag = "start_game"
    <3>1. 1 \in DOMAIN pend
      BY <2>7
    <3>2. \/ m = GameSession
          \/ IsTopology(m, i, s) /\ m.tag \in {"new_player", "dropped_player"}
          \/ c = "in_game" /\ 1 = Len(pend) - 1 /\ IsTopology(m, i, s) /\ m.tag = "start_game"
          \/ c = "in_game" /\ 1 = Len(pend)
      BY <2>4, <2>6, <3>1 DEF Announces
    <3>3. c = "in_game" => Len(pend) > 1
      BY <2>6 DEF Starts
    <3> QED
      BY <2>7, <3>2, <3>3
  <2>9. m.type = "topology" => j.session
    <3>1. GameSession.type # "topology"
      BY DEF GameSession
    <3> QED
      BY <2>1, <2>4, <2>6, <3>1 DEF HasSession
  <2>10. ASSUME m.type # "topology" \/ m.tag # "start_game", k.net = "waiting", k.session,
                k.players = IF m.type = "topology" THEN m.players ELSE j.players
         PROVE  Waits(s, i, c, players, tl, rest, k)
    <3>1. c = "in_game" => Starts(tl)
      BY <2>1, <2>4, <2>6, <2>7, <2>10, TailStarts
    <3>2. c # "no_client" => Updates(players, tl, k)
      BY <2>1, <2>4, <2>6, <2>7, <2>10, TailUpdates
    <3>3. HasSession(c, tl, k)
      BY <2>10 DEF HasSession
    <3> QED
      BY <2>6, <2>7, <2>10, <3>1, <3>2, <3>3 DEF Waits
  <2>11. CASE m = GameSession
    <3>1. /\ jj.reply = << >> /\ k \in JoinerRecords /\ k.net = "waiting" /\ k.session
          /\ k.inbox = f.inbox /\ k.identifier = f.identifier /\ k.players = f.players
      BY <2>2, <2>3, <2>11, HeardSession
    <3>2. m.type # "topology"
      BY <2>11 DEF GameSession
    <3>3. Waits(s, i, c, players, tl, rest, k)
      BY <2>2, <2>10, <3>1, <3>2
    <3>4. Knows(s, i, k)
      BY <1>2, <2>2, <3>1 DEF Knows
    <3>5. k.inbox \o q = tl
      BY <2>1, <2>2, <3>1
    <3> QED
      BY <3>1, <3>3, <3>4, <3>5 DEF Linked
  <2>12. CASE IsTopology(m, i, s) /\ m.tag \in {"new_player", "dropped_player", "start_game"}
    <3>1. m.type = "topology" /\ FindsItself(m.players, i, s)
      BY <2>12 DEF IsTopology
    <3>2. /\ jj.reply = << >> /\ k \in JoinerRecords /\ k.session = f.session
          /\ k.net = IF m.tag = "start_game" THEN "starting_up" ELSE "waiting"
          /\ k.inbox = f.inbox /\ k.identifier = f.identifier /\ k.players = m.players
      BY <2>1, <2>2, <2>3, <2>12, <3>1, HeardTopology
    <3>3. Knows(s, i, k)
      BY <1>2, <2>2, <3>1, <3>2 DEF Knows
    <3>4. k.inbox \o q = tl
      BY <2>1, <2>2, <3>2
    <3>5. CASE m.tag # "start_game"
      <4>1. Waits(s, i, c, players, tl, rest, k)
        BY <2>2, <2>9, <2>10, <3>1, <3>2, <3>5
      <4> QED
        BY <3>2, <3>3, <3>4, <3>5, <4>1 DEF Linked
    <3>6. CASE m.tag = "start_game"
      <4>1. c = "in_game" /\ Len(pend) = 2
        BY <2>8, <3>1, <3>6 DEF GameSession
      <4>2. tl = <<EndGameData>> /\ m.players = players
        <5>1. Starts(pend) /\ Updates(players, pend, j) /\ pend[1].type = "topology"
          BY <2>4, <2>6, <3>1, <4>1
        <5>2. tl = <<EndGameData>> /\ pend[1].players = players
          BY <2>1, <2>7, <4>1, <5>1, StartIsHeard
        <5> QED
          BY <2>4, <5>2
      <4>3. Plays(c, players, tl, rest, k)
        BY <2>2, <2>6, <2>9, <3>1, <3>2, <3>6, <4>1, <4>2 DEF Plays
      <4> QED
        BY <3>2, <3>3, <3>4, <3>6, <4>1, <4>3 DEF Linked
    <3> QED
      BY <3>5, <3>6
  <2> QED
    BY <2>8, <2>11, <2>12
<1> QED
  BY <1>3, <1>4

\* NetUpdateJoinState of a joiner that has been gathered.
LEMMA JoinerWaitsKeeps ==
  ASSUME GatheringInvariant, NEW s \in Joiners, NEW n \in 0 .. Len(toJoiner[s]),
         NEW ended \in BOOLEAN, JoinerWaits(s, n, ended)
  PROVE  GatheringInvariant'
<1>1. PICK a \in [Joiners -> Nat] : Fits(OnTheWire, a, toGatherer, joiner, linked, knocking)
  BY TypesHold
<1> DEFINE waiting == [joiner[s] EXCEPT !.handler = "waiting", !.inbox = Found(s, n)]
           j == IF Found(s, n) = << >> THEN waiting
                ELSE JoinerHandled([waiting EXCEPT !.inbox = Tail(@)], s, Head(Found(s, n)))
           jj == Heard(j)
           k == Silent(jj)
           p == Found(s, n)
           q == Later(s, n)
           c == OnTheWire.clients[s]
           players == OnTheWire.players
           rest == toGatherer[s]
<1>2. /\ joiner[s].net = "waiting" /\ s \in linked /\ Finds(s, n, ended)
      /\ gatherer' = gatherer /\ knocking' = knocking
  BY DEF JoinerWaits
<1>3. Answered(s, jj)
  BY DEF JoinerWaits, Heard
<1>4. /\ joiner[s] \in JoinerRecords /\ rest \in Seq(Messages)
      /\ p \in Seq(Messages) /\ q \in Seq(Messages)
      /\ Knows(s, a[s], joiner[s])
      /\ Linked(s, a[s], c, players, p \o q, rest, joiner[s])
      /\ ended => c = "no_client"
      /\ linked' = IF ended THEN linked \ {s} ELSE linked
  BY <1>1, <1>2, JoinerFinds
<1>5. [waiting EXCEPT !.inbox = Tail(@)] = Waiting(joiner[s], Tail(p))
  BY <1>4 DEF Waiting, JoinerRecords
<1>6. jj = Heard(IF p = << >> THEN Waiting(joiner[s], p)
                 ELSE JoinerHandled(Waiting(joiner[s], Tail(p)), s, Head(p)))
  BY <1>5 DEF Waiting
<1>7. Talks(s, a[s], OnTheWire, rest, joiner[s], linked, knocking) /\ a[s] \in Nat
  BY <1>1 DEF Fits
<1> HIDE DEF waiting, j, jj, k, p, q, c, players, rest
<1>8. k = Silent(jj)
  BY DEF k
<1>9. /\ jj.reply = << >> /\ k \in JoinerRecords
      /\ k.net = "waiting" \/ (k.net = "starting_up" /\ c = "in_game")
      /\ Knows(s, a[s], k) /\ Linked(s, a[s], c, players, k.inbox \o q, rest, k)
  BY <1>2, <1>4, <1>6, <1>7, <1>8, WaitingHears
<1>10. rest \o jj.reply = rest /\ jj.reply \in Seq(Messages)
  BY <1>4, <1>9, ConcatEmptySeq
<1>11. k = [jj EXCEPT !.reply = << >>]
  BY DEF k, Silent
<1>12. s \notin knocking
  BY <1>2, <1>7 DEF Talks, Knows
<1>13. s \notin linked' => Leaves(s, a[s], c, OnTheWire.net, players, rest, k)
  <2> SUFFICES ASSUME s \notin linked' PROVE Leaves(s, a[s], c, OnTheWire.net, players, rest, k)
    OBVIOUS
  <2>1. c = "no_client"
    BY <1>2, <1>4
  <2>2. k.net = "waiting"
    BY <1>9, <2>1
  <2> QED
    BY <1>7, <2>2, RestIsLeft DEF c
<1>14. k.net # "connecting"
  BY <1>9
<1>15. Linked(s, a[s], c, players, k.inbox \o q, rest \o jj.reply, k)
  BY <1>9, <1>10
<1> QED
  BY <1>1, <1>2, <1>3, <1>9, <1>10, <1>11, <1>12, <1>13, <1>14, <1>15, JoinerAnswers
     DEF c, players, rest, q

----------------------------------------------------------------------------
(* A joiner that starts up, and one in the game. *)

\* A joiner that starts up finds the end of the game data, and nothing else.
LEMMA StartingUpFinds ==
  ASSUME NEW s, NEW i, NEW g, NEW rest, NEW j, NEW links, NEW knocks, NEW p \in Seq(Messages),
         NEW q \in Seq(Messages), j.net = "starting_up", p # << >>,
         Talks(s, i, g, rest, j, links, knocks),
         s \in links => Linked(s, i, g.clients[s], g.players, p \o q, rest, j),
         s \notin links => p = j.inbox
  PROVE  /\ p = <<EndGameData>> /\ j.session /\ j.players = g.players
         /\ s \in links => q = << >> /\ g.clients[s] = "in_game" /\ rest = << >>
<1>1. CASE s \in links
  <2> DEFINE pend == p \o q
  <2>1. Linked(s, i, g.clients[s], g.players, pend, rest, j)
    BY <1>1
  <2>2. \A m : pend = <<m>> => (p = << >> /\ q = <<m>>) \/ (p = <<m>> /\ q = << >>)
    BY OneMessageFound
  <2> HIDE DEF pend
  <2>3. Plays(g.clients[s], g.players, pend, rest, j)
    BY <2>1 DEF Linked, Greets, Introduces, Accepts, Waits
  <2>4. pend = <<EndGameData>> /\ j.session /\ j.players = g.players
        /\ g.clients[s] = "in_game" /\ rest = << >>
    BY <2>3 DEF Plays
  <2> QED
    BY <2>2, <2>4
<1>2. CASE s \notin links
  <2>1. Leaves(s, i, g.clients[s], g.net, g.players, rest, j) /\ p = j.inbox
    BY <1>2 DEF Talks
  <2> QED
    BY <1>2, <2>1 DEF Leaves
<1> QED
  BY <1>1, <1>2

\* NetReceiveGameData.
LEMMA JoinerStartsUpKeeps ==
  ASSUME GatheringInvariant, NEW s \in Joiners, NEW n \in 0 .. Len(toJoiner[s]),
         NEW ended \in BOOLEAN, JoinerStartsUp(s, n, ended)
  PROVE  GatheringInvariant'
<1>1. PICK a \in [Joiners -> Nat] : Fits(OnTheWire, a, toGatherer, joiner, linked, knocking)
  BY TypesHold
<1> DEFINE p == Found(s, n)
           q == Later(s, n)
           j == joiner[s]
           k == [[j EXCEPT !.inbox = Tail(p)] EXCEPT !.net = "active"]
           c == OnTheWire.clients[s]
           players == OnTheWire.players
           rest == toGatherer[s]
<1>2. /\ j.net = "starting_up" /\ p # << >> /\ Finds(s, n, ended)
      /\ gatherer' = gatherer /\ knocking' = knocking
      /\ Answered(s, IF Head(p).type = "end_game_data" THEN k
                     ELSE JoinerHandled([j EXCEPT !.inbox = Tail(p)], s, Head(p)))
  BY DEF JoinerStartsUp
<1>3. /\ j \in JoinerRecords /\ rest \in Seq(Messages)
      /\ p \in Seq(Messages) /\ q \in Seq(Messages)
      /\ Knows(s, a[s], j)
      /\ s \in linked => Linked(s, a[s], c, players, p \o q, rest, j)
      /\ s \notin linked =>
           Leaves(s, a[s], c, OnTheWire.net, players, rest, j) /\ p = j.inbox
      /\ ended => s \in linked /\ c = "no_client"
      /\ linked' = IF ended THEN linked \ {s} ELSE linked
  BY <1>1, <1>2, JoinerFinds
<1>4. Talks(s, a[s], OnTheWire, rest, j, linked, knocking)
  BY <1>1 DEF Fits
<1>5. /\ p = <<EndGameData>> /\ j.session /\ j.players = players
      /\ s \in linked => q = << >> /\ c = "in_game" /\ rest = << >>
  <2> HIDE DEF j, p, q, rest
  <2> QED
    BY <1>2, <1>3, <1>4, StartingUpFinds
<1>6. Answered(s, k)
  BY <1>2, <1>5 DEF EndGameData
<1>7. Tail(p) = << >>
  BY <1>5
<1> HIDE DEF j, p, q, c, players, rest
<1> DEFINE e == [j EXCEPT !.inbox = Tail(p)]
<1>8. /\ e \in JoinerRecords /\ e.inbox = << >> /\ e.net = "starting_up"
      /\ e.identifier = j.identifier /\ e.players = j.players /\ e.session = j.session
  <2>1. e = Emptied(j)
    BY <1>7 DEF Emptied
  <2> HIDE DEF e
  <2> QED
    BY <1>2, <1>3, <2>1, EmptiedIs
<1> HIDE DEF e
<1>9. /\ k \in JoinerRecords /\ k.inbox = << >> /\ k.net = "active" /\ k.reply = << >>
      /\ k.identifier = e.identifier /\ k.players = e.players /\ k.session = e.session
  <2>1. k = [e EXCEPT !.net = "active"]
    BY DEF e
  <2> QED
    BY <1>8, <2>1 DEF JoinerRecords, JoinerStates
<1> HIDE DEF k
<1>10. k = [k EXCEPT !.reply = << >>]
  BY <1>9 DEF JoinerRecords
<1>11. Knows(s, a[s], k)
  BY <1>2, <1>3, <1>8, <1>9 DEF Knows
<1>12. s \notin knocking
  BY <1>2, <1>4 DEF Talks, Knows
<1>13. s \in linked' => s \in linked
  BY <1>3
<1>14. s \notin linked' => s \notin linked
  BY <1>3, <1>5
<1>15. s \notin linked' => Leaves(s, a[s], c, OnTheWire.net, players, rest, k)
  BY <1>2, <1>3, <1>5, <1>8, <1>9, <1>14 DEF Leaves
<1>16. rest \o k.reply = rest /\ k.inbox \o q = q /\ k.reply \in Seq(Messages)
  BY <1>3, <1>9, ConcatEmptySeq
<1>17. s \in linked' => Linked(s, a[s], c, players, k.inbox \o q, rest \o k.reply, k)
  <2>1. s \in linked' => Plays(c, players, q, rest, k)
    BY <1>5, <1>8, <1>9, <1>13 DEF Plays
  <2> QED
    BY <1>16, <2>1 DEF Linked
<1> QED
  BY <1>1, <1>2, <1>6, <1>9, <1>10, <1>11, <1>12, <1>13, <1>15, <1>16, <1>17, JoinerAnswers
     DEF c, players, rest, q

\* NetProcessMessagesInGame of a joiner.
LEMMA JoinerInGameKeeps ==
  ASSUME GatheringInvariant, NEW s \in Joiners, NEW n \in 0 .. Len(toJoiner[s]),
         NEW ended \in BOOLEAN, JoinerInGame(s, n, ended)
  PROVE  GatheringInvariant'
<1>1. PICK a \in [Joiners -> Nat] : Fits(OnTheWire, a, toGatherer, joiner, linked, knocking)
  BY TypesHold
<1> DEFINE p == Found(s, n)
           q == Later(s, n)
           j == joiner[s]
           k == Emptied(j)
           c == OnTheWire.clients[s]
           players == OnTheWire.players
           rest == toGatherer[s]
<1>2. /\ j.net = "active" /\ Finds(s, n, ended) /\ gatherer' = gatherer /\ knocking' = knocking
      /\ Answered(s, JoinerDispatched(k, s, p))
  BY DEF JoinerInGame, Emptied
<1>3. /\ j \in JoinerRecords /\ rest \in Seq(Messages)
      /\ p \in Seq(Messages) /\ q \in Seq(Messages)
      /\ Knows(s, a[s], j)
      /\ s \in linked => Linked(s, a[s], c, players, p \o q, rest, j)
      /\ s \notin linked =>
           Leaves(s, a[s], c, OnTheWire.net, players, rest, j) /\ p = j.inbox
      /\ ended => s \in linked /\ c = "no_client"
      /\ linked' = IF ended THEN linked \ {s} ELSE linked
  BY <1>1, <1>2, JoinerFinds
<1>4. Talks(s, a[s], OnTheWire, rest, j, linked, knocking)
  BY <1>1 DEF Fits
<1>5. p \o q = << >> => p = << >> /\ q = << >>
  BY <1>3, OneMessageFound
<1>6. /\ k \in JoinerRecords /\ k.inbox = << >> /\ k.reply = << >> /\ k.net = j.net
      /\ k.identifier = j.identifier /\ k.players = j.players /\ k.session = j.session
  BY <1>3, EmptiedIs
<1> HIDE DEF j, k, p, q, c, players, rest
<1>7. s \in linked => /\ p = << >> /\ q = << >> /\ rest = << >> /\ c = "in_game"
                      /\ j.session /\ j.players = players
  <2> DEFINE pend == p \o q
  <2>1. pend = << >> => p = << >> /\ q = << >>
    BY <1>5
  <2>2. s \in linked => Linked(s, a[s], c, players, pend, rest, j)
    BY <1>3
  <2> HIDE DEF pend
  <2>3. s \in linked => Plays(c, players, pend, rest, j)
    BY <1>2, <2>2 DEF Linked, Greets, Introduces, Accepts, Waits
  <2> QED
    BY <1>2, <2>1, <2>3 DEF Plays
<1>8. s \notin linked => p = << >>
  BY <1>2, <1>3 DEF Leaves
<1>9. JoinerDispatched(k, s, p) = k
  BY <1>7, <1>8, NothingDispatched
<1>10. Answered(s, k)
  BY <1>2, <1>9
<1>11. k = [k EXCEPT !.reply = << >>]
  BY <1>6 DEF JoinerRecords
<1>12. Knows(s, a[s], k)
  BY <1>2, <1>3, <1>6 DEF Knows
<1>13. s \notin knocking
  BY <1>2, <1>4 DEF Talks, Knows
<1>14. s \in linked' => s \in linked
  BY <1>3
<1>15. s \notin linked' => s \notin linked
  BY <1>3, <1>7
<1>16. s \notin linked' => Leaves(s, a[s], c, OnTheWire.net, players, rest, k)
  BY <1>2, <1>3, <1>6, <1>15 DEF Leaves
<1>17. rest \o k.reply = rest /\ k.inbox \o q = q /\ k.reply \in Seq(Messages)
  BY <1>3, <1>6, ConcatEmptySeq
<1>18. s \in linked' => Linked(s, a[s], c, players, k.inbox \o q, rest \o k.reply, k)
  <2>1. s \in linked' => Plays(c, players, q, rest, k)
    BY <1>2, <1>6, <1>7, <1>14 DEF Plays
  <2> QED
    BY <1>17, <2>1 DEF Linked
<1> QED
  BY <1>1, <1>2, <1>6, <1>10, <1>11, <1>12, <1>13, <1>16, <1>17, <1>18, JoinerAnswers
     DEF c, players, rest, q

----------------------------------------------------------------------------
(* The invariant. *)

\* The invariant holds before anybody has come.
LEMMA NobodyHasJoined ==
  ASSUME GatheringInit
  PROVE  GatheringInvariant
<1> DEFINE a == [s \in Joiners |-> 0]
           g == OnTheWire
<1>1. gatherer = NewGatherer /\ joiner = [s \in Joiners |-> NewJoiner]
      /\ knocking = {} /\ linked = {} /\ toJoiner = NothingSent /\ toGatherer = NothingSent
  BY DEF GatheringInit
<1>2. gatherer = OffTheWire(g)
  BY <1>1 DEF OnTheWire, OffTheWire, NewGatherer
<1>3. /\ g.net = "gathering" /\ g.clients = [s \in Joiners |-> "no_client"] /\ g.up = {}
      /\ g.players = <<ThisPlayer>> /\ g.nextIdentifier = 1 /\ g.ungathered = {}
      /\ g.startable = FALSE /\ g.out = NothingSent /\ g.wire = NothingSent
  BY <1>1 DEF OnTheWire, NewGatherer
<1>4. << >> \in Seq(Messages) /\ <<ThisPlayer>> \in Seq(Players)
  <2>1. ThisPlayer \in Players
    BY GatheringAssumption DEF ThisPlayer, Players
  <2> QED
    BY <2>1
<1>5. NothingSent \in [Joiners -> Seq(Messages)]
  BY <1>4 DEF NothingSent
<1>6. g \in Gatherers
  <2>1. g = [net |-> g.net, clients |-> g.clients, up |-> g.up, players |-> g.players,
             nextIdentifier |-> g.nextIdentifier, ungathered |-> g.ungathered,
             startable |-> g.startable, out |-> g.out, wire |-> g.wire]
    BY DEF OnTheWire
  <2> HIDE DEF g
  <2>2. /\ g.net \in {"gathering", "active", "down"}
        /\ g.clients \in [Joiners -> {"no_client"} \cup ClientStates]
        /\ g.up \in SUBSET Joiners /\ g.players \in Seq(Players) /\ g.nextIdentifier \in Nat
        /\ g.ungathered \in SUBSET Joiners
    BY <1>3, <1>4
  <2>3. g.startable \in BOOLEAN
    BY <1>3
  <2>4. g.out \in [Joiners -> Seq(Messages)] /\ g.wire \in [Joiners -> Seq(Messages)]
    BY <1>3, <1>5
  <2> QED
    BY <2>1, <2>2, <2>3, <2>4, Zenon DEF Gatherers
<1> HIDE DEF g
<1>7. NewJoiner \in JoinerRecords
  BY <1>4 DEF NewJoiner, JoinerRecords, JoinerStates
<1>8. a \in [Joiners -> Nat] /\ \A s \in Joiners : a[s] = 0
  OBVIOUS
<1> HIDE DEF a
<1>9. Assigns(g, a)
  <2>1. {s \in Joiners : a[s] # 0} = {} /\ Cardinality({}) = 0
    BY <1>8, FS_EmptySet
  <2> QED
    BY <1>3, <1>8, <2>1 DEF Assigns
<1>10. Roster(g, a)
  <2>1. Len(g.players) = 1 /\ DOMAIN g.players = {1} /\ g.players[1] = ThisPlayer
    BY <1>3
  <2>2. \A s \in Joiners : s \notin Streams(g.players) /\ g.clients[s] \notin Members
    BY <1>3, <2>1 DEF Streams, ThisPlayer, Joiners, Members
  <2> QED
    BY <2>1, <2>2 DEF Roster
<1>11. Stage(g)
  <2>1. InState(g, "connected") = {} /\ Len(g.players) = 1
    BY <1>3 DEF InState
  <2>2. g.startable = (Len(g.players) > 1)
    <3>1. (Len(g.players) > 1) = FALSE
      BY <2>1
    <3>2. g.startable = FALSE
      BY <1>3
    <3> QED
      BY <3>1, <3>2, Zenon
  <2>3. /\ g.net # "active" /\ g.net # "down" /\ g.ungathered = InState(g, "connected")
        /\ \A s \in Joiners : g.clients[s] # "in_game"
    BY <1>3, <2>1
  <2> QED
    BY <2>2, <2>3, Zenon DEF Stage
<1>12. ASSUME NEW s \in Joiners
       PROVE  Talks(s, a[s], g, toGatherer[s], joiner[s], linked, knocking)
  <2>1. /\ joiner[s] = NewJoiner /\ toGatherer[s] = << >> /\ g.wire[s] = << >>
        /\ g.out[s] = << >> /\ g.clients[s] = "no_client" /\ a[s] = 0
    BY <1>1, <1>3, <1>8 DEF NothingSent
  <2>2. NewJoiner.net = "connecting" /\ NewJoiner.identifier = 0
    BY DEF NewJoiner
  <2> QED
    BY <1>1, <1>3, <2>1, <2>2 DEF Talks, Knows, Leaves, Candidates, Members
<1>13. Fits(g, a, toGatherer, joiner, linked, knocking)
  BY <1>9, <1>10, <1>11, <1>12 DEF Fits
<1>14. /\ joiner \in [Joiners -> JoinerRecords] /\ toGatherer \in [Joiners -> Seq(Messages)]
       /\ knocking \in SUBSET Joiners /\ linked \in SUBSET Joiners
  BY <1>1, <1>5, <1>7
<1> QED
  BY <1>2, <1>6, <1>8, <1>13, <1>14 DEF GatheringInvariant, GatheringTyped, g

\* It holds when nothing happens,
LEMMA NothingHappens ==
  ASSUME GatheringInvariant, UNCHANGED gatheringVars
  PROVE  GatheringInvariant'
  BY DEF GatheringInvariant, GatheringTyped, OnTheWire, gatheringVars

\* and every step keeps it, if PLAY is pressed when no answer is awaited.
LEMMA StepsKeepGathering ==
  ASSUME ~ StartsAhead, GatheringInvariant, [GatheringNext]_gatheringVars
  PROVE  GatheringInvariant'
<1>1. CASE Idle
  BY <1>1, IdleKeeps
<1>2. CASE StartGameHit
  BY <1>2, StartGameKeeps
<1>3. CASE CancelGather
  BY <1>3, CancelGatherKeeps
<1>4. CASE GathererInGame
  BY <1>4, GathererInGameKeeps
<1>5. ASSUME NEW s \in Joiners, GatheredPlayer(s) PROVE GatheringInvariant'
  BY <1>5, GatheredPlayerKeeps
<1>6. ASSUME NEW s \in Joiners, JoinerStep(s) PROVE GatheringInvariant'
  <2>1. CASE Connects(s)
    BY <2>1, ConnectsKeeps
  <2>2. CASE JoinerLosesConnection(s) \/ JoinerGivesUp(s)
    BY <2>2, JoinerLeavesKeeps
  <2>3. ASSUME NEW n \in 0 .. Len(toJoiner[s]), NEW ended \in BOOLEAN, JoinerUpdates(s, n, ended)
        PROVE  GatheringInvariant'
    <3>1. CASE JoinerJoins(s, n, ended)
      BY <3>1, JoinerJoinsKeeps
    <3>2. CASE JoinerWaits(s, n, ended)
      BY <3>2, JoinerWaitsKeeps
    <3>3. CASE JoinerStartsUp(s, n, ended)
      BY <3>3, JoinerStartsUpKeeps
    <3>4. CASE JoinerInGame(s, n, ended)
      BY <3>4, JoinerInGameKeeps
    <3> QED
      BY <2>3, <3>1, <3>2, <3>3, <3>4 DEF JoinerUpdates
  <2> QED
    BY <1>6, <2>1, <2>2, <2>3 DEF JoinerStep
<1>7. CASE UNCHANGED gatheringVars
  BY <1>7, NothingHappens
<1> QED
  BY <1>1, <1>2, <1>3, <1>4, <1>5, <1>6, <1>7 DEF GatheringNext

\* However many joiners come, go, lose their connections or are turned away, and whoever
\* gathers them: as long as PLAY is not pressed while an answer is awaited, what the gatherer
\* and each joiner think of one another, and what is under way between them, fit.
THEOREM GatheringIsInvariant ==
  ASSUME ~ StartsAhead
  PROVE  GatheringSpec => []GatheringInvariant
<1>1. GatheringInit => GatheringInvariant
  BY NobodyHasJoined
<1>2. GatheringInvariant /\ [GatheringNext]_gatheringVars => GatheringInvariant'
  BY StepsKeepGathering
<1> QED
  BY <1>1, <1>2, PTL DEF GatheringSpec

----------------------------------------------------------------------------
(* What follows from the invariant. *)

\* Every part of the state has the values that the code gives it.
LEMMA TypesFollow ==
  ASSUME GatheringInvariant
  PROVE  GatheringTypeOK
<1>1. /\ OnTheWire \in Gatherers /\ joiner \in [Joiners -> JoinerRecords]
      /\ toGatherer \in [Joiners -> Seq(Messages)]
      /\ knocking \in SUBSET Joiners /\ linked \in SUBSET Joiners
  BY TypesHold
<1>2. PICK a \in [Joiners -> Nat] : Fits(OnTheWire, a, toGatherer, joiner, linked, knocking)
  BY TypesHold
<1> DEFINE g == OnTheWire
<1>3. /\ g.net = gatherer.net /\ g.up = gatherer.up /\ g.clients = gatherer.clients
      /\ g.nextIdentifier = gatherer.nextIdentifier
  BY DEF OnTheWire
<1>4. \A s \in Joiners : Talks(s, a[s], g, toGatherer[s], joiner[s], linked, knocking)
  BY <1>2 DEF Fits
<1>5. Cardinality({s \in Joiners : a[s] # 0}) + 1 = g.nextIdentifier
  BY <1>2 DEF Fits, Assigns
<1> HIDE DEF g
<1>6. /\ gatherer.net \in {"gathering", "active", "down"}
      /\ gatherer.clients \in [Joiners -> {"no_client"} \cup ClientStates]
      /\ gatherer.up \subseteq Joiners
  BY <1>1, <1>3 DEF Gatherers, g
<1>7. gatherer.up \subseteq Clients(gatherer)
  BY <1>3, <1>4, <1>6 DEF Talks, Clients
<1>8. gatherer.nextIdentifier \in 1 .. NumJoiners + 1
  <2> DEFINE T == {s \in Joiners : a[s] # 0}
  <2>1. IsFiniteSet(T) /\ Cardinality(T) <= NumJoiners /\ Cardinality(T) \in Nat
    <3>1. T \subseteq Joiners
      OBVIOUS
    <3> HIDE DEF T
    <3>2. IsFiniteSet(T) /\ Cardinality(T) <= Cardinality(Joiners)
      BY <3>1, JoinersAreFinite, FS_Subset
    <3>3. Cardinality(T) \in Nat
      BY <3>2, FS_CardinalityType
    <3> QED
      BY <3>2, <3>3, JoinersAreFinite
  <2>2. Cardinality(T) + 1 = gatherer.nextIdentifier
    BY <1>3, <1>5
  <2> HIDE DEF T
  <2> QED
    BY <2>1, <2>2, GatheringAssumption
<1>9. ASSUME NEW s \in Joiners PROVE joiner[s].net \in JoinerStates /\ Len(toGatherer[s]) <= 1
  <2>1. joiner[s].net \in JoinerStates
    BY <1>1 DEF JoinerRecords
  <2>2. \/ toGatherer[s] = << >> \/ toGatherer[s] = <<JoinerInfo>>
        \/ toGatherer[s] = <<CapabilitiesOf(s)>> \/ toGatherer[s] = <<AcceptJoin(a[s])>>
    BY <1>4, RestIsOneMessage, Zenon
  <2>3. Len(toGatherer[s]) <= 1
    <3>1. \A m : Len(<<m>>) = 1
      OBVIOUS
    <3>2. Len(<< >>) = 0
      OBVIOUS
    <3>3. Len(toGatherer[s]) = 0 \/ Len(toGatherer[s]) = 1
      BY <2>2, <3>1, <3>2, Zenon
    <3>4. 0 <= 1 /\ 1 <= 1
      OBVIOUS
    <3> QED
      BY <3>3, <3>4, Zenon
  <2> QED
    BY <2>1, <2>3
<1> QED
  BY <1>1, <1>6, <1>7, <1>8, <1>9 DEF GatheringTypeOK

\* The dialog and the network code agree.
LEMMA DialogFollows ==
  ASSUME GatheringInvariant
  PROVE  DialogAgrees
<1>1. PICK a \in [Joiners -> Nat] : Fits(OnTheWire, a, toGatherer, joiner, linked, knocking)
  BY TypesHold
<1> DEFINE g == OnTheWire
<1>2. /\ g.net = gatherer.net /\ g.clients = gatherer.clients /\ g.players = gatherer.players
      /\ g.ungathered = gatherer.ungathered /\ g.startable = gatherer.startable
  BY DEF OnTheWire
<1>3. Stage(g)
  BY <1>1 DEF Fits
<1> HIDE DEF g
<1>4. ASSUME gatherer.net = "gathering" PROVE gatherer.ungathered = InState(gatherer, "connected")
  BY <1>2, <1>3, <1>4 DEF Stage, InState
<1>5. ASSUME gatherer.net = "gathering"
      PROVE  gatherer.startable <=> Len(gatherer.players) > 1
  <2>1. g.startable = (Len(g.players) > 1)
    BY <1>2, <1>3, <1>5 DEF Stage
  <2>2. gatherer.startable = (Len(gatherer.players) > 1)
    BY <1>2, <2>1, Zenon
  <2> QED
    BY <2>2, Zenon
<1> QED
  BY <1>4, <1>5, Zenon DEF DialogAgrees

\* What the invariant says of the players, in the words of the gatherer.
LEMMA RosterHolds ==
  ASSUME GatheringInvariant
  PROVE  \E a \in [Joiners -> Nat] :
           /\ \A s, t \in Joiners : a[s] = a[t] /\ a[s] # 0 => s = t
           /\ gatherer.players \in Seq(Players) /\ Len(gatherer.players) >= 1
           /\ DOMAIN gatherer.players = 1 .. Len(gatherer.players) /\ Len(gatherer.players) \in Nat
           /\ gatherer.players[1] = ThisPlayer
           /\ \A k \in 2 .. Len(gatherer.players) :
                /\ gatherer.players[k].stream \in Joiners
                /\ gatherer.players[k].identifier = a[gatherer.players[k].stream]
                /\ a[gatherer.players[k].stream] # 0
           /\ \A k, l \in 2 .. Len(gatherer.players) :
                gatherer.players[k].stream = gatherer.players[l].stream => k = l
           /\ gatherer.net # "down" =>
                \A s \in Joiners : gatherer.clients[s] \in Members
                                     <=> s \in Streams(gatherer.players)
<1>1. PICK a \in [Joiners -> Nat] : Fits(OnTheWire, a, toGatherer, joiner, linked, knocking)
  BY TypesHold
<1>2. OnTheWire \in Gatherers
  BY TypesHold
<1> DEFINE g == OnTheWire
<1>3. g.net = gatherer.net /\ g.clients = gatherer.clients /\ g.players = gatherer.players
  BY DEF OnTheWire
<1>4. Roster(g, a) /\ Assigns(g, a)
  BY <1>1 DEF Fits
<1>5. g.players \in Seq(Players)
  BY <1>2 DEF Gatherers
<1> HIDE DEF g
<1>6. /\ gatherer.players \in Seq(Players) /\ Len(gatherer.players) \in Nat
      /\ DOMAIN gatherer.players = 1 .. Len(gatherer.players)
  BY <1>3, <1>5, LenProperties
<1>7. /\ \A s, t \in Joiners : a[s] = a[t] /\ a[s] # 0 => s = t
      /\ Len(gatherer.players) >= 1 /\ gatherer.players[1] = ThisPlayer
      /\ \A k \in 2 .. Len(gatherer.players) :
           /\ gatherer.players[k].stream \in Joiners
           /\ gatherer.players[k].identifier = a[gatherer.players[k].stream]
           /\ a[gatherer.players[k].stream] # 0
      /\ \A k, l \in 2 .. Len(gatherer.players) :
           gatherer.players[k].stream = gatherer.players[l].stream => k = l
      /\ gatherer.net # "down" =>
           \A s \in Joiners : gatherer.clients[s] \in Members <=> s \in Streams(gatherer.players)
  BY <1>3, <1>4 DEF Roster, Assigns
<1> QED
  BY <1>6, <1>7

\* The players are the gatherer and the members, each once.
LEMMA PlayersFollow ==
  ASSUME GatheringInvariant
  PROVE  PlayersAreTheAccepted
<1> DEFINE p == gatherer.players
<1>1. PICK a \in [Joiners -> Nat] :
        /\ \A s, t \in Joiners : a[s] = a[t] /\ a[s] # 0 => s = t
        /\ p \in Seq(Players) /\ Len(p) >= 1
        /\ DOMAIN p = 1 .. Len(p) /\ Len(p) \in Nat /\ p[1] = ThisPlayer
        /\ \A k \in 2 .. Len(p) :
             /\ p[k].stream \in Joiners /\ p[k].identifier = a[p[k].stream] /\ a[p[k].stream] # 0
        /\ \A k, l \in 2 .. Len(p) : p[k].stream = p[l].stream => k = l
        /\ gatherer.net # "down" =>
             \A s \in Joiners : gatherer.clients[s] \in Members <=> s \in Streams(p)
  BY RosterHolds
<1> HIDE DEF p
<1>2. /\ Len(Tail(p)) = Len(p) - 1 /\ DOMAIN Tail(p) = 1 .. Len(p) - 1
      /\ \A k \in 1 .. Len(p) - 1 : Tail(p)[k] = p[k + 1]
  <2>1. p # << >>
    BY <1>1
  <2>2. /\ Tail(p) \in Seq(Players) /\ Len(Tail(p)) = Len(p) - 1
        /\ \A k \in 1 .. Len(p) - 1 : Tail(p)[k] = p[k + 1]
    BY <1>1, <2>1, HeadTailProperties
  <2> QED
    BY <2>2, LenProperties
<1>3. 0 \notin Joiners /\ ThisPlayer.stream = 0 /\ ThisPlayer.identifier = 0
  BY DEF Joiners, ThisPlayer
<1>4. \A s \in Joiners : s \in Streams(p) <=> s \in Streams(Tail(p))
  <2>1. ASSUME NEW s \in Joiners, s \in Streams(p) PROVE s \in Streams(Tail(p))
    <3>1. PICK k \in DOMAIN p : p[k].stream = s
      BY <2>1 DEF Streams
    <3>2. k # 1
      BY <1>1, <1>3, <3>1
    <3>3. k - 1 \in 1 .. Len(p) - 1 /\ k - 1 + 1 = k
      BY <1>1, <3>1, <3>2
    <3>4. Tail(p)[k - 1] = p[k] /\ k - 1 \in DOMAIN Tail(p)
      BY <1>2, <3>3
    <3> QED
      BY <3>1, <3>4 DEF Streams
  <2>2. ASSUME NEW s \in Joiners, s \in Streams(Tail(p)) PROVE s \in Streams(p)
    <3>1. PICK k \in DOMAIN Tail(p) : Tail(p)[k].stream = s
      BY <2>2 DEF Streams
    <3>2. Tail(p)[k] = p[k + 1] /\ k + 1 \in DOMAIN p
      BY <1>1, <1>2, <3>1
    <3> QED
      BY <3>1, <3>2 DEF Streams
  <2> QED
    BY <2>1, <2>2
<1>5. Streams(Tail(p)) \subseteq Joiners
  <2> SUFFICES ASSUME NEW k \in DOMAIN Tail(p) PROVE Tail(p)[k].stream \in Joiners
    BY DEF Streams
  <2>1. Tail(p)[k] = p[k + 1] /\ k + 1 \in 2 .. Len(p)
    BY <1>1, <1>2
  <2> QED
    BY <1>1, <2>1
<1>6. ASSUME gatherer.net # "down"
      PROVE  Streams(Tail(p)) = InState(gatherer, "awaiting_map") \cup InState(gatherer, "in_game")
  BY <1>1, <1>4, <1>5, <1>6 DEF InState, Members
<1>7. ASSUME NEW i \in DOMAIN p, NEW k \in DOMAIN p, i # k
      PROVE  p[i].identifier # p[k].identifier /\ p[i].stream # p[k].stream
  <2>1. CASE i = 1 \/ k = 1
    <3>1. \A l \in 2 .. Len(p) : p[l].identifier # 0 /\ p[l].stream # 0
      BY <1>1, <1>3
    <3>2. \A l \in DOMAIN p : l = 1 \/ l \in 2 .. Len(p)
      BY <1>1
    <3> QED
      BY <1>1, <1>3, <1>7, <2>1, <3>1, <3>2
  <2>2. CASE i # 1 /\ k # 1
    <3>1. i \in 2 .. Len(p) /\ k \in 2 .. Len(p)
      BY <1>1, <2>2
    <3> QED
      BY <1>1, <1>7, <3>1
  <2> QED
    BY <2>1, <2>2
<1> QED
  BY <1>6, <1>7 DEF PlayersAreTheAccepted, p

\* What the invariant says of one joiner, in the words of the state.
LEMMA TalkHolds ==
  ASSUME GatheringInvariant, NEW s \in Joiners
  PROVE  LET j == joiner[s]
             c == gatherer.clients[s]
             pend == j.inbox \o (toJoiner[s] \o gatherer.out[s])
         IN /\ j \in JoinerRecords /\ toJoiner[s] \in Seq(Messages)
            /\ gatherer.out[s] \in Seq(Messages) /\ pend \in Seq(Messages)
            /\ \E i \in Nat :
                 /\ Knows(s, i, j)
                 /\ s \in linked => Linked(s, i, c, gatherer.players, pend, toGatherer[s], j)
                 /\ s \notin linked =>
                      Leaves(s, i, c, gatherer.net, gatherer.players, toGatherer[s], j)
            /\ s \in gatherer.up => c # "no_client"
            /\ c = "in_game" => gatherer.net = "active"
            /\ c # "no_client" => gatherer.net # "down"
<1>1. PICK a \in [Joiners -> Nat] : Fits(OnTheWire, a, toGatherer, joiner, linked, knocking)
  BY TypesHold
<1>2. OnTheWire \in Gatherers /\ joiner \in [Joiners -> JoinerRecords]
  BY TypesHold
<1> DEFINE g == OnTheWire
           j == joiner[s]
           pend == j.inbox \o (toJoiner[s] \o gatherer.out[s])
<1>3. /\ g.net = gatherer.net /\ g.clients = gatherer.clients /\ g.players = gatherer.players
      /\ g.up = gatherer.up /\ g.out = gatherer.out /\ g.wire = toJoiner
  BY DEF OnTheWire
<1>4. Talks(s, a[s], g, toGatherer[s], j, linked, knocking) /\ Stage(g)
  BY <1>1 DEF Fits
<1>5. g \in Gatherers /\ j \in JoinerRecords
  BY <1>2
<1> HIDE DEF g, j
<1>6. /\ g.wire[s] \in Seq(Messages) /\ g.out[s] \in Seq(Messages) /\ j.inbox \in Seq(Messages)
      /\ g.net \in {"gathering", "active", "down"}
  BY <1>5 DEF Gatherers, JoinerRecords
<1>7. Coming(s, g, j) = pend /\ pend \in Seq(Messages)
  <2>1. Coming(s, g, j) = pend
    BY <1>3 DEF Coming
  <2>2. g.wire[s] \o g.out[s] \in Seq(Messages)
    BY <1>6, ConcatProperties
  <2>3. pend \in Seq(Messages)
    BY <1>3, <1>6, <2>2, ConcatProperties
  <2> QED
    BY <2>1, <2>3
<1> HIDE DEF pend
<1>8. /\ Knows(s, a[s], j)
      /\ s \in linked => Linked(s, a[s], g.clients[s], g.players, pend, toGatherer[s], j)
      /\ s \notin linked => Leaves(s, a[s], g.clients[s], g.net, g.players, toGatherer[s], j)
      /\ s \in g.up => g.clients[s] # "no_client"
  BY <1>4, <1>7 DEF Talks
<1>9. /\ (g.clients[s] = "in_game" => g.net = "active")
      /\ (g.clients[s] # "no_client" => g.net # "down")
  BY <1>4, <1>6 DEF Stage
<1>10. a[s] \in Nat
  OBVIOUS
<1>11. \E i \in Nat :
         /\ Knows(s, i, j)
         /\ s \in linked =>
              Linked(s, i, gatherer.clients[s], gatherer.players, pend, toGatherer[s], j)
         /\ s \notin linked =>
              Leaves(s, i, gatherer.clients[s], gatherer.net, gatherer.players, toGatherer[s], j)
  BY <1>3, <1>8, <1>10
<1>12. /\ s \in gatherer.up => gatherer.clients[s] # "no_client"
       /\ gatherer.clients[s] = "in_game" => gatherer.net = "active"
       /\ gatherer.clients[s] # "no_client" => gatherer.net # "down"
  BY <1>3, <1>8, <1>9
<1>13. toJoiner[s] \in Seq(Messages) /\ gatherer.out[s] \in Seq(Messages)
  BY <1>3, <1>6
<1> QED
  BY <1>5, <1>7, <1>11, <1>12, <1>13 DEF j, pend

\* The last topology under way to a waiting joiner is the one of the gatherer.
LEMMA WaitersFollow ==
  ASSUME GatheringInvariant
  PROVE  WaitersWillAgree
<1> SUFFICES ASSUME NEW s \in linked \cap gatherer.up, joiner[s].net = "waiting",
                    s \in Streams(gatherer.players)
             PROVE  LET coming == Topologies(Underway(s))
                    IN /\ coming = {} => joiner[s].players = gatherer.players
                       /\ \A i \in coming : (\A k \in coming : k <= i) =>
                            Underway(s)[i].players = gatherer.players
  BY DEF WaitersWillAgree
<1> DEFINE j == joiner[s]
           c == gatherer.clients[s]
           pend == j.inbox \o (toJoiner[s] \o gatherer.out[s])
<1>1. s \in Joiners
  BY TypesHold
<1>2. PICK i \in Nat : Linked(s, i, c, gatherer.players, pend, toGatherer[s], j)
  BY <1>1, TalkHolds
<1>3. c # "no_client" /\ gatherer.net # "down"
  BY <1>1, TalkHolds
<1>4. j \in JoinerRecords /\ toJoiner[s] \in Seq(Messages) /\ gatherer.out[s] \in Seq(Messages)
  BY <1>1, TalkHolds
<1>5. Underway(s) = pend
  <2>1. j.inbox \in Seq(Messages)
    BY <1>4 DEF JoinerRecords
  <2> DEFINE inbox == j.inbox
             wire == toJoiner[s]
             out == gatherer.out[s]
  <2>2. inbox \in Seq(Messages) /\ wire \in Seq(Messages) /\ out \in Seq(Messages)
    BY <1>4, <2>1
  <2> HIDE DEF inbox, wire, out
  <2>3. (inbox \o wire) \o out = inbox \o (wire \o out)
    BY <2>2, LinesAssociate
  <2> QED
    BY <2>3 DEF Underway, inbox, wire, out
<1>6. c \in Members
  BY <1>1, <1>3, RosterHolds
<1> HIDE DEF j, c, pend
<1>7. Waits(s, i, c, gatherer.players, pend, toGatherer[s], j)
  BY <1>2, <1>6 DEF Linked, Greets, Introduces, Accepts, Plays, Members, j
<1>8. Updates(gatherer.players, pend, j)
  BY <1>3, <1>7 DEF Waits
<1> QED
  BY <1>5, <1>8 DEF Topologies, Updates, j

\* A topology is under way to waiting joiners only.
LEMMA ExpectationFollows ==
  ASSUME GatheringInvariant
  PROVE  TopologiesAreExpected
<1> DEFINE found(s) == joiner[s].inbox \o toJoiner[s]
<1> SUFFICES ASSUME NEW s \in linked, found(s) # << >>, Head(found(s)).type = "topology"
             PROVE  joiner[s].net = "waiting"
  BY DEF TopologiesAreExpected
<1> DEFINE j == joiner[s]
           c == gatherer.clients[s]
           next == found(s)
           out == gatherer.out[s]
           pend == j.inbox \o (toJoiner[s] \o out)
<1>1. s \in Joiners
  BY TypesHold
<1>2. PICK i \in Nat : Linked(s, i, c, gatherer.players, pend, toGatherer[s], j)
  BY <1>1, TalkHolds
<1>3. j \in JoinerRecords /\ toJoiner[s] \in Seq(Messages) /\ out \in Seq(Messages)
  BY <1>1, TalkHolds
<1>4. j.inbox \in Seq(Messages)
  BY <1>3 DEF JoinerRecords
<1>5. next \in Seq(Messages) /\ pend = next \o out
  <2> DEFINE inbox == j.inbox
             wire == toJoiner[s]
  <2>1. inbox \in Seq(Messages) /\ wire \in Seq(Messages) /\ out \in Seq(Messages)
    BY <1>3, <1>4
  <2>2. next = inbox \o wire /\ pend = inbox \o (wire \o out)
    OBVIOUS
  <2> HIDE DEF inbox, wire, next, pend, out
  <2>3. inbox \o wire \in Seq(Messages) /\ (inbox \o wire) \o out = inbox \o (wire \o out)
    BY <2>1, LinesAssociate, ConcatProperties
  <2> QED
    BY <2>2, <2>3
<1>6. next # << >> /\ Head(next).type = "topology"
  OBVIOUS
<1> HIDE DEF j, c, next, out, pend
<1>7. pend[1].type = "topology" /\ pend # << >>
  BY <1>3, <1>5, <1>6, FirstFound
<1>8. \A m : pend = <<m>> => m.type = "topology"
  BY <1>7
<1>9. /\ Hello.type # "topology" /\ EndGameData.type # "topology"
      /\ \A t : CapabilitiesOf(t).type # "topology" /\ JoinPlayer(t).type # "topology"
  BY DEF Hello, EndGameData, CapabilitiesOf, JoinPlayer
<1>10. /\ pend # <<Hello>> /\ pend # <<EndGameData>>
       /\ pend # <<CapabilitiesOf(0)>> /\ pend # <<JoinPlayer(i)>>
  BY <1>8, <1>9, Zenon
<1>11. j.net = "waiting"
  BY <1>2, <1>7, <1>10 DEF Linked, Greets, Introduces, Accepts, Waits, Plays
<1> QED
  BY <1>11 DEF j

\* A joiner that finds itself is where LocalPlayerIndex says.
LEMMA LocalPlayerIsFound ==
  ASSUME NEW j, j.players \in Seq(Players), NEW k \in DOMAIN j.players,
         j.players[k].identifier = j.identifier,
         \A l \in DOMAIN j.players : j.players[l].identifier = j.identifier => l = k
  PROVE  LocalPlayerIndex(j) = k
<1> DEFINE p == j.players
           Is(i) == /\ i <= Len(p) => p[i].identifier = j.identifier
                    /\ \A l \in 1 .. i - 1 : p[l].identifier # j.identifier
<1>1. LocalPlayerIndex(j) = CHOOSE i \in 1 .. Len(p) + 1 : Is(i)
  BY DEF LocalPlayerIndex
<1>2. Len(p) \in Nat /\ DOMAIN p = 1 .. Len(p)
  BY LenProperties
<1>3. k \in 1 .. Len(p) + 1 /\ Is(k)
  BY <1>2
<1>4. ASSUME NEW i \in 1 .. Len(p) + 1, Is(i) PROVE i = k
  <2>1. CASE i <= Len(p)
    BY <1>2, <1>4, <2>1
  <2>2. CASE ~ (i <= Len(p))
    <3>1. k \in 1 .. i - 1
      BY <1>2, <2>2
    <3> QED
      BY <1>4, <3>1
  <2> QED
    BY <2>1, <2>2
<1> HIDE DEF Is, p
<1> QED
  BY <1>1, <1>3, <1>4

\* A joiner that has accepted is in its topology, where LocalPlayerIndex finds it.
LEMMA FindingFollows ==
  ASSUME GatheringInvariant
  PROVE  JoinersFindThemselves
<1> SUFFICES ASSUME NEW s \in Joiners, joiner[s].net \in {"waiting", "starting_up", "active"}
             PROVE  /\ Cardinality({i \in DOMAIN joiner[s].players :
                                      joiner[s].players[i].identifier = joiner[s].identifier}) = 1
                    /\ joiner[s].players[LocalPlayerIndex(joiner[s])].stream \in {0, s}
  BY DEF JoinersFindThemselves
<1> DEFINE j == joiner[s]
<1>1. j \in JoinerRecords /\ \E i \in Nat : Knows(s, i, j)
  BY TalkHolds
<1>2. j.net \in {"waiting", "starting_up", "active"}
  OBVIOUS
<1> HIDE DEF j
<1>3. PICK i \in Nat : j.identifier = i /\ FindsItself(j.players, i, s)
  BY <1>1, <1>2 DEF Knows
<1>4. PICK k \in DOMAIN j.players :
        /\ j.players[k].identifier = j.identifier /\ j.players[k].stream \in {0, s}
        /\ \A l \in DOMAIN j.players : j.players[l].identifier = j.identifier => l = k
  BY <1>3 DEF FindsItself
<1>5. {l \in DOMAIN j.players : j.players[l].identifier = j.identifier} = {k}
  BY <1>4
<1>6. Cardinality({k}) = 1
  BY FS_Singleton
<1>7. j.players \in Seq(Players)
  BY <1>1 DEF JoinerRecords
<1>8. LocalPlayerIndex(j) = k
  BY <1>4, <1>7, LocalPlayerIsFound
<1>9. j.players[LocalPlayerIndex(j)].stream \in {0, s}
  BY <1>4, <1>8
<1> QED
  BY <1>5, <1>6, <1>9 DEF j

\* Who is in the game has what the gatherer has.
LEMMA StartFollows ==
  ASSUME GatheringInvariant
  PROVE  StartedAlike
<1> SUFFICES ASSUME NEW s \in Joiners, joiner[s].net \in {"starting_up", "active"}
             PROVE  /\ gatherer.net = "active" /\ joiner[s].players = gatherer.players
                    /\ joiner[s].session
  BY DEF StartedAlike
<1> DEFINE j == joiner[s]
           c == gatherer.clients[s]
           pend == j.inbox \o (toJoiner[s] \o gatherer.out[s])
<1>1. PICK i \in Nat :
        /\ s \in linked => Linked(s, i, c, gatherer.players, pend, toGatherer[s], j)
        /\ s \notin linked =>
             Leaves(s, i, c, gatherer.net, gatherer.players, toGatherer[s], j)
  BY TalkHolds
<1>2. c = "in_game" => gatherer.net = "active"
  BY TalkHolds
<1> HIDE DEF c, pend
<1>3. CASE s \in linked
  <2>1. Plays(c, gatherer.players, pend, toGatherer[s], j)
    BY <1>1, <1>3 DEF Linked, Greets, Introduces, Accepts, Waits
  <2> QED
    BY <1>2, <2>1 DEF Plays
<1>4. CASE s \notin linked
  BY <1>1, <1>4 DEF Leaves
<1> QED
  BY <1>3, <1>4

\* The players change in the dialog only: in the game, nothing that is dispatched adds or
\* drops one.
LEMMA PlayersStay ==
  ASSUME GatheringInvariant, [GatheringNext]_gatheringVars, gatherer'.players # gatherer.players
  PROVE  gatherer.net = "gathering"
<1>1. gatherer' # gatherer
  OBVIOUS
<1>2. CASE Idle \/ StartGameHit \/ CancelGather \/ \E s \in Joiners : GatheredPlayer(s)
  BY <1>2 DEF Idle, IdleWith, StartGameHit, CancelGather, GatheredPlayer
<1>3. CASE GathererInGame
  <2>1. PICK done \in Gatherers : gatherer' = OffTheWire(done) /\ done.players = gatherer.players
    BY <1>3, InGameRoundFits
  <2>2. gatherer'.players = done.players
    BY <2>1 DEF OffTheWire
  <2> QED
    BY <2>1, <2>2
<1>4. ASSUME NEW s \in Joiners, JoinerStep(s) PROVE gatherer' = gatherer
  BY <1>4 DEF JoinerStep, Connects, JoinerLosesConnection, JoinerGivesUp, Quits, JoinerUpdates,
              JoinerJoins, JoinerWaits, JoinerStartsUp, JoinerInGame
<1> QED
  BY <1>1, <1>2, <1>3, <1>4 DEF GatheringNext, gatheringVars

----------------------------------------------------------------------------
(* The properties, of every behaviour in which PLAY is not pressed while an *)
(* answer is awaited.                                                       *)

\* The dialogs' state stays among its values, and nobody is sent a second message before he
\* has answered the first.
THEOREM GatheringIsTyped ==
  ASSUME ~ StartsAhead
  PROVE  GatheringSpec => []GatheringTypeOK
<1>1. GatheringInvariant => GatheringTypeOK
  BY TypesFollow
<1> QED
  BY <1>1, GatheringIsInvariant, PTL

\* The list offers those who are connected, and PLAY can be pressed as long as there is
\* company.
THEOREM DialogsAgree ==
  ASSUME ~ StartsAhead
  PROVE  GatheringSpec => []DialogAgrees
<1>1. GatheringInvariant => DialogAgrees
  BY DialogFollows
<1> QED
  BY <1>1, GatheringIsInvariant, PTL

\* The topology holds the gatherer and those who have accepted and not left, each once.
THEOREM AcceptedPlay ==
  ASSUME ~ StartsAhead
  PROVE  GatheringSpec => []PlayersAreTheAccepted
<1>1. GatheringInvariant => PlayersAreTheAccepted
  BY PlayersFollow
<1> QED
  BY <1>1, GatheringIsInvariant, PTL

\* Who waits has the gatherer's topology, or it is under way to him.
THEOREM WaitersAgree ==
  ASSUME ~ StartsAhead
  PROVE  GatheringSpec => []WaitersWillAgree
<1>1. GatheringInvariant => WaitersWillAgree
  BY WaitersFollow
<1> QED
  BY <1>1, GatheringIsInvariant, PTL

\* Who is handed a topology is waiting for it.
THEOREM TopologiesExpected ==
  ASSUME ~ StartsAhead
  PROVE  GatheringSpec => []TopologiesAreExpected
<1>1. GatheringInvariant => TopologiesAreExpected
  BY ExpectationFollows
<1> QED
  BY <1>1, GatheringIsInvariant, PTL

\* A gathered joiner finds itself in its topology, once.
THEOREM JoinersFound ==
  ASSUME ~ StartsAhead
  PROVE  GatheringSpec => []JoinersFindThemselves
<1>1. GatheringInvariant => JoinersFindThemselves
  BY FindingFollows
<1> QED
  BY <1>1, GatheringIsInvariant, PTL

\* All who get into the game have the gatherer's topology and the session.
THEOREM PlayersStartAlike ==
  ASSUME ~ StartsAhead
  PROVE  GatheringSpec => []StartedAlike
<1>1. GatheringInvariant => StartedAlike
  BY StartFollows
<1> QED
  BY <1>1, GatheringIsInvariant, PTL

\* The topology that a game is played with does not change under it.
THEOREM TopologySettles ==
  ASSUME ~ StartsAhead
  PROVE  GatheringSpec => TopologyIsSettled
<1>1. GatheringInvariant /\ [GatheringNext]_gatheringVars =>
        [gatherer'.players # gatherer.players => gatherer.net = "gathering"]_gatheringVars
  BY PlayersStay
<1> QED
  BY <1>1, GatheringIsInvariant, PTL DEF GatheringSpec, TopologyIsSettled
=============================================================================
