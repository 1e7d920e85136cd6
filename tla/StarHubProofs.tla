--------------------------- MODULE StarHubProofs ---------------------------
(* The housekeeping of the hub, for any number of players, any queue size and   *)
(* any limits: as long as anybody is in the game its asserts never fail, and    *)
(* nothing that may have to be sent again is thrown away.                       *)
EXTENDS StarHub, FiniteSetTheorems, WellFoundedInduction, TLAPS

-----------------------------------------------------------------------------
(* Arithmetic: least numbers and intervals.                                  *)

\* A non-empty set of naturals has a least element.
LEMMA LeastNatural ==
  ASSUME NEW T \in SUBSET Nat, T # {}
  PROVE  \E x \in T : \A y \in T : x <= y
<1>1. \E x \in T : \A y \in T : ~ (<<y, x>> \in OpToRel(<, Nat))
  BY NatLessThanWellFounded, WFMin
<1>2. PICK x \in T : \A y \in T : ~ (<<y, x>> \in OpToRel(<, Nat))
  BY <1>1
<1>3. ASSUME NEW y \in T PROVE x <= y
  <2>1. <<y, x>> \in Nat \X Nat
    OBVIOUS
  <2>2. ~ (y < x)
    BY <1>2, <2>1 DEF OpToRel
  <2> QED BY <2>1, <2>2
<1> QED BY <1>2, <1>3

\* A downward closed part of an interval is an interval from the same start.
LEMMA DownwardClosed ==
  ASSUME NEW lo \in Int, NEW hi \in Int, lo <= hi,
         NEW S \in SUBSET (lo .. hi - 1),
         \A t \in S : \A u \in lo .. t : u \in S
  PROVE  \E n \in lo .. hi : S = lo .. n - 1
<1> DEFINE T == {k \in Nat : lo + k <= hi /\ lo + k \notin S}
<1>1. hi - lo \in T
  OBVIOUS
<1>2. PICK k \in T : \A j \in T : k <= j
  BY <1>1, LeastNatural
<1>3. ASSUME NEW t \in lo .. (lo + k) - 1 PROVE t \in S
  <2>1. t - lo \in Nat /\ t - lo < k /\ lo + (t - lo) = t
    BY <1>2
  <2>2. t - lo \notin T
    BY <2>1, <1>2
  <2> QED BY <2>1, <2>2, <1>2
<1>4. ASSUME NEW t \in S PROVE t \in lo .. (lo + k) - 1
  BY <1>2
<1>5. k \in Nat /\ lo + k \in lo .. hi
  BY <1>2
<1>6. S = lo .. (lo + k) - 1
  <2> HIDE DEF T
  <2> QED BY <1>3, <1>4, <1>5
<1> QED BY <1>5, <1>6

\* The tick past the end of an interval.
LEMMA PastEndOfInterval ==
  ASSUME NEW lo \in Int, NEW n \in Int, lo <= n
  PROVE  PastEnd(lo .. n - 1, lo) = n
<1>1. CASE lo = n
  BY <1>1 DEF PastEnd
<1>2. CASE lo < n
  <2> DEFINE S == lo .. n - 1
  <2>1. n - 1 \in S /\ \A t \in S : t <= n - 1
    BY <1>2
  <2>2. ASSUME NEW m \in S, \A t \in S : t <= m PROVE m = n - 1
    BY <2>1, <2>2
  <2>3. (CHOOSE m \in S : \A t \in S : t <= m) = n - 1
    BY <2>1, <2>2
  <2> QED BY <2>1, <2>3 DEF PastEnd
<1> QED BY <1>1, <1>2

\* A non-empty set of ticks of an interval has a last one.
LEMMA LastOfInterval ==
  ASSUME NEW lo \in Int, NEW hi \in Int, NEW S \in SUBSET (lo .. hi), S # {}
  PROVE  \E m \in S : \A t \in S : t <= m
<1> DEFINE T == {k \in Nat : hi - k \in S}
<1>1. T \in SUBSET Nat /\ T # {}
  <2>1. PICK i \in S : TRUE
    OBVIOUS
  <2>2. hi - i \in Nat /\ hi - (hi - i) = i
    BY <2>1
  <2>3. hi - i \in T
    BY <2>2
  <2> QED BY <2>3
<1>2. PICK k \in T : \A j \in T : k <= j
  <2> HIDE DEF T
  <2> QED BY <1>1, LeastNatural
<1>3. hi - k \in S /\ k \in Nat
  OBVIOUS
<1>4. ASSUME NEW j \in S PROVE j <= hi - k
  <2>1. j \in Int /\ hi - j \in Nat /\ hi - (hi - j) = j
    OBVIOUS
  <2>2. hi - j \in T
    BY <2>1
  <2>3. k <= hi - j
    BY <1>2, <2>2
  <2> QED BY <1>3, <2>1, <2>3
<1> HIDE DEF T
<1> QED BY <1>3, <1>4

\* Some players who are not nobody have a first and a last.
LEMMA FirstAndLast ==
  ASSUME NEW S \in SUBSET Players, S # {}
  PROVE  /\ \E i \in S : \A j \in S : i <= j
         /\ \E i \in S : \A j \in S : j <= i
<1>1. S \in SUBSET Nat /\ NumPlayers - 1 \in Int /\ S \in SUBSET (0 .. NumPlayers - 1)
  BY HubConstants DEF Players
<1>2. \E i \in S : \A j \in S : i <= j
  BY <1>1, LeastNatural
<1>3. \E i \in S : \A j \in S : j <= i
  BY <1>1, LastOfInterval
<1> QED BY <1>2, <1>3

\* The tick past the end of a part of an interval lies in it, or is where it starts from.
LEMMA PastEndOfPart ==
  ASSUME NEW lo \in Int, NEW hi \in Int, NEW S \in SUBSET (lo .. hi - 1), NEW start \in Int
  PROVE  /\ S = {} => PastEnd(S, start) = start
         /\ S # {} => PastEnd(S, start) \in Int /\ lo < PastEnd(S, start) /\ PastEnd(S, start) <= hi
<1>1. S = {} => PastEnd(S, start) = start
  BY DEF PastEnd
<1>2. ASSUME S # {}
      PROVE  PastEnd(S, start) \in Int /\ lo < PastEnd(S, start) /\ PastEnd(S, start) <= hi
  <2>1. \E m \in S : \A t \in S : t <= m
    <3>1. hi - 1 \in Int
      OBVIOUS
    <3> QED BY <1>2, <3>1, LastOfInterval
  <2> DEFINE last == CHOOSE m \in S : \A t \in S : t <= m
  <2>2. last \in S
    BY <2>1
  <2>3. PastEnd(S, start) = 1 + last
    BY <1>2 DEF PastEnd
  <2> HIDE DEF last
  <2> QED BY <2>2, <2>3
<1> QED BY <1>1, <1>2

-----------------------------------------------------------------------------
(* What the two bookkeeping routines do to a disposition queue that is exact. *)

LEMMA Constants ==
  /\ Horizon \in Int /\ FirstTick \in Int /\ StartingTick \in Int
  /\ QueueSize \in Nat /\ QueueSize > 0 /\ NumPlayers \in Nat /\ NumPlayers > 0
  /\ FirstTick <= Horizon
  /\ Ticks \subseteq Int /\ Players \subseteq Int /\ NONE \notin Players /\ NumPlayers \notin Players
  /\ \A t \in Int : t \in Ticks <=> FirstTick <= t /\ t < Horizon
BY HubConstants DEF Ticks, Players, FirstTick, NONE

\* player_acknowledged_up_to_tick: p's acknowledgement up to ack of a queue that waits,
\* below the incomplete tick, exactly for the players of C who have not acknowledged,
CanAcknowledge(d, C, p, ack) ==
  /\ d \in [Ticks -> SUBSET Players] /\ C \in SUBSET Players /\ p \in C /\ ack \in Int
  /\ smallestUnacknowledgedTick[p] <= ack /\ ack <= smallestIncompleteTick
  /\ \A i \in C : /\ dispositionReadTick <= smallestUnacknowledgedTick[i]
                  /\ smallestUnacknowledgedTick[i] <= smallestIncompleteTick
  /\ \A t \in Ticks : dispositionReadTick <= t /\ t < smallestIncompleteTick =>
       /\ d[t] = {i \in C : smallestUnacknowledgedTick[i] <= t}
       /\ d[t] # {}

\* and what it comes to: a, with the acknowledgements acks.
HasAcknowledged(d, C, a, acks) ==
  /\ a.failed \in SUBSET {963, 988}
  /\ a.read \in Int /\ dispositionReadTick <= a.read /\ a.read <= smallestIncompleteTick
  /\ a.disposition \in [Ticks -> SUBSET Players]
  /\ \A i \in C : a.read <= acks[i]
  /\ \A t \in Ticks : a.read <= t /\ t < smallestIncompleteTick =>
       /\ a.disposition[t] = {i \in C : acks[i] <= t}
       /\ a.disposition[t] # {}
  /\ \A t \in Ticks : smallestIncompleteTick <= t => a.disposition[t] = d[t]
  /\ a.flags = [i \in Players |-> Smaller(a.read, flagsWriteTick[i])]

LEMMA AcknowledgedBooks ==
  ASSUME TypeOK, QueuesLineUp, NEW d, NEW C, NEW p, NEW ack, CanAcknowledge(d, C, p, ack)
  PROVE  HasAcknowledged(d, C, Acknowledged(d, p, ack),
                         [smallestUnacknowledgedTick EXCEPT ![p] = ack])
<1> USE DEF CanAcknowledge
<1> DEFINE a == Acknowledged(d, p, ack)
           acks == [smallestUnacknowledgedTick EXCEPT ![p] = ack]
<1> DEFINE lo == smallestUnacknowledgedTick[p]
           after == ClearBit(d, p, lo, ack)
           done == NobodyAwaited(after, lo, ack)
           read == PastEnd(done, dispositionReadTick)
<1>1. /\ lo \in Int /\ dispositionReadTick \in Int /\ smallestIncompleteTick \in Int
      /\ FirstTick <= dispositionReadTick /\ smallestIncompleteTick <= Horizon
      /\ dispositionReadTick <= lo /\ lo <= ack
      /\ \A i \in C : smallestUnacknowledgedTick[i] \in Int
  BY Constants DEF TypeOK
<1>2. \A t \in lo .. ack - 1 : t \in Ticks /\ t \in Int /\ lo <= t /\ t < ack
                               /\ dispositionReadTick <= t /\ t < smallestIncompleteTick
  BY <1>1, Constants
<1>3. /\ after \in [Ticks -> SUBSET Players]
      /\ \A t \in Ticks : after[t] = IF lo <= t /\ t < ack THEN d[t] \ {p} ELSE d[t]
  BY DEF ClearBit
<1>4. \A t \in lo .. ack - 1 : p \in d[t]
  BY <1>1, <1>2
<1>5. /\ done \subseteq lo .. ack - 1
      /\ \A t \in lo .. ack - 1 :
           t \in done <=> \A i \in C : i # p => smallestUnacknowledgedTick[i] > t
  <2>1. done \subseteq lo .. ack - 1
    BY DEF NobodyAwaited
  <2>2. ASSUME NEW t \in lo .. ack - 1
        PROVE  t \in done <=> \A i \in C : i # p => smallestUnacknowledgedTick[i] > t
    <3>1. t \in done <=> d[t] \ {p} = {}
      BY <1>2, <1>3 DEF NobodyAwaited
    <3>2. d[t] = {i \in C : smallestUnacknowledgedTick[i] <= t}
      BY <1>2
    <3>3. \A i \in C : smallestUnacknowledgedTick[i] > t <=> ~ (smallestUnacknowledgedTick[i] <= t)
      BY <1>1, <1>2
    <3> QED BY <3>1, <3>2, <3>3
  <2> QED BY <2>1, <2>2
<1>6. ASSUME done # {} PROVE lo = dispositionReadTick
  <2>1. PICK t \in done : TRUE
    BY <1>6
  <2>2. t \in lo .. ack - 1 /\ \A i \in C : i # p => smallestUnacknowledgedTick[i] > t
    BY <2>1, <1>5
  <2>3. SUFFICES ASSUME dispositionReadTick < lo PROVE FALSE
    BY <1>1
  <2>4. dispositionReadTick \in Ticks /\ dispositionReadTick < smallestIncompleteTick
    BY <1>1, <1>2, <2>2, <2>3, Constants
  <2>5. PICK i \in C : smallestUnacknowledgedTick[i] <= dispositionReadTick
    BY <1>1, <2>4
  <2>6. i # p
    BY <1>1, <2>3, <2>5
  <2>7. smallestUnacknowledgedTick[i] > t
    BY <2>2, <2>6
  <2> QED BY <1>1, <1>2, <2>2, <2>3, <2>5, <2>7
<1>7. /\ read \in Int /\ dispositionReadTick <= read /\ read <= smallestIncompleteTick
      /\ done = dispositionReadTick .. read - 1
      /\ done # {} => read <= ack
  <2>1. CASE done = {}
    <3>1. read = dispositionReadTick
      BY <2>1 DEF PastEnd
    <3>2. dispositionReadTick .. dispositionReadTick - 1 = {}
      BY <1>1
    <3> QED BY <1>1, <2>1, <3>1, <3>2
  <2>2. CASE done # {}
    <3>1. lo = dispositionReadTick
      BY <1>6, <2>2
    <3>2. ASSUME NEW t \in done, NEW u \in lo .. t PROVE u \in done
      <4>1. u \in lo .. ack - 1 /\ u <= t /\ t \in lo .. ack - 1 /\ u \in Int /\ t \in Int
        BY <1>1, <1>5
      <4>2. \A i \in C : i # p => smallestUnacknowledgedTick[i] > t
        BY <1>5, <4>1
      <4>3. \A i \in C : i # p => smallestUnacknowledgedTick[i] > u
        BY <1>1, <4>1, <4>2
      <4> QED BY <1>5, <4>1, <4>3
    <3>3. PICK n \in lo .. ack : done = lo .. n - 1
      <4>1. done \in SUBSET (lo .. ack - 1)
        BY <1>5
      <4>2. \A t \in done : \A u \in lo .. t : u \in done
        BY <3>2
      <4>3. lo \in Int /\ ack \in Int /\ lo <= ack
        BY <1>1
      <4> HIDE DEF done, lo
      <4>4. \A S \in SUBSET (lo .. ack - 1) :
              (\A t \in S : \A u \in lo .. t : u \in S) => \E n \in lo .. ack : S = lo .. n - 1
        BY <4>3, DownwardClosed
      <4> QED BY <4>1, <4>2, <4>4
    <3>4. read = n
      BY <1>1, <3>1, <3>3, PastEndOfInterval
    <3> QED BY <1>1, <3>1, <3>3, <3>4
  <2> QED BY <2>1, <2>2
<1>8. a = [disposition |-> after, read |-> read, flags |-> DequeuedFlags(read),
           failed |-> a.failed]
  BY DEF Acknowledged
<1>9. a.failed \in SUBSET {963, 988}
  <2>1. \A l \in a.failed : l \in {959, 963, 983, 988, 994}
    BY DEF Acknowledged
  <2>2. 959 \notin a.failed
    BY <1>4 DEF Acknowledged
  <2>3. 983 \notin a.failed
    BY <1>7 DEF Acknowledged
  <2>4. \A i \in Players : flagsReadTick[i] < flagsWriteTick[i] => flagsReadTick[i] = dispositionReadTick
    BY DEF QueuesLineUp, Smaller, TypeOK
  <2>5. 994 \notin a.failed
    BY <2>4 DEF Acknowledged
  <2> QED BY <2>1, <2>2, <2>3, <2>5
<1>10. \A i \in C : acks[i] = IF i = p THEN ack ELSE smallestUnacknowledgedTick[i]
  BY DEF TypeOK
<1>11. ASSUME NEW t \in Ticks, read <= t, t < smallestIncompleteTick
       PROVE  /\ after[t] = {i \in C : acks[i] <= t}
              /\ after[t] # {}
  <2>1. t \in Int /\ dispositionReadTick <= t
    BY <1>1, <1>7, <1>11, Constants
  <2>2. d[t] = {i \in C : smallestUnacknowledgedTick[i] <= t} /\ d[t] # {}
    BY <1>11, <2>1
  <2>3. CASE lo <= t /\ t < ack
    <3>1. after[t] = d[t] \ {p}
      BY <1>3, <2>3
    <3>2. t \in lo .. ack - 1 /\ t \notin done
      BY <1>1, <1>7, <1>11, <2>1, <2>3
    <3>3. after[t] # {}
      BY <3>2 DEF NobodyAwaited
    <3> QED BY <1>1, <1>10, <2>1, <2>2, <2>3, <3>1, <3>3
  <2>4. CASE ~ (lo <= t /\ t < ack)
    <3>1. after[t] = d[t]
      BY <1>3, <2>4
    <3>2. lo <= t <=> ack <= t
      BY <1>1, <2>1, <2>4
    <3> QED BY <1>1, <1>10, <2>1, <2>2, <3>1, <3>2
  <2> QED BY <2>3, <2>4
<1>12. ASSUME NEW i \in C PROVE read <= acks[i]
  <2>1. CASE done = {}
    <3>1. read = dispositionReadTick
      BY <2>1 DEF PastEnd
    <3> QED BY <1>1, <1>10, <3>1
  <2>2. CASE done # {} /\ i = p
    BY <1>7, <1>10, <2>2
  <2>3. CASE done # {} /\ i # p
    <3>1. dispositionReadTick < read
      BY <1>1, <1>7, <2>3
    <3>2. read - 1 \in done /\ read - 1 \in lo .. ack - 1
      BY <1>1, <1>5, <1>7, <3>1
    <3>3. smallestUnacknowledgedTick[i] > read - 1
      BY <1>5, <2>3, <3>2
    <3> QED BY <1>1, <1>7, <1>10, <2>3, <3>3
  <2> QED BY <2>1, <2>2, <2>3
<1>13. DequeuedFlags(read) = [i \in Players |-> Smaller(read, flagsWriteTick[i])]
  <2>1. ASSUME NEW i \in Players
        PROVE  (IF flagsReadTick[i] < flagsWriteTick[i]
                THEN Smaller(flagsReadTick[i] + read - dispositionReadTick, flagsWriteTick[i])
                ELSE flagsReadTick[i]) = Smaller(read, flagsWriteTick[i])
    <3> HIDE DEF read
    <3>1. /\ flagsReadTick[i] \in Int /\ flagsWriteTick[i] \in Int
          /\ flagsReadTick[i] = Smaller(dispositionReadTick, flagsWriteTick[i])
      BY DEF TypeOK, QueuesLineUp
    <3> QED BY <1>1, <1>7, <3>1 DEF Smaller
  <2> QED BY <2>1 DEF DequeuedFlags
<1>14. ASSUME NEW t \in Ticks, smallestIncompleteTick <= t PROVE after[t] = d[t]
  <2>1. t \in Int /\ ~ (t < ack)
    BY <1>1, <1>14, Constants
  <2> QED BY <1>3, <2>1
<1>15. /\ a.disposition = after /\ a.read = read
       /\ a.flags = [i \in Players |-> Smaller(read, flagsWriteTick[i])]
  BY <1>8, <1>13
<1> HIDE DEF after, read, done, a, acks
<1>16. HasAcknowledged(d, C, a, acks)
  BY <1>3, <1>7, <1>9, <1>11, <1>12, <1>14, <1>15 DEF HasAcknowledged
<1> QED BY <1>16 DEF a, acks

\* player_provided_flags_from_tick_to_tick: p's flags up to hi, for a queue that waits, from
\* the incomplete tick on, exactly for the players of C without flags.  C is the connected
\* players, and p himself when it is his death that is being booked.
CanProvide(d, C, p, hi) ==
  /\ d \in [Ticks -> SUBSET Players] /\ C \in SUBSET Players /\ p \in C /\ hi \in Int
  /\ C \ {p} = connected \ {p}
  /\ flagsWriteTick[p] <= hi /\ hi <= Horizon
  /\ hi <= dispositionWriteTick \/ C = connected
  /\ \A i \in C : smallestIncompleteTick <= flagsWriteTick[i]
  /\ \A t \in Ticks : smallestIncompleteTick <= t /\ t < dispositionWriteTick =>
       /\ d[t] = {i \in C : flagsWriteTick[i] <= t}
       /\ d[t] # {}

\* What that comes to: b, with the write ticks written.
HasProvided(d, C, hi, b, written) ==
  /\ b.failed = {}
  /\ b.completes \in BOOLEAN
  /\ b.incomplete \in Int /\ smallestIncompleteTick <= b.incomplete
  /\ b.incomplete <= dispositionWriteTick \/ b.incomplete <= hi
  /\ b.disposition \in [Ticks -> SUBSET Players]
  /\ \A i \in C : b.incomplete <= written[i]
  /\ \A t \in Ticks : t < smallestIncompleteTick => b.disposition[t] = d[t]
  /\ \A t \in Ticks : smallestIncompleteTick <= t /\ t < b.incomplete => b.disposition[t] = connected
  /\ \A t \in Ticks : b.incomplete <= t /\ (t < dispositionWriteTick \/ t < hi) =>
       /\ b.disposition[t] = {i \in C : written[i] <= t}
       /\ b.disposition[t] # {}

LEMMA ProvidedBooks ==
  ASSUME TypeOK, QueuesLineUp, NEW d, NEW C, NEW p, NEW hi, CanProvide(d, C, p, hi)
  PROVE  HasProvided(d, C, hi, Provided(d, p, flagsWriteTick[p], hi),
                     [flagsWriteTick EXCEPT ![p] = hi])
<1> USE DEF CanProvide
<1> DEFINE b == Provided(d, p, flagsWriteTick[p], hi)
           written == [flagsWriteTick EXCEPT ![p] = hi]
<1> DEFINE lo == flagsWriteTick[p]
           grown == [t \in Ticks |-> IF dispositionWriteTick <= t /\ t < hi THEN connected ELSE d[t]]
           after == ClearBit(grown, p, lo, hi)
           done == NobodyAwaited(after, lo, hi)
           next == PastEnd(done, smallestIncompleteTick)
           end == AwaitAcks(after, done)
<1>1. /\ lo \in Int /\ smallestIncompleteTick \in Int /\ dispositionWriteTick \in Int
      /\ FirstTick <= smallestIncompleteTick /\ smallestIncompleteTick <= lo
      /\ lo <= dispositionWriteTick /\ dispositionWriteTick <= Horizon /\ lo <= hi
      /\ connected \in SUBSET Players
      /\ \A i \in C : flagsWriteTick[i] \in Int /\ flagsWriteTick[i] <= dispositionWriteTick
  BY Constants DEF TypeOK, QueuesLineUp
<1>2. \A t \in lo .. hi - 1 : t \in Ticks /\ t \in Int /\ lo <= t /\ t < hi
                              /\ smallestIncompleteTick <= t
  BY <1>1, Constants
<1>3. ASSUME NEW t \in Ticks, smallestIncompleteTick <= t, t < dispositionWriteTick \/ t < hi
      PROVE  grown[t] = {i \in C : flagsWriteTick[i] <= t}
  <2>1. t \in Int
    BY Constants
  <2>2. CASE t < dispositionWriteTick
    <3>1. grown[t] = d[t]
      BY <1>1, <2>1, <2>2
    <3> QED BY <1>3, <2>2, <3>1
  <2>3. CASE ~ (t < dispositionWriteTick)
    <3>1. grown[t] = connected /\ C = connected
      BY <1>1, <1>3, <2>1, <2>3
    <3>2. \A i \in C : flagsWriteTick[i] <= t
      BY <1>1, <2>1, <2>3
    <3> QED BY <3>1, <3>2
  <2> QED BY <2>2, <2>3
<1>4. /\ grown \in [Ticks -> SUBSET Players]
      /\ after \in [Ticks -> SUBSET Players]
      /\ \A t \in Ticks : after[t] = IF lo <= t /\ t < hi THEN grown[t] \ {p} ELSE grown[t]
      /\ end \in [Ticks -> SUBSET Players]
      /\ \A t \in Ticks : end[t] = IF t \in done THEN connected ELSE after[t]
  <2>1. grown \in [Ticks -> SUBSET Players]
    BY <1>1
  <2>2. /\ after \in [Ticks -> SUBSET Players]
        /\ \A t \in Ticks : after[t] = IF lo <= t /\ t < hi THEN grown[t] \ {p} ELSE grown[t]
    <3> HIDE DEF grown
    <3> QED BY <2>1 DEF ClearBit
  <2> HIDE DEF after, done
  <2>3. /\ end \in [Ticks -> SUBSET Players]
        /\ \A t \in Ticks : end[t] = IF t \in done THEN connected ELSE after[t]
    BY <1>1, <2>2 DEF AwaitAcks
  <2> QED BY <2>1, <2>2, <2>3
<1> HIDE DEF grown
<1>5. /\ done \subseteq lo .. hi - 1
      /\ \A t \in lo .. hi - 1 :
           t \in done <=> \A i \in C : i # p => flagsWriteTick[i] > t
  <2>1. done \subseteq lo .. hi - 1
    BY DEF NobodyAwaited
  <2>2. ASSUME NEW t \in lo .. hi - 1
        PROVE  t \in done <=> \A i \in C : i # p => flagsWriteTick[i] > t
    <3>1. t \in done <=> grown[t] \ {p} = {}
      BY <1>2, <1>4 DEF NobodyAwaited
    <3>2. grown[t] = {i \in C : flagsWriteTick[i] <= t}
      BY <1>2, <1>3
    <3>3. \A i \in C : flagsWriteTick[i] > t <=> ~ (flagsWriteTick[i] <= t)
      BY <1>1, <1>2
    <3> QED BY <3>1, <3>2, <3>3
  <2> QED BY <2>1, <2>2
<1>6. ASSUME done # {} PROVE lo = smallestIncompleteTick
  <2>1. PICK t \in done : TRUE
    BY <1>6
  <2>2. t \in lo .. hi - 1 /\ \A i \in C : i # p => flagsWriteTick[i] > t
    BY <2>1, <1>5
  <2>3. SUFFICES ASSUME smallestIncompleteTick < lo PROVE FALSE
    BY <1>1
  <2>4. smallestIncompleteTick \in Ticks /\ smallestIncompleteTick < dispositionWriteTick
    BY <1>1, <1>2, <2>2, <2>3, Constants
  <2>5. PICK i \in C : flagsWriteTick[i] <= smallestIncompleteTick
    BY <1>1, <2>4
  <2>6. i # p
    BY <1>1, <2>3, <2>5
  <2>7. flagsWriteTick[i] > t
    BY <2>2, <2>6
  <2> QED BY <1>1, <1>2, <2>2, <2>3, <2>5, <2>7
<1>7. /\ next \in Int /\ smallestIncompleteTick <= next
      /\ next <= dispositionWriteTick \/ next <= hi
      /\ done = smallestIncompleteTick .. next - 1
      /\ next <= hi
  <2>1. CASE done = {}
    <3>1. next = smallestIncompleteTick
      BY <2>1 DEF PastEnd
    <3>2. smallestIncompleteTick .. smallestIncompleteTick - 1 = {}
      BY <1>1
    <3> QED BY <1>1, <2>1, <3>1, <3>2
  <2>2. CASE done # {}
    <3>1. lo = smallestIncompleteTick
      BY <1>6, <2>2
    <3>2. ASSUME NEW t \in done, NEW u \in lo .. t PROVE u \in done
      <4>1. u \in lo .. hi - 1 /\ u <= t /\ t \in lo .. hi - 1 /\ u \in Int /\ t \in Int
        BY <1>1, <1>5
      <4>2. \A i \in C : i # p => flagsWriteTick[i] > t
        BY <1>5, <4>1
      <4>3. \A i \in C : i # p => flagsWriteTick[i] > u
        BY <1>1, <4>1, <4>2
      <4> QED BY <1>5, <4>1, <4>3
    <3>3. PICK n \in lo .. hi : done = lo .. n - 1
      <4>1. done \in SUBSET (lo .. hi - 1)
        BY <1>5
      <4>2. \A t \in done : \A u \in lo .. t : u \in done
        BY <3>2
      <4>3. lo \in Int /\ hi \in Int /\ lo <= hi
        BY <1>1
      <4> HIDE DEF done, lo
      <4>4. \A S \in SUBSET (lo .. hi - 1) :
              (\A t \in S : \A u \in lo .. t : u \in S) => \E n \in lo .. hi : S = lo .. n - 1
        BY <4>3, DownwardClosed
      <4> QED BY <4>1, <4>2, <4>4
    <3>4. next = n
      BY <1>1, <3>1, <3>3, PastEndOfInterval
    <3> QED BY <1>1, <3>1, <3>3, <3>4
  <2> QED BY <2>1, <2>2
<1>8. b = [disposition |-> end, incomplete |-> next, completes |-> (done # {}),
           failed |-> b.failed]
  BY DEF Provided, grown
<1>9. b.failed = {}
  <2>1. \A l \in b.failed : l \in {1097, 1109}
    BY DEF Provided
  <2>2. \A t \in lo .. hi - 1 : p \in grown[t]
    BY <1>1, <1>2, <1>3
  <2>3. 1097 \notin b.failed
    <3>1. b.failed = {l \in {1097, 1109} :
                        \/ l = 1097 /\ \E t \in lo .. hi - 1 : p \notin grown[t]
                        \/ l = 1109 /\ done # smallestIncompleteTick .. next - 1}
      BY DEF Provided, grown
    <3> HIDE DEF b, done, next
    <3> QED BY <2>2, <3>1
  <2>4. 1109 \notin b.failed
    BY <1>7 DEF Provided, grown
  <2> QED BY <2>1, <2>3, <2>4
<1>10. \A i \in C : written[i] = IF i = p THEN hi ELSE flagsWriteTick[i]
  BY DEF TypeOK
<1>11. ASSUME NEW t \in Ticks, next <= t, t < dispositionWriteTick \/ t < hi
       PROVE  /\ end[t] = {i \in C : written[i] <= t}
              /\ end[t] # {}
  <2>1. t \in Int /\ smallestIncompleteTick <= t /\ t \notin done
    BY <1>1, <1>7, <1>11, Constants
  <2>2. end[t] = after[t] /\ grown[t] = {i \in C : flagsWriteTick[i] <= t}
    BY <1>3, <1>4, <1>11, <2>1
  <2>3. CASE lo <= t /\ t < hi
    <3>1. after[t] = grown[t] \ {p}
      BY <1>4, <2>3
    <3>2. t \in lo .. hi - 1
      BY <1>1, <2>1, <2>3
    <3>3. after[t] # {}
      BY <2>1, <3>2 DEF NobodyAwaited
    <3> QED BY <1>1, <1>10, <2>1, <2>2, <2>3, <3>1, <3>3
  <2>4. CASE ~ (lo <= t /\ t < hi)
    <3>0. after[t] = grown[t]
      BY <1>4, <2>4
    <3>1. after[t] = grown[t] /\ (lo <= t <=> hi <= t)
      BY <1>1, <2>1, <2>4, <3>0
    <3>2. t < dispositionWriteTick
      BY <1>1, <1>11, <2>1, <2>4
    <3>3. grown[t] = d[t] /\ d[t] # {}
      BY <1>1, <2>1, <2>2, <3>2
    <3> QED BY <1>1, <1>10, <2>1, <2>2, <3>1, <3>3
  <2> QED BY <2>3, <2>4
<1>12. ASSUME NEW i \in C PROVE next <= written[i]
  <2>1. CASE done = {}
    <3>1. next = smallestIncompleteTick
      BY <2>1 DEF PastEnd
    <3> QED BY <1>1, <1>10, <3>1
  <2>2. CASE done # {} /\ i = p
    BY <1>7, <1>10, <2>2
  <2>3. CASE done # {} /\ i # p
    <3>1. smallestIncompleteTick < next
      BY <1>1, <1>7, <2>3
    <3>2. next - 1 \in done /\ next - 1 \in lo .. hi - 1
      BY <1>1, <1>5, <1>7, <3>1
    <3>3. flagsWriteTick[i] > next - 1
      BY <1>5, <2>3, <3>2
    <3> QED BY <1>1, <1>7, <1>10, <2>3, <3>3
  <2> QED BY <2>1, <2>2, <2>3
<1>13. ASSUME NEW t \in Ticks, t < smallestIncompleteTick PROVE end[t] = d[t]
  <2>1. t \in Int /\ t \notin done /\ ~ (lo <= t) /\ ~ (dispositionWriteTick <= t)
    BY <1>1, <1>7, <1>13, Constants
  <2> QED BY <1>4, <2>1 DEF grown
<1>14. ASSUME NEW t \in Ticks, smallestIncompleteTick <= t, t < next PROVE end[t] = connected
  <2>1. t \in done
    BY <1>1, <1>7, <1>14, Constants
  <2> QED BY <1>4, <2>1
<1>15. /\ b.disposition = end /\ b.incomplete = next /\ b.completes = (done # {})
  BY <1>8
<1> HIDE DEF after, next, done, end, b, written
<1>16. b.completes \in BOOLEAN
  BY <1>15
<1>17. HasProvided(d, C, hi, b, written)
  BY <1>15, <1>16, <1>4, <1>7, <1>9, <1>11, <1>12, <1>13, <1>14 DEF HasProvided
<1> QED BY <1>17 DEF b, written

-----------------------------------------------------------------------------
(* The inductive invariant of the hub.                                       *)

\* Between ticks nobody's death is half booked, and make_player_netdead does not recurse.
LoopState ==
  /\ suspended = NONE
  /\ dying \notin connected
  /\ scan \notin Players => dying = NONE

HubInvariant ==
  /\ TypeOK
  /\ LoopState
  /\ QueuesLineUp
  /\ DispositionIsExact
  /\ HousekeepingAssertsHold

\* A standalone hub that buries its last two players books neither death right; nobody is
\* left then whom that could concern.
NobodyLeft ==
  /\ TypeOK
  /\ Standalone /\ connected = {}
  /\ scan \notin Players => dying = NONE

HubOrNobody == HubInvariant \/ NobodyLeft

\* Before anything is heard all queues are empty and everybody stands at the first tick.
LEMMA InitInvariant == ASSUME Init PROVE HubInvariant
<1>1. /\ connected \in SUBSET Players /\ NONE \notin Players
      /\ Horizon + 1 \in FirstTick .. Horizon + 1 /\ FirstTick \in FirstTick .. Horizon
      /\ FirstTick - 1 \in FirstTick - 1 .. Horizon
  BY Constants DEF Init
<1>2. /\ SilenceCap \in Nat /\ MinimumSendPeriod \in Nat /\ RecoverySendPeriod \in Nat
      /\ 0 \in 0 .. SilenceCap /\ 0 \in 0 .. MinimumSendPeriod /\ 0 \in 0 .. RecoverySendPeriod
  BY HubConstants DEF SilenceCap, Larger
<1>3. TypeOK
  <2>1. referencePlayer \in Players /\ addressKnown \in SUBSET Players
    <3>1. CASE Standalone
      <4>1. connected # {} /\ referencePlayer = CHOOSE i \in connected : \A j \in connected : i <= j
        BY <3>1 DEF Init
      <4>2. \E i \in connected : \A j \in connected : i <= j
        BY <1>1, <4>1, FirstAndLast
      <4>3. referencePlayer \in connected
        BY <4>1, <4>2
      <4> QED BY <1>1, <4>3 DEF Init
    <3>2. CASE ~Standalone
      BY <3>2, HubConstants DEF Init, Standalone
    <3> QED BY <3>1, <3>2
  <2>2. /\ smallestUnacknowledgedTick \in [Players -> FirstTick .. Horizon]
        /\ netDeadTick \in [Players -> FirstTick - 1 .. Horizon]
        /\ silence \in [Players -> 0 .. SilenceCap]
        /\ flagsReadTick \in [Players -> FirstTick .. Horizon]
        /\ flagsWriteTick \in [Players -> FirstTick .. Horizon]
    BY <1>1, <1>2 DEF Init
  <2>3. /\ playerDataDisposition \in [Ticks -> SUBSET Players]
        /\ playerReflectedFlags \in [Ticks -> SUBSET Players]
    BY DEF Init
  <2>4. /\ cleanup \in {"none", "waiting", "done"}
        /\ failedAsserts \in SUBSET {959, 963, 983, 988, 994, 1067, 1089, 1097, 1109}
        /\ laggingPlayers \in SUBSET Players
    BY DEF Init
  <2>7. hubActive \in BOOLEAN /\ died \in BOOLEAN
    BY Zenon DEF Init
  <2>5. /\ smallestPostGameTick \in FirstTick .. Horizon + 1
        /\ dispositionReadTick \in FirstTick .. Horizon
        /\ dispositionWriteTick \in FirstTick .. Horizon
        /\ smallestIncompleteTick \in FirstTick .. Horizon
        /\ smallestUnsentTick \in FirstTick .. Horizon
        /\ sinceRealUpdate \in 0 .. MinimumSendPeriod
        /\ sinceSent \in 0 .. RecoverySendPeriod
    BY <1>1, <1>2 DEF Init
  <2>6. /\ scan \in Players \cup {NONE, NumPlayers}
        /\ dying \in Players \cup {NONE}
        /\ suspended \in Players \cup {NONE}
    BY DEF Init
  <2> QED BY <1>1, <2>1, <2>2, <2>3, <2>4, <2>5, <2>6, <2>7 DEF TypeOK
<1>4. LoopState
  BY <1>1 DEF Init, LoopState
<1>5. QueuesLineUp
  BY <1>1, Constants DEF Init, QueuesLineUp, Smaller, Booked
<1>6. DispositionIsExact
  <2>1. ASSUME NEW t \in Ticks PROVE ~ (FirstTick <= t /\ t < FirstTick)
    BY Constants
  <2> QED BY <2>1 DEF Init, DispositionIsExact
<1>7. HousekeepingAssertsHold
  BY DEF Init, HousekeepingAssertsHold
<1> QED BY <1>3, <1>4, <1>5, <1>6, <1>7 DEF HubInvariant

\* A step that moves no queue and books nobody leaves the queues as they were.
LEMMA QueuesUndisturbed ==
  ASSUME QueuesLineUp, DispositionIsExact, UNCHANGED <<queueVars, smallestUnsentTick>>,
         Booked' = Booked,
         \A i \in Players : i \notin connected' =>
           (i \notin connected /\ netDeadTick'[i] = netDeadTick[i]) \/ netDeadTick'[i] <= flagsWriteTick[i]
  PROVE  QueuesLineUp' /\ DispositionIsExact'
<1>1. QueuesLineUp'
  BY DEF QueuesLineUp, queueVars
<1>2. DispositionIsExact'
  BY DEF DispositionIsExact, queueVars
<1> QED BY <1>1, <1>2

\* A failed assert of sFlagSendTimeQueue ends the program and leaves the rest as it is.
LEMMA AbortInvariant ==
  ASSUME HubInvariant, NEW lines \in SUBSET {963, 988}, Abort(lines)
  PROVE  HubInvariant'
<1> USE DEF Abort
<1>1. UNCHANGED <<hubActive, silence, connected, addressKnown, referencePlayer, netDeadTick,
          queueVars, smallestUnsentTick, sinceSent, laggingPlayers, sinceRealUpdate,
          scan, died, dying, suspended, cleanup, smallestPostGameTick>>
  BY DEF playerVars, sendVars, lagVars, tickVars, cleanupVars
<1>2. Booked' = Booked
  BY <1>1 DEF Booked
<1>3. QueuesLineUp' /\ DispositionIsExact'
  BY <1>1, <1>2, QueuesUndisturbed DEF HubInvariant
<1>4. TypeOK'
  BY <1>1 DEF HubInvariant, TypeOK, queueVars
<1>5. LoopState'
  BY <1>1 DEF HubInvariant, LoopState
<1>6. HousekeepingAssertsHold'
  BY DEF HousekeepingAssertsHold
<1> QED BY <1>3, <1>4, <1>5, <1>6 DEF HubInvariant

-----------------------------------------------------------------------------
(* The steps that leave the queues alone.                                    *)

LEMMA IdentificationInvariant ==
  ASSUME HubInvariant, NEW p \in Players, ReceiveIdentification(p)
  PROVE  HubInvariant'
<1> USE DEF ReceiveIdentification
<1>1. Booked' = Booked
  BY DEF Booked, tickVars
<1>2. QueuesLineUp' /\ DispositionIsExact'
  BY <1>1, QueuesUndisturbed DEF HubInvariant, sendVars
<1>3. TypeOK'
  BY DEF HubInvariant, TypeOK, queueVars, sendVars, lagVars, tickVars, cleanupVars
<1>4. LoopState' /\ HousekeepingAssertsHold'
  BY DEF HubInvariant, LoopState, HousekeepingAssertsHold, tickVars
<1> QED BY <1>2, <1>3, <1>4 DEF HubInvariant

LEMMA TickBeginInvariant ==
  ASSUME HubInvariant, HubTickBegin
  PROVE  HubInvariant'
<1> USE DEF HubTickBegin, MutexFree
<1>1. Booked' = Booked
  BY DEF Booked, playerVars
<1>2. QueuesLineUp' /\ DispositionIsExact'
  BY <1>1, QueuesUndisturbed DEF HubInvariant, playerVars
<1>3. SilenceCap \in Nat /\ MinimumSendPeriod \in Nat /\ RecoverySendPeriod \in Nat
  BY HubConstants DEF SilenceCap, Larger
<1>4. silence' \in [Players -> 0 .. SilenceCap]
  BY <1>3 DEF HubInvariant, TypeOK, Smaller
<1>5. sinceRealUpdate' \in 0 .. MinimumSendPeriod /\ sinceSent' \in 0 .. RecoverySendPeriod
  BY <1>3 DEF HubInvariant, TypeOK, Smaller
<1>6. scan' \in Players
  BY Constants DEF Players
<1>10. died' \in BOOLEAN
  BY Zenon
<1>7. TypeOK'
  BY <1>4, <1>5, <1>6, <1>10 DEF HubInvariant, TypeOK, playerVars, queueVars, cleanupVars
<1>8. LoopState'
  BY <1>6 DEF HubInvariant, LoopState, playerVars
<1>9. HousekeepingAssertsHold'
  BY DEF HubInvariant, HousekeepingAssertsHold
<1> QED BY <1>2, <1>7, <1>8, <1>9 DEF HubInvariant

LEMMA SurvivorInvariant ==
  ASSUME HubInvariant, ScanSurvivors
  PROVE  HubInvariant'
<1> USE DEF ScanSurvivors
<1>1. Booked' = Booked
  BY DEF Booked, playerVars
<1>2. QueuesLineUp' /\ DispositionIsExact'
  BY <1>1, QueuesUndisturbed DEF HubInvariant, playerVars, sendVars
<1>3. scan' \in Players \cup {NumPlayers}
  BY Constants DEF Players
<1>4. TypeOK'
  BY <1>3 DEF HubInvariant, TypeOK, playerVars, queueVars, sendVars, lagVars, cleanupVars
<1>5. LoopState' /\ HousekeepingAssertsHold'
  BY DEF HubInvariant, LoopState, HousekeepingAssertsHold, playerVars
<1> QED BY <1>2, <1>4, <1>5 DEF HubInvariant

\* The reference player stays one of the topology.
LEMMA ReferenceStaysPlayer ==
  ASSUME TypeOK, ScanNetDead
  PROVE  referencePlayer' \in Players
<1>1. PICK remaining : /\ remaining \subseteq connected
                       /\ referencePlayer' \in {FallbackReference(remaining), referencePlayer}
  <2> DEFINE buried == IF Standalone /\ Cardinality(connected \ {scan}) = 1 THEN connected ELSE {scan}
  <2>1. connected \ buried \subseteq connected
    OBVIOUS
  <2>2. referencePlayer' = IF Standalone /\ referencePlayer \in buried
                           THEN FallbackReference(connected \ buried) ELSE referencePlayer
    BY DEF ScanNetDead
  <2> HIDE DEF buried
  <2> QED BY <2>1, <2>2
<1>2. referencePlayer \in Players /\ remaining \in SUBSET Players /\ 0 \in Players
  BY <1>1, HubConstants DEF TypeOK, Players
<1>3. CASE remaining = {}
  BY <1>1, <1>2, <1>3 DEF FallbackReference
<1>4. CASE remaining # {}
  <2>1. \E i \in remaining : \A j \in remaining : j <= i
    BY <1>2, <1>4, FirstAndLast
  <2>2. FallbackReference(remaining) \in remaining
    BY <1>4, <2>1 DEF FallbackReference
  <2> QED BY <1>1, <1>2, <2>2
<1> QED BY <1>3, <1>4

\* Marking a player dead moves it from the connected to the dying: still booked.  When the
\* standalone hub goes on to the only other one, nobody is left.
LEMMA NetDeadInvariant ==
  ASSUME HubInvariant, ScanNetDead
  PROVE  /\ HubOrNobody'
         /\ ~Standalone => HubInvariant'
<1> DEFINE remaining == connected \ {scan}
           buried == IF Standalone /\ Cardinality(remaining) = 1 THEN connected ELSE {scan}
<1>1. /\ scan \in Players /\ dying = NONE /\ scan \in connected
      /\ connected' = connected \ buried
      /\ dying' = (IF buried = {scan} THEN scan ELSE CHOOSE i \in remaining : TRUE)
      /\ suspended' = (IF buried = {scan} THEN NONE ELSE scan)
      /\ netDeadTick' = [i \in Players |-> IF i \in buried THEN smallestIncompleteTick
                                                            ELSE netDeadTick[i]]
      /\ silence' = [i \in Players |-> IF i \in buried THEN 0 ELSE silence[i]]
      /\ died' = TRUE
      /\ UNCHANGED <<hubActive, addressKnown, queueVars, sendVars, lagVars, scan, cleanupVars,
                     failedAsserts>>
  BY DEF ScanNetDead, NetDead
<1>2. buried \subseteq connected /\ (buried = {scan} \/ (Standalone /\ buried = connected))
  BY <1>1
<1> HIDE DEF buried
<1>3. TypeOK'
  <2>1. referencePlayer' \in Players
    BY ReferenceStaysPlayer DEF HubInvariant
  <2>2. SilenceCap \in Nat /\ FirstTick - 1 <= FirstTick
    BY HubConstants, Constants DEF SilenceCap, Larger
  <2>3. netDeadTick' \in [Players -> FirstTick - 1 .. Horizon] /\ silence' \in [Players -> 0 .. SilenceCap]
    BY <1>1, <2>2, Constants DEF HubInvariant, TypeOK
  <2>4. dying' \in Players \cup {NONE} /\ suspended' \in Players \cup {NONE}
    <3>1. CASE buried = {scan}
      BY <1>1, <3>1
    <3>2. CASE buried # {scan}
      <4>1. PICK i \in remaining : TRUE
        BY <1>1, <1>2, <3>2
      <4>2. (CHOOSE j \in remaining : TRUE) \in remaining
        BY <4>1
      <4>3. connected \subseteq Players
        BY DEF HubInvariant, TypeOK
      <4> QED BY <1>1, <3>2, <4>2, <4>3
    <3> QED BY <3>1, <3>2
  <2>5. connected' \in SUBSET Players
    BY <1>1 DEF HubInvariant, TypeOK
  <2> QED BY <1>1, <2>1, <2>3, <2>4, <2>5 DEF HubInvariant, TypeOK, queueVars, sendVars, lagVars, cleanupVars
<1>4. CASE buried = {scan}
  <2>1. dying' = scan /\ suspended' = NONE
    BY <1>1, <1>4
  <2>2. Booked' = Booked
    BY <1>1, <1>4, <2>1, Constants DEF Booked, HubInvariant, LoopState
  <2>3. smallestIncompleteTick <= flagsWriteTick[scan]
    BY <1>1 DEF HubInvariant, QueuesLineUp, Booked
  <2>4. QueuesLineUp' /\ DispositionIsExact'
    <3>1. ASSUME NEW i \in Players, i \notin connected'
          PROVE  \/ i \notin connected /\ netDeadTick'[i] = netDeadTick[i]
                 \/ netDeadTick'[i] <= flagsWriteTick[i]
      BY <1>1, <1>4, <2>3, <3>1 DEF HubInvariant, LoopState
    <3> QED BY <1>1, <2>2, <3>1, QueuesUndisturbed DEF HubInvariant, sendVars
  <2>5. LoopState' /\ HousekeepingAssertsHold'
    BY <1>1, <1>4, <2>1 DEF HubInvariant, LoopState, HousekeepingAssertsHold
  <2> QED BY <1>3, <2>4, <2>5 DEF HubInvariant, HubOrNobody
<1>5. CASE Standalone /\ buried = connected
  <2>1. connected' = {} /\ scan' \in Players
    BY <1>1, <1>5
  <2> QED BY <1>3, <1>5, <2>1 DEF HubOrNobody, NobodyLeft, Standalone
<1> QED BY <1>2, <1>4, <1>5

LEMMA CleanupInvariant ==
  ASSUME HubInvariant,
         HubCleanupEnd \/ \E graceful \in BOOLEAN, post \in PostGameTicks : HubCleanup(graceful, post)
  PROVE  HubInvariant'
<1>1. UNCHANGED <<silence, connected, addressKnown, referencePlayer, netDeadTick, queueVars,
                  smallestUnsentTick, sinceSent, laggingPlayers, sinceRealUpdate,
                  scan, died, dying, suspended, failedAsserts>>
  BY DEF HubCleanupEnd, HubCleanup, playerVars, sendVars, lagVars, tickVars
<1>2. /\ hubActive' \in BOOLEAN
      /\ cleanup' \in {"none", "waiting", "done"}
      /\ smallestPostGameTick' \in FirstTick .. Horizon + 1
  <2>1. hubActive' \in BOOLEAN
    <3>1. hubActive \in BOOLEAN
      BY DEF HubInvariant, TypeOK
    <3> QED BY <3>1, Zenon DEF HubCleanupEnd, HubCleanup
  <2>2. /\ cleanup' \in {"none", "waiting", "done"}
        /\ smallestPostGameTick' \in FirstTick .. Horizon + 1
    BY Constants, HubConstants DEF HubCleanupEnd, HubCleanup, HubInvariant, TypeOK
  <2> QED BY <2>1, <2>2
<1>3. Booked' = Booked
  BY <1>1 DEF Booked
<1>4. QueuesLineUp' /\ DispositionIsExact'
  BY <1>1, <1>3, QueuesUndisturbed DEF HubInvariant
<1>5. TypeOK'
  BY <1>1, <1>2 DEF HubInvariant, TypeOK, queueVars
<1>6. LoopState' /\ HousekeepingAssertsHold'
  BY <1>1 DEF HubInvariant, LoopState, HousekeepingAssertsHold
<1> QED BY <1>4, <1>5, <1>6 DEF HubInvariant

-----------------------------------------------------------------------------
(* The steps that move the queues.                                           *)

\* The housekeeping for a dead player takes its bit out of every tick.
LEMMA BookNetDeathInvariant ==
  ASSUME HubInvariant, BookNetDeath
  PROVE  /\ HubInvariant' /\ smallestIncompleteTick <= smallestIncompleteTick'
         /\ dispositionReadTick <= dispositionReadTick'
<1> DEFINE p == dying
           b == Provided(playerDataDisposition, p, flagsWriteTick[p], dispositionWriteTick)
           a == Acknowledged(b.disposition, p, smallestIncompleteTick)
           acks == [smallestUnacknowledgedTick EXCEPT ![p] = smallestIncompleteTick]
           written == [flagsWriteTick EXCEPT ![p] = dispositionWriteTick]
<1>1. /\ p \in Players /\ p \notin connected /\ suspended = NONE /\ scan \in Players
      /\ Booked = connected \cup {p} /\ connected \in SUBSET Players /\ Booked \in SUBSET Players
      /\ TypeOK /\ QueuesLineUp
  BY DEF BookNetDeath, HubInvariant, LoopState, TypeOK, Booked
<1>2. /\ dispositionReadTick \in Int /\ dispositionWriteTick \in Int /\ dispositionWriteTick <= Horizon
      /\ smallestIncompleteTick \in Int /\ smallestUnsentTick \in Int /\ FirstTick <= dispositionReadTick
      /\ smallestIncompleteTick <= dispositionWriteTick
      /\ smallestUnsentTick <= smallestIncompleteTick
      /\ dispositionWriteTick <= dispositionReadTick + QueueSize
      /\ playerDataDisposition \in [Ticks -> SUBSET Players]
      /\ \A i \in Players : smallestUnacknowledgedTick[i] \in Int /\ flagsWriteTick[i] \in Int
                            /\ flagsWriteTick[i] <= dispositionWriteTick
      /\ \A i \in Booked : /\ dispositionReadTick <= smallestUnacknowledgedTick[i]
                           /\ smallestUnacknowledgedTick[i] <= smallestIncompleteTick
                           /\ smallestIncompleteTick <= flagsWriteTick[i]
  BY <1>1, Constants DEF TypeOK, QueuesLineUp
<1>3. \A t \in Ticks :
        /\ smallestIncompleteTick <= t /\ t < dispositionWriteTick =>
             /\ playerDataDisposition[t] = {i \in Booked : flagsWriteTick[i] <= t}
             /\ playerDataDisposition[t] # {}
        /\ dispositionReadTick <= t /\ t < smallestIncompleteTick =>
             /\ playerDataDisposition[t] = {i \in Booked : smallestUnacknowledgedTick[i] <= t}
             /\ playerDataDisposition[t] # {}
  <2>1. ASSUME NEW t \in Ticks
        PROVE  /\ smallestIncompleteTick <= t => dispositionReadTick <= t
               /\ t < smallestIncompleteTick => t < dispositionWriteTick
    BY <1>1, <1>2, Constants DEF QueuesLineUp
  <2> QED BY <1>1, <2>1 DEF HubInvariant, DispositionIsExact
<1>4. /\ HasProvided(playerDataDisposition, Booked, dispositionWriteTick, b, written)
      /\ b.incomplete <= dispositionWriteTick
  <2>1. CanProvide(playerDataDisposition, Booked, p, dispositionWriteTick)
    <3> HIDE DEF p
    <3> QED BY <1>1, <1>2, <1>3 DEF CanProvide
  <2>2. HasProvided(playerDataDisposition, Booked, dispositionWriteTick, b, written)
    BY <1>1, <2>1, ProvidedBooks
  <2> QED BY <2>2 DEF HasProvided
<1>5. HasAcknowledged(b.disposition, Booked, a, acks)
  <2>1. CanAcknowledge(b.disposition, Booked, p, smallestIncompleteTick)
    <3> HIDE DEF p, b
    <3> QED BY <1>1, <1>2, <1>3, <1>4 DEF CanAcknowledge, HasProvided
  <2> QED BY <1>1, <2>1, AcknowledgedBooks
<1> HIDE DEF b
<1> USE DEF HasProvided, HasAcknowledged
<1> HIDE DEF a
<1>6. CASE a.failed \cup b.failed # {}
  <2>1. Abort(a.failed \cup b.failed) /\ a.failed \cup b.failed \in SUBSET {963, 988}
    BY <1>4, <1>5, <1>6 DEF BookNetDeath, a, b
  <2> QED BY <1>2, <2>1, AbortInvariant DEF Abort, queueVars
<1>7. CASE a.failed \cup b.failed = {}
  <2>1. /\ playerDataDisposition' = a.disposition
        /\ smallestIncompleteTick' = b.incomplete
        /\ smallestUnacknowledgedTick' = acks
        /\ dispositionReadTick' = a.read
        /\ flagsReadTick' = a.flags
        /\ playerReflectedFlags' = Dequeued(playerReflectedFlags, a.read)
        /\ hubActive' = (hubActive /\ SomeoneStillActive(acks))
        /\ sinceRealUpdate' = (IF b.completes THEN 0 ELSE sinceRealUpdate)
        /\ laggingPlayers' \in {laggingPlayers, laggingPlayers \ {p}}
        /\ dying' = NONE /\ suspended' = NONE /\ scan' = scan + 1
        /\ UNCHANGED <<silence, playerVars, flagsWriteTick, dispositionWriteTick,
                       sendVars, died, cleanupVars, failedAsserts>>
    BY <1>1, <1>7 DEF BookNetDeath, a, b
  <2>2. Booked' = connected /\ connected' = connected
    BY <2>1 DEF Booked, playerVars
  <2>3. /\ \A i \in connected : acks[i] = smallestUnacknowledgedTick[i] /\ written[i] = flagsWriteTick[i]
        /\ acks[p] = smallestIncompleteTick /\ written[p] = dispositionWriteTick
    BY <1>1 DEF TypeOK
  <2> HIDE DEF acks, written, p
  <2>4. DispositionIsExact'
    <3>1. ASSUME NEW t \in Ticks, a.read <= t, t < b.incomplete
          PROVE  a.disposition[t] = {i \in connected : acks[i] <= t}
      <4>1. t \in Int
        BY Constants
      <4>2. CASE t < smallestIncompleteTick
        BY <1>1, <1>2, <1>5, <2>3, <3>1, <4>1, <4>2
      <4>3. CASE smallestIncompleteTick <= t
        BY <1>1, <1>2, <1>4, <1>5, <2>3, <3>1, <4>1, <4>3
      <4> QED BY <1>2, <4>1, <4>2, <4>3
    <3>2. ASSUME NEW t \in Ticks, b.incomplete <= t, t < dispositionWriteTick
          PROVE  a.disposition[t] = {i \in connected : flagsWriteTick[i] <= t}
                 /\ a.disposition[t] # {}
      <4>1. t \in Int /\ smallestIncompleteTick <= t
        BY <1>2, <1>4, <3>2, Constants
      <4>2. a.disposition[t] = {i \in Booked : written[i] <= t} /\ a.disposition[t] # {}
        BY <1>4, <1>5, <3>2, <4>1
      <4> QED BY <1>1, <1>2, <2>3, <3>2, <4>1, <4>2
    <3>3. ASSUME NEW t \in Ticks, a.read <= t, t < b.incomplete, connected # {}
          PROVE  a.disposition[t] # {}
      <4>1. t \in Int
        BY Constants
      <4> QED BY <1>2, <1>4, <1>5, <3>3, <4>1
    <3>4. \A t \in Ticks : t \in Int
      BY Constants
    <3> QED BY <1>2, <1>4, <1>5, <2>1, <2>2, <3>1, <3>2, <3>3, <3>4 DEF DispositionIsExact
  <2>5. QueuesLineUp'
    <3>1. \A i \in Players : /\ flagsReadTick'[i] = Smaller(a.read, flagsWriteTick[i])
                             /\ i \notin connected => netDeadTick[i] <= flagsWriteTick[i]
      BY <1>1, <1>5, <2>1 DEF QueuesLineUp
    <3>2. ASSUME NEW i \in connected
          PROVE  a.read <= acks[i] /\ acks[i] <= b.incomplete /\ b.incomplete <= flagsWriteTick[i]
      BY <1>1, <1>2, <1>4, <1>5, <2>3
    <3>3. a.read <= b.incomplete /\ smallestUnsentTick <= b.incomplete
          /\ dispositionWriteTick <= a.read + QueueSize
      BY <1>2, <1>4, <1>5, Constants
    <3> QED BY <1>2, <1>4, <2>1, <2>2, <3>1, <3>2, <3>3 DEF QueuesLineUp, playerVars, sendVars
  <2>6. TypeOK'
    <3>1. a.flags \in [Players -> FirstTick .. Horizon]
      BY <1>1, <1>2, <1>5, Constants DEF Smaller, TypeOK
    <3>2. acks \in [Players -> FirstTick .. Horizon]
      BY <1>1, Constants DEF acks, TypeOK
    <3>3. Dequeued(playerReflectedFlags, a.read) \in [Ticks -> SUBSET Players]
      BY <1>1 DEF Dequeued, TypeOK
    <3>4. hubActive' \in BOOLEAN
      <4>1. hubActive \in BOOLEAN
        BY <1>1 DEF TypeOK
      <4> QED BY <2>1, <4>1, Zenon DEF SomeoneStillActive
    <3>5. sinceRealUpdate' \in 0 .. MinimumSendPeriod /\ laggingPlayers' \in SUBSET Players
      BY <1>1, <2>1, HubConstants DEF TypeOK
    <3>6. a.read \in FirstTick .. Horizon /\ b.incomplete \in FirstTick .. Horizon
      BY <1>2, <1>4, <1>5, Constants
    <3>7. scan' \in Players \cup {NumPlayers} /\ dying' = NONE /\ suspended' = NONE
      BY <1>1, <2>1, Constants DEF Players
    <3> QED BY <1>1, <1>4, <1>5, <2>1, <3>1, <3>2, <3>3, <3>4, <3>5, <3>6, <3>7
            DEF TypeOK, playerVars, sendVars, cleanupVars
  <2>7. LoopState' /\ HousekeepingAssertsHold'
    <3>1. NONE \notin connected
      BY <1>1, Constants
    <3> QED BY <2>1, <2>2, <3>1 DEF HubInvariant, LoopState, HousekeepingAssertsHold
  <2>8. dispositionReadTick <= dispositionReadTick'
    BY <1>5, <2>1
  <2> QED BY <1>4, <2>1, <2>4, <2>5, <2>6, <2>7, <2>8 DEF HubInvariant
<1> QED BY <1>6, <1>7

\* What game data does to the flags queue of its player: nothing, or new flags of ticks that
\* it does hold.
EnqueuesFlags(p, start, end) ==
  \/ UNCHANGED <<flagsWriteTick, laggingPlayers>>
  \/ /\ start <= flagsWriteTick[p]
     /\ flagsWriteTick[p] < flagsWriteTick'[p] /\ flagsWriteTick'[p] <= end
     /\ \A i \in Players \ {p} : flagsWriteTick'[i] = flagsWriteTick[i]
     /\ laggingPlayers' = laggingPlayers \ {p}

\* Game data: what the acknowledgement does, and what the flags do after it.
LEMMA GameDataInvariant ==
  ASSUME HubInvariant, NEW p \in Players, NEW ack \in FirstTick .. Horizon,
         NEW start \in FirstTick .. Horizon, NEW end \in FirstTick .. Horizon,
         ReceiveGameData(p, ack, start, end)
  PROVE  /\ HubInvariant' /\ smallestIncompleteTick <= smallestIncompleteTick'
         /\ dispositionReadTick <= dispositionReadTick'
         /\ \A i \in Players : flagsWriteTick[i] <= flagsWriteTick'[i]
         /\ smallestUnsentTick' \in {smallestUnsentTick, smallestIncompleteTick'}
         /\ UNCHANGED <<connected, netDeadTick, scan>>
         /\ EnqueuesFlags(p, start, end)
<1> DEFINE late == ack < smallestUnacknowledgedTick[p]
           a == Acknowledged(playerDataDisposition, p, ack)
           e == IF late THEN [disposition |-> playerDataDisposition, read |-> dispositionReadTick,
                              flags |-> flagsReadTick, failed |-> {}]
                        ELSE a
           acks == [smallestUnacknowledgedTick EXCEPT ![p] = Larger(ack, @)]
           first == flagsWriteTick[p]
           end2 == first + Enqueueable(p, start, end, e.read, e.flags[p])
           b == Provided(e.disposition, p, first, end2)
           written == [flagsWriteTick EXCEPT ![p] = end2]
           fails == e.failed \cup (IF end2 > first THEN b.failed ELSE {})
                    \cup (IF end2 > e.read + QueueSize THEN {1089} ELSE {})
<1>1. /\ p \in connected /\ scan = NONE /\ dying = NONE /\ suspended = NONE
      /\ Booked = connected /\ connected \in SUBSET Players
      /\ TypeOK /\ QueuesLineUp /\ ack <= smallestIncompleteTick
  BY Constants DEF ReceiveGameData, MutexFree, HubInvariant, LoopState, TypeOK, Booked
<1>2. /\ dispositionReadTick \in Int /\ dispositionWriteTick \in Int /\ dispositionWriteTick <= Horizon
      /\ smallestIncompleteTick \in Int /\ smallestUnsentTick \in Int /\ FirstTick <= dispositionReadTick
      /\ smallestIncompleteTick <= dispositionWriteTick
      /\ dispositionReadTick <= smallestIncompleteTick
      /\ smallestUnsentTick <= smallestIncompleteTick
      /\ dispositionWriteTick <= dispositionReadTick + QueueSize
      /\ playerDataDisposition \in [Ticks -> SUBSET Players]
      /\ ack \in Int /\ end \in Int /\ start \in Int /\ end <= Horizon
      /\ \A i \in Players : smallestUnacknowledgedTick[i] \in Int /\ flagsWriteTick[i] \in Int
                            /\ flagsWriteTick[i] <= dispositionWriteTick
                            /\ flagsReadTick[i] = Smaller(dispositionReadTick, flagsWriteTick[i])
      /\ \A i \in connected : /\ dispositionReadTick <= smallestUnacknowledgedTick[i]
                              /\ smallestUnacknowledgedTick[i] <= smallestIncompleteTick
                              /\ smallestIncompleteTick <= flagsWriteTick[i]
  BY <1>1, Constants DEF TypeOK, QueuesLineUp
<1>3. \A t \in Ticks :
        /\ smallestIncompleteTick <= t /\ t < dispositionWriteTick =>
             /\ playerDataDisposition[t] = {i \in connected : flagsWriteTick[i] <= t}
             /\ playerDataDisposition[t] # {}
        /\ dispositionReadTick <= t /\ t < smallestIncompleteTick =>
             /\ playerDataDisposition[t] = {i \in connected : smallestUnacknowledgedTick[i] <= t}
             /\ playerDataDisposition[t] # {}
  <2>1. ASSUME NEW t \in Ticks
        PROVE  /\ smallestIncompleteTick <= t => dispositionReadTick <= t
               /\ t < smallestIncompleteTick => t < dispositionWriteTick
    BY <1>1, <1>2, Constants DEF QueuesLineUp
  <2> QED BY <1>1, <2>1 DEF HubInvariant, DispositionIsExact
<1>4. HasAcknowledged(playerDataDisposition, connected, e, acks)
  <2>1. CASE late
    <3>1. acks = smallestUnacknowledgedTick
      BY <1>1, <1>2, <2>1 DEF Larger, TypeOK
    <3>2. flagsReadTick = [i \in Players |-> Smaller(dispositionReadTick, flagsWriteTick[i])]
      BY <1>1, <1>2 DEF TypeOK
    <3>3. e = [disposition |-> playerDataDisposition, read |-> dispositionReadTick,
               flags |-> flagsReadTick, failed |-> {}]
      BY <2>1
    <3> HIDE DEF e, acks
    <3> QED BY <1>2, <1>3, <3>1, <3>2, <3>3 DEF HasAcknowledged
  <2>2. CASE ~late
    <3>1. e = a /\ smallestUnacknowledgedTick[p] <= ack
      BY <1>1, <1>2, <2>2
    <3>2. acks = [smallestUnacknowledgedTick EXCEPT ![p] = ack]
      BY <1>2, <3>1 DEF Larger
    <3>3. CanAcknowledge(playerDataDisposition, connected, p, ack)
      BY <1>1, <1>2, <1>3, <3>1 DEF CanAcknowledge
    <3>4. HasAcknowledged(playerDataDisposition, connected, a,
                          [smallestUnacknowledgedTick EXCEPT ![p] = ack])
      BY <1>1, <3>3, AcknowledgedBooks
    <3> HIDE DEF e, acks, a
    <3> QED BY <3>1, <3>2, <3>4
  <2> QED BY <2>1, <2>2
<1>5. /\ fails # {} => Abort(fails)
      /\ fails = {} =>
           /\ smallestUnacknowledgedTick' = acks
           /\ silence' = [silence EXCEPT ![p] = IF late THEN @ ELSE 0]
           /\ dispositionReadTick' = e.read
           /\ flagsReadTick' = e.flags
           /\ hubActive' = (late \/ SomeoneStillActive(acks))
           /\ flagsWriteTick' = written
           /\ dispositionWriteTick' = Larger(dispositionWriteTick, end2)
           /\ playerReflectedFlags' = Dequeued(playerReflectedFlags, e.read)
           /\ IF end2 > first
              THEN /\ playerDataDisposition' = b.disposition
                   /\ smallestIncompleteTick' = b.incomplete
                   /\ laggingPlayers' = laggingPlayers \ {p}
                   /\ sinceRealUpdate' = IF b.completes THEN 0 ELSE sinceRealUpdate
              ELSE /\ playerDataDisposition' = e.disposition
                   /\ UNCHANGED <<smallestIncompleteTick, lagVars>>
           /\ smallestUnsentTick' \in {smallestUnsentTick, smallestIncompleteTick'}
           /\ sinceSent' \in {0, sinceSent}
           /\ UNCHANGED <<playerVars, tickVars, cleanupVars, failedAsserts>>
  <2>1. BookGameData(p, ack, e, end2, b)
    BY DEF ReceiveGameData
  <2> HIDE DEF e, end2, b
  <2> QED BY <2>1 DEF BookGameData, SendPacketsIf
<1> HIDE DEF e, acks
<1>6. /\ e.read \in Int /\ dispositionReadTick <= e.read /\ e.read <= smallestIncompleteTick
      /\ e.disposition \in [Ticks -> SUBSET Players]
      /\ \A i \in connected : acks[i] \in Int /\ e.read <= acks[i] /\ acks[i] <= smallestIncompleteTick
      /\ acks \in [Players -> FirstTick .. Horizon]
      /\ e.flags = [i \in Players |-> Smaller(e.read, flagsWriteTick[i])]
      /\ e.failed \in SUBSET {963, 988}
  <2>1. acks \in [Players -> FirstTick .. Horizon]
    BY <1>1, Constants DEF acks, TypeOK, Larger
  <2>2. \A i \in connected : acks[i] <= smallestIncompleteTick
    BY <1>1, <1>2 DEF acks, TypeOK, Larger
  <2>3. \A i \in connected : acks[i] \in Int
    BY <1>1, <2>1, Constants
  <2> QED BY <1>4, <2>1, <2>2, <2>3 DEF HasAcknowledged
<1>7. /\ end2 \in Int /\ first <= end2 /\ end2 <= Horizon /\ end2 <= e.read + QueueSize
      /\ end2 > first => start <= first /\ end2 <= end
  <2>1. first \in Int /\ first <= dispositionWriteTick /\ smallestIncompleteTick <= first
    BY <1>1, <1>2
  <2>2. e.flags[p] = e.read
    BY <1>6, <2>1, <1>2 DEF Smaller
  <2>3. /\ Enqueueable(p, start, end, e.read, e.read) \in Nat
        /\ first + Enqueueable(p, start, end, e.read, e.read) <= Larger(first, end)
        /\ first + Enqueueable(p, start, end, e.read, e.read) <= e.read + QueueSize
        /\ Enqueueable(p, start, end, e.read, e.read) > 0 => start <= first
    BY <1>2, <1>6, <2>1, Constants DEF Enqueueable, Smaller, Larger
  <2>4. end2 = first + Enqueueable(p, start, end, e.read, e.read)
    BY <2>2
  <2> QED BY <1>2, <2>1, <2>3, <2>4, Constants DEF Larger
<1>8. HasProvided(e.disposition, connected, end2, b, written)
  <2>1. CanProvide(e.disposition, connected, p, end2)
    <3> HIDE DEF end2
    <3>1. \A t \in Ticks : smallestIncompleteTick <= t => e.disposition[t] = playerDataDisposition[t]
      BY <1>4 DEF HasAcknowledged
    <3> QED BY <1>1, <1>2, <1>3, <1>6, <1>7, <3>1 DEF CanProvide
  <2> HIDE DEF end2
  <2> QED BY <1>1, <2>1, ProvidedBooks
<1> HIDE DEF end2, b, written
<1>9. CASE fails # {}
  <2>1. fails \in SUBSET {963, 988}
    <3>1. b.failed = {}
      BY <1>8 DEF HasProvided
    <3>2. ~ (end2 > e.read + QueueSize)
      BY <1>6, <1>7, Constants
    <3> QED BY <1>6, <3>1, <3>2
  <2> HIDE DEF fails
  <2>2. UNCHANGED <<flagsWriteTick, laggingPlayers>>
    BY <1>5, <1>9 DEF Abort, queueVars, lagVars
  <2> QED BY <1>2, <1>5, <1>9, <2>1, <2>2, AbortInvariant
          DEF Abort, queueVars, sendVars, playerVars, tickVars, EnqueuesFlags
<1>10. CASE fails = {}
  <2>1. Booked' = connected /\ connected' = connected
    BY <1>1, <1>5, <1>10 DEF Booked, playerVars, tickVars
  <2>2. \A i \in Players : written[i] \in Int /\ flagsWriteTick[i] <= written[i]
                           /\ written[i] <= Larger(dispositionWriteTick, end2)
    BY <1>1, <1>2, <1>7 DEF written, TypeOK, Larger
  <2> DEFINE n == smallestIncompleteTick'
             f == playerDataDisposition'
             w == Larger(dispositionWriteTick, end2)
  <2>3. w \in Int /\ dispositionWriteTick <= w /\ w <= Horizon /\ w <= e.read + QueueSize
        /\ (w = dispositionWriteTick \/ w = end2) /\ end2 <= w
    BY <1>2, <1>6, <1>7, Constants DEF Larger
  <2>4. /\ n \in Int /\ smallestIncompleteTick <= n /\ n <= w
        /\ f \in [Ticks -> SUBSET Players]
        /\ \A i \in connected : n <= written[i]
        /\ \A t \in Ticks : e.read <= t /\ t < n =>
             f[t] = {i \in connected : acks[i] <= t} /\ f[t] # {}
        /\ \A t \in Ticks : n <= t /\ t < w =>
             f[t] = {i \in connected : written[i] <= t} /\ f[t] # {}
    <3>1. CASE end2 > first
      <4>1. n = b.incomplete /\ f = b.disposition
        BY <1>5, <1>10, <3>1
      <4> HIDE DEF n, f, w
      <4>2. ASSUME NEW t \in Ticks, e.read <= t, t < n
            PROVE  f[t] = {i \in connected : acks[i] <= t} /\ f[t] # {}
        <5>1. t \in Int
          BY Constants
        <5>2. CASE t < smallestIncompleteTick
          BY <1>4, <1>8, <4>1, <4>2, <5>2 DEF HasAcknowledged, HasProvided
        <5>3. CASE smallestIncompleteTick <= t
          <6>1. f[t] = connected
            BY <1>8, <4>1, <4>2, <5>3 DEF HasProvided
          <6>2. \A i \in connected : acks[i] <= t
            BY <1>2, <1>6, <5>1, <5>3
          <6> QED BY <1>1, <6>1, <6>2
        <5> QED BY <1>2, <5>1, <5>2, <5>3
      <4>3. ASSUME NEW t \in Ticks, n <= t, t < w
            PROVE  f[t] = {i \in connected : written[i] <= t} /\ f[t] # {}
        BY <1>8, <2>3, <4>1, <4>3 DEF HasProvided
      <4>4. n \in Int /\ smallestIncompleteTick <= n /\ n <= w
        BY <1>2, <1>7, <1>8, <2>3, <4>1 DEF HasProvided
      <4> QED BY <1>8, <4>1, <4>2, <4>3, <4>4 DEF HasProvided
    <3>2. CASE ~ (end2 > first)
      <4>1. n = smallestIncompleteTick /\ f = e.disposition
        BY <1>5, <1>10, <3>2
      <4>2. end2 = first /\ first \in Int
        BY <1>2, <1>7, <3>2
      <4>3. written = flagsWriteTick
        BY <1>1, <4>2 DEF written, TypeOK
      <4>4. w = dispositionWriteTick
        BY <1>2, <4>2 DEF Larger
      <4> HIDE DEF n, f, w
      <4>5. \A t \in Ticks : smallestIncompleteTick <= t => e.disposition[t] = playerDataDisposition[t]
        BY <1>4 DEF HasAcknowledged
      <4>6. \A t \in Ticks : e.read <= t /\ t < smallestIncompleteTick =>
              e.disposition[t] = {i \in connected : acks[i] <= t} /\ e.disposition[t] # {}
        BY <1>4 DEF HasAcknowledged
      <4> QED BY <1>2, <1>3, <1>6, <4>1, <4>3, <4>4, <4>5, <4>6
    <3> QED BY <3>1, <3>2
  <2>5. DispositionIsExact'
    <3>1. dispositionReadTick' = e.read /\ dispositionWriteTick' = w
          /\ smallestUnacknowledgedTick' = acks /\ flagsWriteTick' = written
      BY <1>5, <1>10
    <3>2. \A t \in Ticks : t \in Int
      BY Constants
    <3> HIDE DEF w
    <3> QED BY <2>1, <2>3, <2>4, <3>1, <3>2 DEF DispositionIsExact
  <2>6. QueuesLineUp'
    <3>1. dispositionReadTick' = e.read /\ dispositionWriteTick' = w
          /\ smallestUnacknowledgedTick' = acks /\ flagsWriteTick' = written
          /\ flagsReadTick' = e.flags /\ UNCHANGED netDeadTick
          /\ smallestUnsentTick' \in {smallestUnsentTick, n}
      BY <1>5, <1>10 DEF playerVars
    <3>2. ASSUME NEW i \in Players
          PROVE  /\ e.flags[i] = Smaller(e.read, written[i])
                 /\ i \notin connected => netDeadTick[i] <= written[i]
      <4>1. CASE i = p
        <5>1. e.flags[i] = Smaller(e.read, first)
          BY <1>6, <4>1
        <5>2. e.read <= first /\ first <= written[i] /\ first \in Int
          BY <1>1, <1>2, <1>6, <2>2, <4>1
        <5> QED BY <1>1, <1>6, <2>2, <4>1, <5>1, <5>2 DEF Smaller
      <4>2. CASE i # p
        <5>1. written[i] = flagsWriteTick[i]
          BY <1>1, <4>2 DEF written, TypeOK
        <5> QED BY <1>1, <1>6, <5>1 DEF QueuesLineUp
      <4> QED BY <4>1, <4>2
    <3>3. \A i \in connected : e.read <= acks[i] /\ acks[i] <= n /\ n <= written[i]
      BY <1>2, <1>6, <2>4
    <3>4. e.read <= n /\ smallestUnsentTick' <= n
      BY <1>2, <1>6, <2>4, <3>1
    <3> HIDE DEF w
    <3> QED BY <2>1, <2>2, <2>3, <2>4, <3>1, <3>2, <3>3, <3>4 DEF QueuesLineUp, w
  <2>7. TypeOK'
    <3>1. e.flags \in [Players -> FirstTick .. Horizon] /\ written \in [Players -> FirstTick .. Horizon]
      <4>1. \A i \in Players : FirstTick <= flagsWriteTick[i] /\ flagsWriteTick[i] <= Horizon
        BY <1>1, Constants DEF TypeOK
      <4>2. \A i \in Players : Smaller(e.read, flagsWriteTick[i]) \in FirstTick .. Horizon
        BY <1>2, <1>6, <4>1, Constants DEF Smaller
      <4>3. end2 \in FirstTick .. Horizon
        BY <1>2, <1>7, <4>1, Constants
      <4> QED BY <1>1, <1>6, <4>2, <4>3 DEF written, TypeOK
    <3>2. Dequeued(playerReflectedFlags, e.read) \in [Ticks -> SUBSET Players]
      BY <1>1 DEF Dequeued, TypeOK
    <3>3. hubActive' \in BOOLEAN
      <4>1. hubActive' = (late \/ SomeoneStillActive(acks))
        BY <1>5, <1>10
      <4> QED BY <4>1, Zenon DEF SomeoneStillActive
    <3>4. /\ sinceRealUpdate' \in 0 .. MinimumSendPeriod /\ laggingPlayers' \in SUBSET Players
          /\ silence' \in [Players -> 0 .. SilenceCap] /\ sinceSent' \in 0 .. RecoverySendPeriod
      <4>1. SilenceCap \in Nat /\ MinimumSendPeriod \in Nat /\ RecoverySendPeriod \in Nat
        BY HubConstants DEF SilenceCap, Larger
      <4>2. silence' \in [Players -> 0 .. SilenceCap] /\ sinceSent' \in 0 .. RecoverySendPeriod
        BY <1>1, <1>5, <1>10, <4>1 DEF TypeOK
      <4>3. sinceRealUpdate' \in 0 .. MinimumSendPeriod /\ laggingPlayers' \in SUBSET Players
        BY <1>1, <1>5, <1>10, <4>1 DEF TypeOK, lagVars
      <4> QED BY <4>2, <4>3
    <3>5. /\ e.read \in FirstTick .. Horizon /\ n \in FirstTick .. Horizon /\ w \in FirstTick .. Horizon
          /\ smallestUnsentTick \in FirstTick .. Horizon
      BY <1>1, <1>2, <1>6, <2>3, <2>4, Constants DEF TypeOK
    <3>6. smallestUnsentTick' \in FirstTick .. Horizon
      BY <1>5, <1>10, <3>5
    <3>7. /\ dispositionReadTick' = e.read /\ dispositionWriteTick' = w
          /\ smallestUnacknowledgedTick' = acks /\ flagsWriteTick' = written
          /\ flagsReadTick' = e.flags
          /\ playerReflectedFlags' = Dequeued(playerReflectedFlags, e.read)
          /\ UNCHANGED <<playerVars, tickVars, cleanupVars, failedAsserts>>
      BY <1>5, <1>10
    <3> HIDE DEF w
    <3> QED BY <1>1, <1>6, <2>4, <3>1, <3>2, <3>3, <3>4, <3>5, <3>6, <3>7
            DEF TypeOK, playerVars, tickVars, cleanupVars
  <2>8. LoopState' /\ HousekeepingAssertsHold'
    BY <1>5, <1>10, <2>1 DEF HubInvariant, LoopState, HousekeepingAssertsHold, tickVars
  <2>9. UNCHANGED <<connected, netDeadTick, scan>>
    BY <1>5, <1>10 DEF playerVars, tickVars
  <2>10. /\ \A i \in Players : flagsWriteTick[i] <= flagsWriteTick'[i]
         /\ smallestUnsentTick' \in {smallestUnsentTick, smallestIncompleteTick'}
    BY <1>5, <1>10, <2>2
  <2>11. dispositionReadTick <= dispositionReadTick'
    BY <1>5, <1>6, <1>10
  <2>12. EnqueuesFlags(p, start, end)
    <3>1. flagsWriteTick' = written /\ written = [flagsWriteTick EXCEPT ![p] = end2]
      BY <1>5, <1>10 DEF written
    <3>2. flagsWriteTick = [i \in Players |-> flagsWriteTick[i]]
      BY <1>1 DEF TypeOK
    <3>3. CASE end2 > first
      <4>1. laggingPlayers' = laggingPlayers \ {p}
        BY <1>5, <1>10, <3>3
      <4> QED BY <1>2, <1>7, <3>1, <3>2, <3>3, <4>1 DEF EnqueuesFlags
    <3>4. CASE ~ (end2 > first)
      <4>1. laggingPlayers' = laggingPlayers
        BY <1>5, <1>10, <3>4 DEF lagVars
      <4>2. end2 = first
        BY <1>2, <1>7, <3>4
      <4> QED BY <3>1, <3>2, <4>1, <4>2 DEF EnqueuesFlags
    <3> QED BY <3>3, <3>4
  <2> QED BY <2>4, <2>5, <2>6, <2>7, <2>8, <2>9, <2>10, <2>11, <2>12 DEF HubInvariant
<1> QED BY <1>9, <1>10

\* The end of the tick: flags made up complete the first incomplete tick and no other.
LEMMA TickEndInvariant ==
  ASSUME HubInvariant, HubTickEnd
  PROVE  HubInvariant'
<1> DEFINE tick == smallestIncompleteTick
           written == [i \in Players |-> IF i \in Missing THEN tick + 1 ELSE flagsWriteTick[i]]
<1>1. /\ scan = NumPlayers /\ dying = NONE /\ suspended = NONE
      /\ Booked = connected /\ connected \in SUBSET Players
      /\ TypeOK /\ QueuesLineUp
  BY Constants DEF HubTickEnd, HubInvariant, LoopState, TypeOK, Booked
<1>2. /\ dispositionReadTick \in Int /\ dispositionWriteTick \in Int /\ dispositionWriteTick <= Horizon
      /\ tick \in Int /\ FirstTick <= dispositionReadTick
      /\ tick <= dispositionWriteTick /\ dispositionReadTick <= tick
      /\ smallestUnsentTick \in Int /\ smallestUnsentTick <= tick
      /\ dispositionWriteTick <= dispositionReadTick + QueueSize
      /\ \A i \in Players : /\ flagsWriteTick[i] \in Int /\ flagsWriteTick[i] <= dispositionWriteTick
                            /\ smallestUnacknowledgedTick[i] \in Int
                            /\ flagsReadTick[i] = Smaller(dispositionReadTick, flagsWriteTick[i])
      /\ \A i \in connected : /\ dispositionReadTick <= smallestUnacknowledgedTick[i]
                              /\ smallestUnacknowledgedTick[i] <= tick
                              /\ tick <= flagsWriteTick[i]
  BY <1>1, Constants DEF TypeOK, QueuesLineUp
<1>3. \A i \in Missing : i \in Players /\ flagsWriteTick[i] = tick
  BY DEF Missing
<1>4. /\ laggingPlayers' = Laggards
      /\ IF MakesUpFlags
         THEN /\ playerReflectedFlags' = [playerReflectedFlags EXCEPT ![tick] = @ \cup Missing]
              /\ flagsWriteTick' = written
              /\ playerDataDisposition' = [playerDataDisposition EXCEPT ![tick] = connected]
              /\ smallestIncompleteTick' = tick + 1
              /\ sinceRealUpdate' = 0
         ELSE UNCHANGED <<playerReflectedFlags, flagsWriteTick, playerDataDisposition,
                          smallestIncompleteTick, sinceRealUpdate>>
      /\ smallestUnsentTick' \in {smallestUnsentTick, smallestIncompleteTick'}
      /\ sinceSent' \in {0, sinceSent}
      /\ scan' = NONE
      /\ died' = FALSE
      /\ UNCHANGED <<hubActive, silence, playerVars, smallestUnacknowledgedTick,
                     flagsReadTick, dispositionReadTick, dispositionWriteTick,
                     dying, suspended, cleanupVars, failedAsserts>>
  <2>1. ASSUME MakesUpFlags, NEW i \in Missing
        PROVE  flagsWriteTick[i] - flagsReadTick[i] < QueueSize
    <3>1. tick < dispositionWriteTick
      BY <2>1 DEF MakesUpFlags, MayMakeUp
    <3>2. flagsReadTick[i] = dispositionReadTick
      BY <1>2, <1>3 DEF Smaller
    <3> QED BY <1>2, <1>3, <3>1, <3>2, Constants
  <2>2. ASSUME MakesUpFlags
        PROVE  {i \in Missing : flagsWriteTick[i] - flagsReadTick[i] >= QueueSize} = {}
    <3>1. ASSUME NEW i \in Missing
          PROVE  /\ flagsWriteTick[i] - flagsReadTick[i] < QueueSize
                 /\ flagsWriteTick[i] \in Int /\ flagsReadTick[i] \in Int
      <4>1. flagsWriteTick[i] \in Int /\ flagsReadTick[i] \in Int
        BY <1>2, <1>3 DEF Smaller
      <4> QED BY <2>1, <2>2, <4>1
    <3> QED BY <3>1, Constants
  <2> HIDE DEF written
  <2> QED BY <2>2 DEF HubTickEnd, SendPacketsIf, written
<1>5. Booked' = connected /\ connected' = connected
  BY <1>1, <1>4 DEF Booked, playerVars
<1> DEFINE n == smallestIncompleteTick'
           f == playerDataDisposition'
           w == flagsWriteTick'
<1>6. /\ n \in Int /\ tick <= n /\ n <= dispositionWriteTick
      /\ f \in [Ticks -> SUBSET Players]
      /\ w \in [Players -> FirstTick .. Horizon]
      /\ \A i \in Players : /\ flagsWriteTick[i] <= w[i] /\ w[i] <= dispositionWriteTick
                            /\ w[i] \in Int
                            /\ flagsReadTick[i] = Smaller(dispositionReadTick, w[i])
      /\ \A i \in connected : n <= w[i]
      /\ \A t \in Ticks : dispositionReadTick <= t /\ t < n =>
           f[t] = {i \in connected : smallestUnacknowledgedTick[i] <= t}
      /\ \A t \in Ticks : n <= t /\ t < dispositionWriteTick =>
           f[t] = {i \in connected : w[i] <= t}
      /\ \A t \in Ticks : dispositionReadTick <= t /\ t < dispositionWriteTick /\ connected # {} =>
           f[t] # {}
      /\ sinceRealUpdate' \in 0 .. MinimumSendPeriod
      /\ playerReflectedFlags' \in [Ticks -> SUBSET Players]
  <2>1. /\ \A t \in Ticks : t \in Int
        /\ \A t \in Ticks : dispositionReadTick <= t /\ t < tick =>
             playerDataDisposition[t] = {i \in connected : smallestUnacknowledgedTick[i] <= t}
        /\ \A t \in Ticks : tick <= t /\ t < dispositionWriteTick =>
             playerDataDisposition[t] = {i \in connected : flagsWriteTick[i] <= t}
        /\ \A t \in Ticks : dispositionReadTick <= t /\ t < dispositionWriteTick /\ connected # {} =>
             playerDataDisposition[t] # {}
    BY <1>1, Constants DEF HubInvariant, DispositionIsExact
  <2>2. CASE MakesUpFlags
    <3>1. tick < dispositionWriteTick /\ tick \in Ticks
      BY <1>2, <2>2, Constants DEF MakesUpFlags, MayMakeUp
    <3>2. n = tick + 1 /\ w = written
          /\ f = [playerDataDisposition EXCEPT ![tick] = connected]
      BY <1>4, <2>2
    <3>3. ASSUME NEW i \in Players
          PROVE  /\ w[i] = IF flagsWriteTick[i] = tick THEN tick + 1 ELSE flagsWriteTick[i]
                 /\ flagsWriteTick[i] <= w[i] /\ w[i] <= dispositionWriteTick
                 /\ w[i] \in Int
                 /\ flagsReadTick[i] = Smaller(dispositionReadTick, w[i])
      <4>1. w[i] = IF flagsWriteTick[i] = tick THEN tick + 1 ELSE flagsWriteTick[i]
        BY <3>2 DEF Missing
      <4> HIDE DEF w
      <4> QED BY <1>2, <3>1, <4>1 DEF Smaller
    <3>4. \A t \in Ticks : f[t] = IF t = tick THEN connected ELSE playerDataDisposition[t]
      BY <1>1, <3>2 DEF TypeOK
    <3>5. f \in [Ticks -> SUBSET Players]
      <4>1. playerDataDisposition \in [Ticks -> SUBSET Players]
        BY <1>1 DEF TypeOK
      <4> HIDE DEF f
      <4> QED BY <1>1, <3>2, <4>1
    <3>6. w \in [Players -> FirstTick .. Horizon]
      BY <1>1, <1>2, <3>1, <3>2, Constants DEF TypeOK
    <3>7. sinceRealUpdate' \in 0 .. MinimumSendPeriod
      BY <1>4, <2>2, HubConstants
    <3>8. playerReflectedFlags' \in [Ticks -> SUBSET Players]
      BY <1>1, <1>3, <1>4, <2>2 DEF TypeOK
    <3> HIDE DEF n, f, w
    <3>9. \A i \in connected : n <= w[i]
      BY <1>1, <1>2, <3>2, <3>3
    <3>10. ASSUME NEW t \in Ticks, dispositionReadTick <= t, t < n
           PROVE  f[t] = {i \in connected : smallestUnacknowledgedTick[i] <= t}
      <4>1. CASE t = tick
        BY <1>1, <1>2, <3>4, <4>1
      <4>2. CASE t # tick
        BY <1>2, <2>1, <3>2, <3>4, <3>10, <4>2
      <4> QED BY <4>1, <4>2
    <3>11. ASSUME NEW t \in Ticks, n <= t, t < dispositionWriteTick
           PROVE  f[t] = {i \in connected : w[i] <= t}
      <4>1. t \in Int /\ tick < t
        BY <1>2, <2>1, <3>2, <3>11
      <4>2. f[t] = {i \in connected : flagsWriteTick[i] <= t}
        BY <1>2, <2>1, <3>4, <3>11, <4>1
      <4>3. \A i \in connected : flagsWriteTick[i] <= t <=> w[i] <= t
        BY <1>1, <1>2, <3>3, <4>1
      <4> QED BY <4>2, <4>3
    <3> QED BY <1>2, <2>1, <3>1, <3>2, <3>3, <3>4, <3>5, <3>6, <3>7, <3>8, <3>9, <3>10, <3>11
  <2>3. CASE ~MakesUpFlags
    <3>1. /\ n = tick /\ w = flagsWriteTick /\ f = playerDataDisposition
          /\ sinceRealUpdate' = sinceRealUpdate /\ playerReflectedFlags' = playerReflectedFlags
      BY <1>4, <2>3
    <3> HIDE DEF n, f, w
    <3>2. /\ f \in [Ticks -> SUBSET Players] /\ w \in [Players -> FirstTick .. Horizon]
          /\ sinceRealUpdate \in 0 .. MinimumSendPeriod
          /\ playerReflectedFlags \in [Ticks -> SUBSET Players]
      BY <1>1, <3>1 DEF TypeOK
    <3> QED BY <1>1, <1>2, <2>1, <3>1, <3>2
  <2> QED BY <2>2, <2>3
<1> HIDE DEF n, f, w
<1>7. DispositionIsExact'
  BY <1>4, <1>5, <1>6 DEF DispositionIsExact, n, f, w
<1>8. QueuesLineUp'
  <2>1. \A i \in Players : i \notin connected => netDeadTick[i] <= w[i]
    <3>1. \A i \in Players : netDeadTick[i] \in Int
      BY <1>1, Constants DEF TypeOK
    <3>2. \A i \in Players : i \notin connected => netDeadTick[i] <= flagsWriteTick[i]
      BY <1>1 DEF QueuesLineUp
    <3> QED BY <1>2, <1>6, <3>1, <3>2
  <2>2. /\ dispositionReadTick' = dispositionReadTick /\ dispositionWriteTick' = dispositionWriteTick
        /\ smallestUnacknowledgedTick' = smallestUnacknowledgedTick
        /\ flagsReadTick' = flagsReadTick /\ netDeadTick' = netDeadTick
        /\ smallestUnsentTick' \in {smallestUnsentTick, n}
    BY <1>4 DEF playerVars, n
  <2>3. dispositionReadTick <= n /\ smallestUnsentTick' <= n
        /\ \A i \in connected : smallestUnacknowledgedTick[i] <= n
    BY <1>1, <1>2, <1>6, <2>2
  <2> QED BY <1>2, <1>5, <1>6, <2>1, <2>2, <2>3 DEF QueuesLineUp, n, w
<1>9. TypeOK'
  <2>1. laggingPlayers' \in SUBSET Players
    BY <1>1, <1>4 DEF Laggards, NotReady, Playing, TypeOK
  <2>2. n \in FirstTick .. Horizon /\ smallestUnsentTick' \in FirstTick .. Horizon
    <3>1. n \in FirstTick .. Horizon
      BY <1>2, <1>6, Constants
    <3> QED BY <1>1, <1>4, <3>1 DEF TypeOK, n
  <2>3. sinceSent' \in 0 .. RecoverySendPeriod
    BY <1>1, <1>4, HubConstants DEF TypeOK
  <2>4. died' \in BOOLEAN
    BY <1>4, Zenon
  <2>5. scan' = NONE
    BY <1>4
  <2> QED BY <1>1, <1>4, <1>6, <2>1, <2>2, <2>3, <2>4, <2>5
          DEF TypeOK, playerVars, cleanupVars, n, f, w
<1>10. LoopState' /\ HousekeepingAssertsHold'
  <2>1. NONE \notin connected
    BY <1>1, Constants
  <2> QED BY <1>1, <1>4, <1>5, <2>1 DEF HubInvariant, LoopState, HousekeepingAssertsHold
<1> QED BY <1>7, <1>8, <1>9, <1>10 DEF HubInvariant

-----------------------------------------------------------------------------
(* The steps of a standalone hub that has lost everybody.                    *)

\* Neither bookkeeping routine takes a tick back, nor moves one past the end of the queues,
\* as long as its asserts hold.
LEMMA BookingGoesOn ==
  ASSUME TypeOK, NEW p \in Players, NEW d, NEW hi \in FirstTick .. Horizon,
         NEW ack \in FirstTick .. Horizon
  PROVE  /\ LET b == Provided(d, p, flagsWriteTick[p], hi)
            IN  b.failed = {} => /\ b.incomplete \in FirstTick .. Horizon
                                 /\ smallestIncompleteTick <= b.incomplete
         /\ LET a == Acknowledged(d, p, ack)
            IN  a.failed = {} => /\ a.read \in FirstTick .. Horizon
                                 /\ dispositionReadTick <= a.read
                                 /\ a.flags \in [Players -> FirstTick .. Horizon]
<1>1. /\ FirstTick \in Int /\ Horizon \in Int /\ hi \in Int /\ ack \in Int
      /\ smallestIncompleteTick \in FirstTick .. Horizon /\ dispositionReadTick \in FirstTick .. Horizon
      /\ flagsWriteTick[p] \in FirstTick .. Horizon /\ smallestUnacknowledgedTick[p] \in FirstTick .. Horizon
      /\ \A i \in Players : flagsReadTick[i] \in FirstTick .. Horizon /\ flagsWriteTick[i] \in FirstTick .. Horizon
  BY Constants DEF TypeOK
<1>2. ASSUME NEW lo \in FirstTick .. Horizon, NEW end \in FirstTick .. Horizon,
             NEW start \in FirstTick .. Horizon, NEW e,
             start .. PastEnd(NobodyAwaited(e, lo, end), start) - 1 = NobodyAwaited(e, lo, end)
      PROVE  /\ PastEnd(NobodyAwaited(e, lo, end), start) \in FirstTick .. Horizon
             /\ start <= PastEnd(NobodyAwaited(e, lo, end), start)
  <2> DEFINE S == NobodyAwaited(e, lo, end)
             n == PastEnd(S, start)
  <2>1. S \in SUBSET (lo .. end - 1) /\ lo \in Int /\ end \in Int /\ start \in Int
    BY <1>1 DEF NobodyAwaited
  <2> HIDE DEF S
  <2>2. /\ S = {} => n = start
        /\ S # {} => n \in Int /\ lo < n /\ n <= end
    BY <2>1, PastEndOfPart
  <2>3. start .. n - 1 = S
    BY <1>2 DEF S
  <2> HIDE DEF n
  <2>4. n \in FirstTick .. Horizon /\ start <= n
    <3>1. CASE S = {}
      BY <1>1, <2>1, <2>2, <3>1
    <3>2. CASE S # {}
      <4>1. PICK t \in start .. n - 1 : TRUE
        BY <2>3, <3>2
      <4>2. n \in Int /\ lo < n /\ n <= end
        BY <2>2, <3>2
      <4>3. start <= n
        BY <2>1, <4>1, <4>2
      <4> QED BY <1>1, <2>1, <4>2, <4>3
    <3> QED BY <3>1, <3>2
  <2> QED BY <2>4 DEF n, S
<1> DEFINE b == Provided(d, p, flagsWriteTick[p], hi)
           a == Acknowledged(d, p, ack)
<1>3. ASSUME b.failed = {}
      PROVE  b.incomplete \in FirstTick .. Horizon /\ smallestIncompleteTick <= b.incomplete
  <2>1. PICK e : /\ b.incomplete = PastEnd(NobodyAwaited(e, flagsWriteTick[p], hi), smallestIncompleteTick)
                 /\ (smallestIncompleteTick .. b.incomplete - 1 # NobodyAwaited(e, flagsWriteTick[p], hi))
                      => 1109 \in b.failed
    BY DEF Provided
  <2> HIDE DEF b
  <2>2. smallestIncompleteTick .. b.incomplete - 1 = NobodyAwaited(e, flagsWriteTick[p], hi)
    BY <1>3, <2>1
  <2> QED BY <1>1, <1>2, <2>1, <2>2
<1>4. ASSUME a.failed = {}
      PROVE  /\ a.read \in FirstTick .. Horizon /\ dispositionReadTick <= a.read
             /\ a.flags \in [Players -> FirstTick .. Horizon]
  <2>1. PICK e : /\ a.read = PastEnd(NobodyAwaited(e, smallestUnacknowledgedTick[p], ack), dispositionReadTick)
                 /\ (dispositionReadTick .. a.read - 1 # NobodyAwaited(e, smallestUnacknowledgedTick[p], ack))
                      => 983 \in a.failed
                 /\ a.flags = DequeuedFlags(a.read)
    BY DEF Acknowledged
  <2> HIDE DEF a
  <2>2. dispositionReadTick .. a.read - 1 = NobodyAwaited(e, smallestUnacknowledgedTick[p], ack)
    BY <1>4, <2>1
  <2>3. a.read \in FirstTick .. Horizon /\ dispositionReadTick <= a.read
    BY <1>1, <1>2, <2>1, <2>2
  <2>4. ASSUME NEW i \in Players
        PROVE  (IF flagsReadTick[i] < flagsWriteTick[i]
                THEN Smaller(flagsReadTick[i] + a.read - dispositionReadTick, flagsWriteTick[i])
                ELSE flagsReadTick[i]) \in FirstTick .. Horizon
    BY <1>1, <2>3 DEF Smaller
  <2>5. a.flags \in [Players -> FirstTick .. Horizon]
    BY <2>1, <2>4 DEF DequeuedFlags
  <2> QED BY <2>3, <2>5
<1> QED BY <1>3, <1>4

LEMMA NobodyLeftBooks ==
  ASSUME NobodyLeft, BookNetDeath
  PROVE  /\ NobodyLeft' /\ smallestIncompleteTick <= smallestIncompleteTick'
         /\ dispositionReadTick <= dispositionReadTick'
<1> DEFINE b == Provided(playerDataDisposition, dying, flagsWriteTick[dying], dispositionWriteTick)
           a == Acknowledged(b.disposition, dying, smallestIncompleteTick)
           acks == [smallestUnacknowledgedTick EXCEPT ![dying] = smallestIncompleteTick]
<1>1. /\ dying \in Players /\ scan \in Players /\ TypeOK /\ Standalone /\ connected = {}
      /\ smallestIncompleteTick \in FirstTick .. Horizon /\ dispositionWriteTick \in FirstTick .. Horizon
      /\ dispositionReadTick \in FirstTick .. Horizon /\ FirstTick \in Int /\ Horizon \in Int
  BY Constants DEF NobodyLeft, BookNetDeath, TypeOK
<1>2. /\ b.failed = {} => /\ b.incomplete \in FirstTick .. Horizon
                          /\ smallestIncompleteTick <= b.incomplete
      /\ a.failed = {} => /\ a.read \in FirstTick .. Horizon
                          /\ dispositionReadTick <= a.read
                          /\ a.flags \in [Players -> FirstTick .. Horizon]
  BY <1>1, BookingGoesOn
<1>3. a.disposition \in [Ticks -> SUBSET Players]
  <2>1. b.disposition \in [Ticks -> SUBSET Players]
    BY <1>1 DEF Provided, AwaitAcks, ClearBit, TypeOK
  <2>2. a.disposition = ClearBit(b.disposition, dying, smallestUnacknowledgedTick[dying], smallestIncompleteTick)
    BY DEF Acknowledged
  <2> HIDE DEF a, b
  <2> QED BY <2>1, <2>2 DEF ClearBit
<1>4. a.failed \cup b.failed \in SUBSET {959, 963, 983, 988, 994, 1067, 1089, 1097, 1109}
  <2>1. a.failed \in SUBSET {959, 963, 983, 988, 994}
    BY DEF Acknowledged
  <2>2. b.failed \in SUBSET {1097, 1109}
    BY DEF Provided
  <2> HIDE DEF a, b
  <2> QED BY <2>1, <2>2
<1>5. IF a.failed \cup b.failed # {} THEN Abort(a.failed \cup b.failed)
      ELSE /\ playerDataDisposition' = a.disposition
           /\ smallestIncompleteTick' = b.incomplete
           /\ sinceRealUpdate' = (IF b.completes THEN 0 ELSE sinceRealUpdate)
           /\ laggingPlayers' \in {laggingPlayers, laggingPlayers \ {dying}}
           /\ smallestUnacknowledgedTick' = acks
           /\ dispositionReadTick' = a.read
           /\ flagsReadTick' = a.flags
           /\ playerReflectedFlags' = Dequeued(playerReflectedFlags, a.read)
           /\ hubActive' = (hubActive /\ SomeoneStillActive(acks))
           /\ dying' = suspended /\ suspended' = NONE
           /\ scan' = (IF suspended = NONE THEN scan + 1 ELSE scan)
           /\ UNCHANGED <<silence, playerVars, flagsWriteTick, dispositionWriteTick,
                          sendVars, died, cleanupVars, failedAsserts>>
  BY DEF BookNetDeath
<1> HIDE DEF a, b
<1>6. CASE a.failed \cup b.failed # {}
  <2>1. Abort(a.failed \cup b.failed)
    BY <1>5, <1>6
  <2>2. failedAsserts' \in SUBSET {959, 963, 983, 988, 994, 1067, 1089, 1097, 1109}
    BY <1>4, <2>1 DEF Abort
  <2>3. TypeOK'
    BY <1>1, <2>1, <2>2 DEF Abort, TypeOK, playerVars, queueVars, sendVars, lagVars, tickVars, cleanupVars
  <2>4. UNCHANGED <<connected, scan, smallestIncompleteTick, dispositionReadTick>>
    BY <2>1 DEF Abort, playerVars, queueVars, tickVars
  <2> QED BY <1>1, <2>3, <2>4 DEF NobodyLeft, Standalone
<1>7. CASE a.failed \cup b.failed = {}
  <2>1. /\ playerDataDisposition' = a.disposition
        /\ smallestIncompleteTick' = b.incomplete
        /\ sinceRealUpdate' \in {0, sinceRealUpdate}
        /\ laggingPlayers' \in {laggingPlayers, laggingPlayers \ {dying}}
        /\ smallestUnacknowledgedTick' = acks
        /\ dispositionReadTick' = a.read
        /\ flagsReadTick' = a.flags
        /\ playerReflectedFlags' = Dequeued(playerReflectedFlags, a.read)
        /\ dying' = suspended /\ suspended' = NONE
        /\ scan' = (IF suspended = NONE THEN scan + 1 ELSE scan)
        /\ UNCHANGED <<silence, playerVars, flagsWriteTick, dispositionWriteTick,
                       sendVars, died, cleanupVars, failedAsserts>>
    BY <1>5, <1>7
  <2>2. acks \in [Players -> FirstTick .. Horizon]
    BY <1>1 DEF TypeOK
  <2> HIDE DEF acks
  <2>3. Dequeued(playerReflectedFlags, a.read) \in [Ticks -> SUBSET Players]
    BY <1>1 DEF Dequeued, TypeOK
  <2>4. hubActive' \in BOOLEAN
    <3>1. hubActive \in BOOLEAN /\ hubActive' = (hubActive /\ SomeoneStillActive(acks))
      BY <1>1, <1>5, <1>7 DEF TypeOK
    <3> QED BY <3>1, Zenon DEF SomeoneStillActive
  <2>5. sinceRealUpdate' \in 0 .. MinimumSendPeriod /\ laggingPlayers' \in SUBSET Players
    BY <1>1, <2>1, HubConstants DEF TypeOK
  <2>6. /\ scan' \in Players \cup {NumPlayers} /\ dying' \in Players \cup {NONE} /\ suspended' = NONE
        /\ scan' \notin Players => dying' = NONE
    BY <1>1, <2>1, Constants DEF Players, TypeOK
  <2>7. TypeOK'
    BY <1>1, <1>2, <1>3, <1>7, <2>1, <2>2, <2>3, <2>4, <2>5, <2>6
       DEF TypeOK, playerVars, sendVars, cleanupVars
  <2>8. connected' = {}
    BY <1>1, <2>1 DEF playerVars
  <2>9. smallestIncompleteTick <= smallestIncompleteTick' /\ dispositionReadTick <= dispositionReadTick'
    BY <1>2, <1>7, <2>1
  <2> QED BY <1>1, <2>6, <2>7, <2>8, <2>9 DEF NobodyLeft, Standalone
<1> QED BY <1>6, <1>7

\* No flags are made up when nobody plays.
LEMMA NobodyMakesUpFlags == ASSUME connected = {} PROVE ~MakesUpFlags
<1>1. Playing = {} /\ NotReady = {}
  BY DEF Playing, NotReady
<1>2. Cardinality(Playing \ NotReady) = 0 /\ Cardinality(NotReady) = 0
  BY <1>1, FS_EmptySet
<1> QED BY <1>2 DEF MakesUpFlags

LEMMA NobodyLeftStep ==
  ASSUME NobodyLeft, [Next]_hubVars
  PROVE  /\ NobodyLeft'
         /\ \/ BookNetDeath
            \/ UNCHANGED <<connected, netDeadTick, smallestIncompleteTick, playerReflectedFlags,
                          flagsWriteTick>>
<1>1. /\ TypeOK /\ Standalone /\ connected = {} /\ (scan \notin Players => dying = NONE)
      /\ SilenceCap \in Nat /\ MinimumSendPeriod \in Nat /\ RecoverySendPeriod \in Nat
  BY HubConstants DEF NobodyLeft, SilenceCap, Larger
<1> SUFFICES /\ NobodyLeft'
             /\ \/ BookNetDeath
                \/ UNCHANGED <<connected, netDeadTick, smallestIncompleteTick, playerReflectedFlags,
                              flagsWriteTick>>
  OBVIOUS
<1>2. ASSUME NEW p \in Players, NEW ack, NEW start, NEW end, ReceiveGameData(p, ack, start, end) PROVE FALSE
  BY <1>1, <1>2 DEF ReceiveGameData
<1>3. CASE ScanNetDead
  BY <1>1, <1>3 DEF ScanNetDead, NetDead
<1>4. CASE BookNetDeath
  BY <1>4, NobodyLeftBooks
<1>5. CASE \E p \in Players : ReceiveIdentification(p)
  BY <1>1, <1>5 DEF ReceiveIdentification, NobodyLeft, Standalone, TypeOK, queueVars, sendVars, lagVars,
                    tickVars, cleanupVars
<1>6. CASE HubTickBegin
  <2>1. silence' \in [Players -> 0 .. SilenceCap]
    BY <1>1, <1>6 DEF HubTickBegin, TypeOK, Smaller
  <2>2. sinceRealUpdate' \in 0 .. MinimumSendPeriod /\ sinceSent' \in 0 .. RecoverySendPeriod
    BY <1>1, <1>6 DEF HubTickBegin, TypeOK, Smaller
  <2>3. scan' \in Players
    BY <1>6, Constants DEF HubTickBegin, Players
  <2>4. died' \in BOOLEAN
    BY <1>6, Zenon DEF HubTickBegin
  <2>5. UNCHANGED <<hubActive, playerVars, queueVars, smallestUnsentTick, laggingPlayers,
                    dying, suspended, cleanupVars, failedAsserts>>
    BY <1>6 DEF HubTickBegin
  <2>6. TypeOK'
    BY <1>1, <2>1, <2>2, <2>3, <2>4, <2>5 DEF TypeOK, playerVars, queueVars, cleanupVars
  <2> QED BY <1>1, <2>3, <2>5, <2>6 DEF NobodyLeft, Standalone, playerVars, queueVars
<1>7. CASE ScanSurvivors
  <2>1. scan' = NumPlayers /\ dying = NONE
        /\ UNCHANGED <<hubActive, silence, playerVars, queueVars, sendVars, lagVars,
                       died, dying, suspended, cleanupVars, failedAsserts>>
    BY <1>1, <1>7 DEF ScanSurvivors, NetDead
  <2>2. TypeOK'
    BY <1>1, <2>1 DEF TypeOK, playerVars, queueVars, sendVars, lagVars, cleanupVars
  <2> QED BY <1>1, <2>1, <2>2 DEF NobodyLeft, Standalone, playerVars, queueVars
<1>8. CASE HubTickEnd
  <2>1. ~MakesUpFlags
    BY <1>1, NobodyMakesUpFlags
  <2>2. /\ laggingPlayers' = Laggards
        /\ smallestUnsentTick' \in {smallestUnsentTick, smallestIncompleteTick}
        /\ sinceSent' \in {0, sinceSent}
        /\ scan' = NONE /\ died' = FALSE /\ dying = NONE
        /\ UNCHANGED <<playerReflectedFlags, flagsWriteTick, playerDataDisposition,
                       smallestIncompleteTick, sinceRealUpdate, hubActive, silence, playerVars,
                       smallestUnacknowledgedTick, flagsReadTick, dispositionReadTick,
                       dispositionWriteTick, dying, suspended, cleanupVars, failedAsserts>>
    BY <1>8, <2>1 DEF HubTickEnd, SendPacketsIf
  <2>3. laggingPlayers' \in SUBSET Players
    BY <1>1, <2>2 DEF Laggards, NotReady, Playing, TypeOK
  <2>4. died' \in BOOLEAN
    BY <2>2, Zenon
  <2>5. sinceSent' \in 0 .. RecoverySendPeriod
    BY <1>1, <2>2, HubConstants DEF TypeOK
  <2>6. TypeOK'
    BY <1>1, <2>2, <2>3, <2>4, <2>5 DEF TypeOK, playerVars, cleanupVars
  <2> QED BY <1>1, <2>2, <2>6 DEF NobodyLeft, Standalone, playerVars
<1>9. CASE HubCleanupEnd \/ \E graceful \in BOOLEAN, post \in PostGameTicks : HubCleanup(graceful, post)
  <2>1. hubActive' \in BOOLEAN
    <3>1. hubActive \in BOOLEAN
      BY <1>1 DEF TypeOK
    <3> QED BY <1>9, <3>1, Zenon DEF HubCleanupEnd, HubCleanup
  <2>2. /\ cleanup' \in {"none", "waiting", "done"}
        /\ smallestPostGameTick' \in FirstTick .. Horizon + 1
    BY <1>1, <1>9, Constants, HubConstants DEF HubCleanupEnd, HubCleanup, TypeOK
  <2>3. UNCHANGED <<silence, playerVars, queueVars, sendVars, lagVars, tickVars, failedAsserts>>
    BY <1>9 DEF HubCleanupEnd, HubCleanup
  <2>4. TypeOK'
    BY <1>1, <2>1, <2>2, <2>3 DEF TypeOK, playerVars, queueVars, sendVars, lagVars, tickVars
  <2> QED BY <1>1, <2>3, <2>4 DEF NobodyLeft, Standalone, playerVars, queueVars, tickVars
<1>10. CASE UNCHANGED hubVars
  BY <1>1, <1>10 DEF NobodyLeft, Standalone, TypeOK, hubVars, playerVars, queueVars, sendVars, lagVars,
                     tickVars, cleanupVars
<1> QED BY <1>2, <1>3, <1>4, <1>5, <1>6, <1>7, <1>8, <1>9, <1>10 DEF Next, HubTick, SpokeSends

-----------------------------------------------------------------------------
(* The theorems.                                                             *)

\* A step of either hub, and of the gatherer's.
LEMMA AnyStepInvariant ==
  ASSUME HubOrNobody, [Next]_hubVars
  PROVE  /\ HubOrNobody'
         /\ HubInvariant /\ ~Standalone => HubInvariant'
<1>1. CASE NobodyLeft
  BY <1>1, NobodyLeftStep DEF HubOrNobody, NobodyLeft
<1>2. CASE HubInvariant
  <2>1. CASE \E p \in Players : ReceiveIdentification(p)
    BY <1>2, <2>1, IdentificationInvariant DEF HubOrNobody
  <2>2. CASE \E p \in Players, ack, start, end \in FirstTick .. Horizon : SpokeSends(p, ack, start, end)
    <3>1. PICK p \in Players, ack \in FirstTick .. Horizon, start \in FirstTick .. Horizon,
               end \in FirstTick .. Horizon : ReceiveGameData(p, ack, start, end)
      BY <2>2 DEF SpokeSends
    <3> QED BY <1>2, <3>1, GameDataInvariant DEF HubOrNobody
  <2>3. CASE HubTick
    BY <1>2, <2>3, TickBeginInvariant, SurvivorInvariant, NetDeadInvariant, BookNetDeathInvariant,
       TickEndInvariant DEF HubTick, HubOrNobody
  <2>4. CASE HubCleanupEnd \/ \E graceful \in BOOLEAN, post \in PostGameTicks :
               HubCleanup(graceful, post)
    BY <1>2, <2>4, CleanupInvariant DEF HubOrNobody
  <2>5. CASE UNCHANGED hubVars
    <3>1. Booked' = Booked
      BY <2>5 DEF Booked, hubVars, playerVars, tickVars
    <3>2. QueuesLineUp' /\ DispositionIsExact'
      BY <1>2, <2>5, <3>1, QueuesUndisturbed DEF HubInvariant, hubVars, playerVars, sendVars
    <3>3. TypeOK'
      BY <1>2, <2>5 DEF HubInvariant, TypeOK, hubVars, playerVars, queueVars, sendVars, lagVars,
                  tickVars, cleanupVars
    <3>4. LoopState' /\ HousekeepingAssertsHold'
      BY <1>2, <2>5 DEF HubInvariant, LoopState, HousekeepingAssertsHold, hubVars, playerVars, tickVars
    <3> QED BY <3>2, <3>3, <3>4 DEF HubInvariant, HubOrNobody
  <2> QED BY <2>1, <2>2, <2>3, <2>4, <2>5 DEF Next
<1> QED BY <1>1, <1>2 DEF HubOrNobody

LEMMA StepInvariant ==
  ASSUME ~Standalone, HubInvariant, [Next]_hubVars
  PROVE  HubInvariant'
BY AnyStepInvariant DEF HubOrNobody

\* Not a standalone hub that everybody has left.  The gatherer's hub books its deaths one at a
\* time, down to the last.
NotDeserted == Standalone => connected # {}

\* The invariant of a hub, whatever its spokes send, and what is left of it once a standalone
\* hub has lost everybody.
THEOREM HubSafe == Spec => []HubOrNobody
<1>1. Init => HubOrNobody
  BY InitInvariant DEF HubOrNobody
<1>2. HubOrNobody /\ [Next]_hubVars => HubOrNobody'
  BY AnyStepInvariant
<1> QED BY <1>1, <1>2, PTL DEF Spec

LEMMA InvariantUnlessDeserted == HubOrNobody /\ NotDeserted => HubInvariant
BY DEF HubOrNobody, NobodyLeft, NotDeserted

\* The state of a hub has its type: no tick leaves the range of the queues.
THEOREM HubTypeCorrect == Spec => []TypeOK
<1>1. HubOrNobody => TypeOK
  BY DEF HubOrNobody, HubInvariant, NobodyLeft
<1> QED BY <1>1, HubSafe, PTL

\* Until a standalone hub is deserted, sPlayerDataDisposition says exactly whom the hub is waiting for,
\* at every tick.
THEOREM HubDispositionIsExact == Spec => [](NotDeserted => DispositionIsExact)
<1>1. HubOrNobody => (NotDeserted => DispositionIsExact)
  BY InvariantUnlessDeserted DEF HubInvariant
<1> QED BY <1>1, HubSafe, PTL

\* Until a standalone hub is deserted, the tick-based queues keep their order and never exceed their
\* capacity.
THEOREM HubQueuesLineUp == Spec => [](NotDeserted => QueuesLineUp)
<1>1. HubOrNobody => (NotDeserted => QueuesLineUp)
  BY InvariantUnlessDeserted DEF HubInvariant
<1> QED BY <1>1, HubSafe, PTL

\* None of the housekeeping's asserts in lines 959, 983, 994, 1067, 1089, 1097 and 1109 can fail until
\* a standalone hub is deserted. Nothing is said of the two about sFlagSendTimeQueue (963 and 988).
THEOREM HubAssertsHold == Spec => [](NotDeserted => HousekeepingAssertsHold)
<1>1. HubOrNobody => (NotDeserted => HousekeepingAssertsHold)
  BY InvariantUnlessDeserted DEF HubInvariant
<1> QED BY <1>1, HubSafe, PTL

\* Whatever send_packets may have to encode for a connected spoke is still queued.
THEOREM HubKeepsWhatItMayResend == Spec => []KeepsWhatItMayResend
<1>1. HubInvariant => KeepsWhatItMayResend
  <2> SUFFICES ASSUME HubInvariant, NEW i \in connected, NEW t \in Ticks,
                      smallestUnacknowledgedTick[i] <= t, t < smallestIncompleteTick
               PROVE  /\ dispositionReadTick <= t /\ t < dispositionWriteTick
                      /\ \A j \in Players : j \in connected \/ t < netDeadTick[j] =>
                           flagsReadTick[j] <= t /\ t < flagsWriteTick[j]
    BY DEF KeepsWhatItMayResend
  <2>1. /\ t \in Int /\ dispositionReadTick \in Int /\ dispositionWriteTick \in Int
        /\ smallestIncompleteTick \in Int /\ smallestUnacknowledgedTick[i] \in Int
        /\ dispositionReadTick <= smallestUnacknowledgedTick[i]
        /\ smallestIncompleteTick <= dispositionWriteTick
        /\ connected \subseteq Players
        /\ \A j \in Players : /\ netDeadTick[j] \in Int /\ flagsWriteTick[j] \in Int
                              /\ flagsReadTick[j] = Smaller(dispositionReadTick, flagsWriteTick[j])
                              /\ j \notin connected => netDeadTick[j] <= flagsWriteTick[j]
        /\ \A j \in connected : smallestIncompleteTick <= flagsWriteTick[j]
    BY Constants DEF HubInvariant, TypeOK, QueuesLineUp, Booked
  <2>2. dispositionReadTick <= t /\ t < dispositionWriteTick
    BY <2>1
  <2>3. ASSUME NEW j \in Players, j \in connected \/ t < netDeadTick[j]
        PROVE  flagsReadTick[j] <= t /\ t < flagsWriteTick[j]
    <3>1. t < flagsWriteTick[j]
      BY <2>1, <2>3
    <3> QED BY <2>1, <2>2, <3>1 DEF Smaller
  <2> QED BY <2>2, <2>3
<1>2. NobodyLeft => KeepsWhatItMayResend
  BY DEF NobodyLeft, KeepsWhatItMayResend
<1>3. HubOrNobody => KeepsWhatItMayResend
  BY <1>1, <1>2 DEF HubOrNobody
<1> QED BY <1>3, HubSafe, PTL

\* A tick that has been sent is not completed again, nor given other made-up flags, and no
\* player's death is dated before it.
THEOREM HubSentTicksStand == Spec => SentTicksStand
<1> DEFINE Stands ==
      /\ smallestIncompleteTick' >= smallestIncompleteTick
      /\ \A t \in Ticks : dispositionReadTick' <= t /\ t < smallestUnsentTick =>
           playerReflectedFlags'[t] = playerReflectedFlags[t]
      /\ \A i \in Players : netDeadTick'[i] # netDeadTick[i] =>
           netDeadTick'[i] >= smallestUnsentTick /\ i \in connected /\ i \notin connected'
<1>1. ASSUME HubInvariant, Next PROVE Stands
  <2>1. /\ smallestIncompleteTick \in Int /\ smallestUnsentTick \in Int
        /\ smallestUnsentTick <= smallestIncompleteTick
        /\ dispositionReadTick \in Int
        /\ \A t \in Ticks : t \in Int
        /\ playerReflectedFlags \in [Ticks -> SUBSET Players]
    BY <1>1, Constants DEF HubInvariant, TypeOK, QueuesLineUp
  <2>2. CASE UNCHANGED <<netDeadTick, smallestIncompleteTick, playerReflectedFlags>>
    BY <2>1, <2>2
  <2>3. CASE \E p \in Players, ack, start, end \in FirstTick .. Horizon : SpokeSends(p, ack, start, end)
    <3>1. PICK p \in Players, ack \in FirstTick .. Horizon, start \in FirstTick .. Horizon,
               end \in FirstTick .. Horizon : ReceiveGameData(p, ack, start, end)
      BY <2>3 DEF SpokeSends
    <3>2. smallestIncompleteTick <= smallestIncompleteTick'
      BY <1>1, <3>1, GameDataInvariant
    <3>3. /\ netDeadTick' = netDeadTick
          /\ \/ playerReflectedFlags' = playerReflectedFlags
             \/ playerReflectedFlags' = Dequeued(playerReflectedFlags, dispositionReadTick')
      <4>1. PICK a, end2, b : BookGameData(p, ack, a, end2, b)
        BY <3>1 DEF ReceiveGameData
      <4> QED BY <4>1 DEF BookGameData, Abort, playerVars, queueVars
    <3>4. \A t \in Ticks : dispositionReadTick' <= t => playerReflectedFlags'[t] = playerReflectedFlags[t]
      <4>1. dispositionReadTick' \in Int
        BY <1>1, <3>1, GameDataInvariant, Constants DEF HubInvariant, TypeOK
      <4> QED BY <2>1, <3>3, <4>1 DEF Dequeued
    <3>5. smallestIncompleteTick' \in Int
      BY <1>1, <3>1, GameDataInvariant, Constants DEF HubInvariant, TypeOK
    <3> QED BY <2>1, <3>2, <3>3, <3>4, <3>5
  <2>4. CASE BookNetDeath
    <3>1. smallestIncompleteTick <= smallestIncompleteTick'
      BY <1>1, <2>4, BookNetDeathInvariant
    <3>2. smallestIncompleteTick' \in Int /\ dispositionReadTick' \in Int
      BY <1>1, <2>4, BookNetDeathInvariant, Constants DEF HubInvariant, TypeOK
    <3>3. /\ netDeadTick' = netDeadTick
          /\ \/ playerReflectedFlags' = playerReflectedFlags
             \/ playerReflectedFlags' = Dequeued(playerReflectedFlags, dispositionReadTick')
      BY <2>4 DEF BookNetDeath, Abort, playerVars, queueVars
    <3>4. \A t \in Ticks : dispositionReadTick' <= t => playerReflectedFlags'[t] = playerReflectedFlags[t]
      BY <2>1, <3>2, <3>3 DEF Dequeued
    <3> QED BY <2>1, <3>1, <3>2, <3>3, <3>4
  <2>5. CASE ScanNetDead
    <3>1. PICK buried : /\ buried \subseteq connected /\ connected' = connected \ buried
                        /\ netDeadTick' = [i \in Players |-> IF i \in buried THEN smallestIncompleteTick
                                                                             ELSE netDeadTick[i]]
                        /\ UNCHANGED <<smallestIncompleteTick, playerReflectedFlags>>
      BY <2>5 DEF ScanNetDead, NetDead, queueVars
    <3> QED BY <2>1, <3>1
  <2>6. CASE HubTickEnd
    <3>1. /\ netDeadTick' = netDeadTick
          /\ \/ UNCHANGED <<smallestIncompleteTick, playerReflectedFlags>>
             \/ /\ smallestIncompleteTick' = smallestIncompleteTick + 1
                /\ playerReflectedFlags' = [playerReflectedFlags EXCEPT ![smallestIncompleteTick] = @ \cup Missing]
      BY <2>6 DEF HubTickEnd, Abort, playerVars, queueVars
    <3> QED BY <2>1, <3>1
  <2>7. CASE \/ \E p \in Players : ReceiveIdentification(p)
             \/ HubTickBegin
             \/ ScanSurvivors
             \/ HubCleanupEnd
             \/ \E graceful \in BOOLEAN, post \in PostGameTicks : HubCleanup(graceful, post)
    <3>1. UNCHANGED <<netDeadTick, smallestIncompleteTick, playerReflectedFlags>>
      BY <2>7 DEF ReceiveIdentification, HubTickBegin, ScanSurvivors, HubCleanupEnd, HubCleanup,
                  playerVars, queueVars
    <3> QED BY <2>2, <3>1
  <2> QED BY <1>1, <2>3, <2>4, <2>5, <2>6, <2>7 DEF Next, HubTick
<1>2. ASSUME NobodyLeft, Next PROVE Stands
  <2>1. CASE BookNetDeath
    <3>1. NobodyLeft' /\ smallestIncompleteTick <= smallestIncompleteTick'
      BY <1>2, <2>1, NobodyLeftBooks
    <3>2. /\ smallestIncompleteTick \in Int /\ smallestIncompleteTick' \in Int
          /\ dispositionReadTick' \in Int /\ \A t \in Ticks : t \in Int
      BY <1>2, <3>1, Constants DEF NobodyLeft, TypeOK
    <3>3. /\ netDeadTick' = netDeadTick
          /\ \/ playerReflectedFlags' = playerReflectedFlags
             \/ playerReflectedFlags' = Dequeued(playerReflectedFlags, dispositionReadTick')
      BY <2>1 DEF BookNetDeath, Abort, playerVars, queueVars
    <3>4. \A t \in Ticks : dispositionReadTick' <= t => playerReflectedFlags'[t] = playerReflectedFlags[t]
      BY <3>2, <3>3 DEF Dequeued
    <3> QED BY <3>1, <3>2, <3>3, <3>4
  <2>2. CASE UNCHANGED <<netDeadTick, smallestIncompleteTick, playerReflectedFlags>>
    <3>1. smallestIncompleteTick \in Int
      BY <1>2, Constants DEF NobodyLeft, TypeOK
    <3> QED BY <2>2, <3>1
  <2> QED BY <1>2, <2>1, <2>2, NobodyLeftStep
<1>3. HubOrNobody /\ [Next]_hubVars => [Stands]_hubVars
  BY <1>1, <1>2 DEF HubOrNobody
<1> QED BY <1>3, HubSafe, PTL DEF Spec, SentTicksStand

-----------------------------------------------------------------------------
(* Whom the hub of a dedicated server measures its players against.          *)

\* The reference player, and those he is chosen from.
ReferenceAmongPlayers == connected \in SUBSET Players /\ ReferenceIsInTheGame

\* make_player_netdead, also when the standalone hub goes on to bury the last player.
LEMMA NetDeadKeepsReference ==
  ASSUME ReferenceAmongPlayers, ScanNetDead
  PROVE  ReferenceAmongPlayers'
<1>1. PICK buried : /\ connected' = connected \ buried
                    /\ referencePlayer' = IF Standalone /\ referencePlayer \in buried
                                          THEN FallbackReference(connected \ buried) ELSE referencePlayer
  BY DEF ScanNetDead
<1>2. connected' \in SUBSET Players
  BY <1>1 DEF ReferenceAmongPlayers
<1>3. ASSUME Standalone, connected' # {} PROVE referencePlayer' \in connected'
  <2>1. CASE referencePlayer \in buried
    <3>1. \E i \in connected' : \A j \in connected' : j <= i
      BY <1>2, <1>3, FirstAndLast
    <3>2. FallbackReference(connected') \in connected'
      BY <1>3, <3>1 DEF FallbackReference
    <3> QED BY <1>1, <1>3, <2>1, <3>2
  <2>2. CASE referencePlayer \notin buried
    BY <1>1, <1>3, <2>2 DEF ReferenceAmongPlayers, ReferenceIsInTheGame
  <2> QED BY <2>1, <2>2
<1> QED BY <1>2, <1>3 DEF ReferenceAmongPlayers, ReferenceIsInTheGame, Standalone

\* A standalone hub never measures its players against one who has left, even when two deaths are
\* booked at once (make_player_netdead, lines 824-845).
THEOREM HubReferenceIsInTheGame == Spec => []ReferenceIsInTheGame
<1>1. Init => ReferenceAmongPlayers
  <2> SUFFICES ASSUME Init PROVE ReferenceAmongPlayers
    OBVIOUS
  <2>1. connected \in SUBSET Players /\ connected # {}
    BY DEF Init
  <2>2. \E i \in connected : \A j \in connected : i <= j
    BY <2>1, FirstAndLast
  <2>3. Standalone => referencePlayer = CHOOSE i \in connected : \A j \in connected : i <= j
    BY DEF Init
  <2> QED BY <2>1, <2>2, <2>3 DEF ReferenceAmongPlayers, ReferenceIsInTheGame
<1>2. ASSUME ReferenceAmongPlayers, [Next]_hubVars PROVE ReferenceAmongPlayers'
  <2>1. CASE ScanNetDead
    BY <1>2, <2>1, NetDeadKeepsReference
  <2>2. CASE ~ScanNetDead
    <3>1. UNCHANGED <<connected, referencePlayer>>
      <4>1. ASSUME NEW p \in Players, NEW ack, NEW start, NEW end, ReceiveGameData(p, ack, start, end)
            PROVE  UNCHANGED <<connected, referencePlayer>>
        <5>1. PICK a, end2, b : BookGameData(p, ack, a, end2, b)
          BY <4>1 DEF ReceiveGameData
        <5> QED BY <5>1 DEF BookGameData, Abort, playerVars
      <4>2. CASE \E p \in Players, ack, start, end \in FirstTick .. Horizon : SpokeSends(p, ack, start, end)
        BY <4>1, <4>2 DEF SpokeSends
      <4>3. CASE \/ \E p \in Players : ReceiveIdentification(p)
                 \/ HubTickBegin \/ ScanSurvivors \/ BookNetDeath \/ HubTickEnd
                 \/ \E graceful \in BOOLEAN, post \in PostGameTicks : HubCleanup(graceful, post)
                 \/ HubCleanupEnd \/ UNCHANGED hubVars
        BY <4>3 DEF ReceiveIdentification, HubTickBegin, ScanSurvivors, BookNetDeath, HubTickEnd, HubCleanup,
                    HubCleanupEnd, Abort, playerVars, hubVars
      <4> QED BY <1>2, <2>2, <4>2, <4>3 DEF Next, HubTick
    <3> QED BY <1>2, <3>1 DEF ReferenceAmongPlayers, ReferenceIsInTheGame
  <2> QED BY <2>1, <2>2
<1>3. ReferenceAmongPlayers => ReferenceIsInTheGame
  BY DEF ReferenceAmongPlayers
<1> QED BY <1>1, <1>2, <1>3, PTL DEF Spec

-----------------------------------------------------------------------------
(* How a hub ends.                                                           *)

\* The hub stops of itself once it has nobody left, or, after a graceful hub_cleanup, nobody who has
\* not acknowledged the game to its end; hub_cleanup waits for it.
StopsWhenAllHaveFinished ==
  /\ cleanup = "none" => smallestPostGameTick = Horizon + 1
  /\ cleanup = "none" /\ ~hubActive => connected = {}
  /\ cleanup = "done" => ~hubActive
  /\ ~hubActive /\ smallestPostGameTick <= Horizon =>
       \A i \in connected : smallestUnacknowledgedTick[i] >= smallestPostGameTick

\* A step that stops the hub only when hub_check_for_completion finds nobody still active.
LEMMA NobodyActive ==
  ASSUME TypeOK, TypeOK', StopsWhenAllHaveFinished, connected' \subseteq connected, UNCHANGED cleanupVars,
         hubActive' => hubActive,
         ~hubActive' =>
           \/ ~ \E i \in connected : smallestUnacknowledgedTick'[i] < smallestPostGameTick
           \/ ~hubActive /\ \A i \in connected : smallestUnacknowledgedTick'[i] = smallestUnacknowledgedTick[i]
  PROVE  StopsWhenAllHaveFinished'
<1>1. /\ Horizon \in Int /\ smallestPostGameTick \in Int /\ connected \subseteq Players
      /\ \A i \in Players : smallestUnacknowledgedTick'[i] \in Int /\ smallestUnacknowledgedTick'[i] <= Horizon
  BY Constants DEF TypeOK
<1>2. UNCHANGED <<cleanup, smallestPostGameTick>>
  BY DEF cleanupVars
<1>3. CASE ~hubActive' /\ ~ \E i \in connected : smallestUnacknowledgedTick'[i] < smallestPostGameTick
  <2>1. \A i \in connected : smallestUnacknowledgedTick'[i] >= smallestPostGameTick
    BY <1>1, <1>3
  <2>2. smallestPostGameTick = Horizon + 1 => connected = {}
    BY <1>1, <2>1
  <2> QED BY <1>2, <1>3, <2>1, <2>2 DEF StopsWhenAllHaveFinished
<1>4. CASE ~hubActive' /\ ~hubActive
           /\ \A i \in connected : smallestUnacknowledgedTick'[i] = smallestUnacknowledgedTick[i]
  BY <1>2, <1>4 DEF StopsWhenAllHaveFinished
<1>5. CASE hubActive'
  BY <1>2, <1>5 DEF StopsWhenAllHaveFinished
<1> QED BY <1>3, <1>4, <1>5

LEMMA GameDataStops ==
  ASSUME TypeOK, TypeOK', StopsWhenAllHaveFinished, NEW p \in Players,
         NEW ack, NEW start, NEW end, ReceiveGameData(p, ack, start, end)
  PROVE  StopsWhenAllHaveFinished'
<1>1. PICK a, end2, b : BookGameData(p, ack, a, end2, b)
  BY DEF ReceiveGameData
<1>2. hubActive /\ UNCHANGED <<connected, cleanupVars>>
  <2>1. hubActive
    BY DEF ReceiveGameData
  <2>2. UNCHANGED <<connected, cleanupVars>>
    BY <1>1 DEF BookGameData, Abort, playerVars
  <2> QED BY <2>1, <2>2
<1>3. ASSUME ~hubActive'
      PROVE  ~ \E i \in connected : smallestUnacknowledgedTick'[i] < smallestPostGameTick
  <2> DEFINE acks == [smallestUnacknowledgedTick EXCEPT ![p] = Larger(ack, @)]
  <2>1. hubActive' = hubActive
        \/ /\ smallestUnacknowledgedTick' = acks
           /\ hubActive' = (ack < smallestUnacknowledgedTick[p] \/ SomeoneStillActive(acks))
    BY <1>1 DEF BookGameData, Abort
  <2> HIDE DEF acks
  <2> QED BY <1>2, <1>3, <2>1 DEF SomeoneStillActive
<1> QED BY <1>2, <1>3, NobodyActive

LEMMA NetDeathStops ==
  ASSUME TypeOK, TypeOK', dying \notin connected, StopsWhenAllHaveFinished, BookNetDeath
  PROVE  StopsWhenAllHaveFinished'
<1> DEFINE acks == [smallestUnacknowledgedTick EXCEPT ![dying] = smallestIncompleteTick]
<1>1. UNCHANGED <<connected, cleanupVars>>
  BY DEF BookNetDeath, Abort, playerVars
<1>2. \/ UNCHANGED <<hubActive, smallestUnacknowledgedTick>>
      \/ /\ smallestUnacknowledgedTick' = acks
         /\ hubActive' = (hubActive /\ SomeoneStillActive(acks))
  BY DEF BookNetDeath, Abort, queueVars
<1>3. \A i \in connected : acks[i] = smallestUnacknowledgedTick[i]
  BY DEF TypeOK
<1> HIDE DEF acks
<1>4. CASE UNCHANGED <<hubActive, smallestUnacknowledgedTick>>
  BY <1>1, <1>4, NobodyActive
<1>5. CASE /\ smallestUnacknowledgedTick' = acks
           /\ hubActive' = (hubActive /\ SomeoneStillActive(acks))
  BY <1>1, <1>3, <1>5, NobodyActive DEF SomeoneStillActive
<1> QED BY <1>2, <1>4, <1>5

\* hub_cleanup: from here on the game has an end, and the hub an end to wait for.
LEMMA CleanupStops ==
  ASSUME TypeOK, StopsWhenAllHaveFinished,
         HubCleanupEnd \/ \E graceful \in BOOLEAN, t \in PostGameTicks : HubCleanup(graceful, t)
  PROVE  StopsWhenAllHaveFinished'
<1>1. /\ Horizon \in Int /\ smallestPostGameTick \in Int /\ connected \subseteq Players
      /\ \A i \in Players : smallestUnacknowledgedTick[i] \in Int
      /\ \A t \in PostGameTicks : t \in Int
      /\ hubActive \in BOOLEAN
  BY Constants, HubConstants DEF TypeOK
<1>2. CASE HubCleanupEnd
  BY <1>2 DEF HubCleanupEnd, StopsWhenAllHaveFinished, playerVars, queueVars
<1>3. ASSUME NEW graceful \in BOOLEAN, NEW t \in PostGameTicks, HubCleanup(graceful, t)
      PROVE  StopsWhenAllHaveFinished'
  <2>1. cleanup = "none" /\ cleanup' = "waiting" /\ UNCHANGED <<connected, smallestUnacknowledgedTick>>
    BY <1>3 DEF HubCleanup, playerVars, queueVars
  <2>2. CASE graceful
    <3>1. /\ smallestPostGameTick' = t
          /\ hubActive' = (hubActive /\ \E i \in connected : smallestUnacknowledgedTick[i] < t)
      BY <1>3, <2>2 DEF HubCleanup
    <3>2. ~hubActive' => \A i \in connected : smallestUnacknowledgedTick[i] >= t
      BY <1>1, <2>1, <3>1 DEF StopsWhenAllHaveFinished
    <3> QED BY <2>1, <3>1, <3>2 DEF StopsWhenAllHaveFinished
  <2>3. CASE ~graceful
    <3>1. smallestPostGameTick' = smallestPostGameTick
      BY <1>3, <2>3 DEF HubCleanup
    <3>2. ~ (smallestPostGameTick' <= Horizon)
      BY <1>1, <2>1, <3>1 DEF StopsWhenAllHaveFinished
    <3> QED BY <2>1, <3>2 DEF StopsWhenAllHaveFinished
  <2> QED BY <2>2, <2>3
<1> QED BY <1>2, <1>3

LEMMA StopsStep ==
  ASSUME HubOrNobody, StopsWhenAllHaveFinished, [Next]_hubVars
  PROVE  StopsWhenAllHaveFinished'
<1>1. HubOrNobody'
  BY AnyStepInvariant
<1>2. TypeOK /\ TypeOK' /\ dying \notin connected
  BY <1>1 DEF HubOrNobody, HubInvariant, LoopState, NobodyLeft
<1>3. CASE \E p \in Players, ack, start, end \in FirstTick .. Horizon : SpokeSends(p, ack, start, end)
  BY <1>2, <1>3, GameDataStops DEF SpokeSends
<1>4. CASE BookNetDeath
  BY <1>2, <1>4, NetDeathStops
<1>5. CASE HubCleanupEnd \/ \E graceful \in BOOLEAN, t \in PostGameTicks : HubCleanup(graceful, t)
  BY <1>2, <1>5, CleanupStops
<1>6. CASE \/ \E p \in Players : ReceiveIdentification(p)
           \/ HubTickBegin \/ ScanSurvivors \/ ScanNetDead \/ HubTickEnd \/ UNCHANGED hubVars
  <2>1. connected' \subseteq connected /\ UNCHANGED <<hubActive, cleanupVars, smallestUnacknowledgedTick>>
    BY <1>6 DEF ReceiveIdentification, HubTickBegin, ScanSurvivors, ScanNetDead, HubTickEnd, Abort,
                playerVars, queueVars, hubVars
  <2> QED BY <1>2, <2>1, NobodyActive
<1> QED BY <1>3, <1>4, <1>5, <1>6 DEF Next, HubTick

\* Whenever the hub has stopped by itself there is nobody left in the game, or everybody left has
\* acknowledged every tick of it (hub_check_for_completion and hub_cleanup).
THEOREM HubStopsLast == Spec => []StopsWhenAllHaveFinished
<1>1. Init => HubOrNobody /\ StopsWhenAllHaveFinished
  BY InitInvariant DEF Init, StopsWhenAllHaveFinished, HubOrNobody
<1>2. /\ HubOrNobody /\ StopsWhenAllHaveFinished /\ [Next]_hubVars
      => HubOrNobody' /\ StopsWhenAllHaveFinished'
  BY AnyStepInvariant, StopsStep
<1> QED BY <1>1, <1>2, PTL DEF Spec
=============================================================================
