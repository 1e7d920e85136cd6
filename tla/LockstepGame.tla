---------------------------- MODULE LockstepGame ----------------------------
(***************************************************************************)
(* What the star protocol is for, with nothing of how it works: the flags  *)
(* of every tick are settled once, one tick after the other, and every     *)
(* machine plays what has been settled, each at its own pace.              *)
(***************************************************************************)
EXTENDS Integers, Sequences

CONSTANTS
  Machines,
  Decisions   \* what may be settled for a tick: everybody's flags

VARIABLES
  settled,    \* the decisions so far, in the order of ticks
  played      \* for each machine, what it has played so far

IsPrefixOf(s, t) == Len(s) <= Len(t) /\ \A k \in 1 .. Len(s) : s[k] = t[k]

LockstepInit ==
  /\ settled = << >>
  /\ played = [m \in Machines |-> << >>]

\* More ticks are settled; those that were settled stand.
Settle ==
  /\ settled' \in Seq(Decisions)
  /\ IsPrefixOf(settled, settled') /\ settled' # settled
  /\ UNCHANGED played

\* A machine goes on to some later tick.
Play(m) ==
  \E n \in Len(played[m]) + 1 .. Len(settled) :
    /\ played' = [played EXCEPT ![m] = SubSeq(settled, 1, n)]
    /\ UNCHANGED settled

LockstepNext == Settle \/ \E m \in Machines : Play(m)

LockstepSpec == LockstepInit /\ [][LockstepNext]_<<settled, played>>

-----------------------------------------------------------------------------

\* Any two machines have played the same, as far as the slower of them has come.
MachinesAgree ==
  \A m, n \in Machines : IsPrefixOf(played[m], played[n]) \/ IsPrefixOf(played[n], played[m])
=============================================================================
