------------------------- MODULE LockstepGameProofs -------------------------
(***************************************************************************)
(* The lockstep game keeps its promise: whatever each machine has played   *)
(* is a beginning of what has been settled, so any two machines agree.     *)
(***************************************************************************)
EXTENDS LockstepGame, TLAPS

\* What makes MachinesAgree inductive: nobody has played what is not settled.
LockstepInvariant ==
  /\ settled \in Seq(Decisions)
  /\ played \in [Machines -> Seq(Decisions)]
  /\ \A m \in Machines : IsPrefixOf(played[m], settled)

\* Two beginnings of one sequence: the shorter one is a beginning of the longer one.
LEMMA PrefixesAgree ==
  ASSUME NEW D, NEW r \in Seq(D), NEW s \in Seq(D), NEW t \in Seq(D),
         IsPrefixOf(s, r), IsPrefixOf(t, r)
  PROVE  IsPrefixOf(s, t) \/ IsPrefixOf(t, s)
<1>1. Len(s) \in Nat /\ Len(t) \in Nat /\ Len(r) \in Nat
  OBVIOUS
<1>2. CASE Len(s) <= Len(t)
  BY <1>1, <1>2 DEF IsPrefixOf
<1>3. CASE Len(t) <= Len(s)
  BY <1>1, <1>3 DEF IsPrefixOf
<1> QED
  BY <1>1, <1>2, <1>3

\* The first ticks of what is settled are a beginning of it.
LEMMA BeginningIsPrefix ==
  ASSUME NEW D, NEW s \in Seq(D), NEW n \in 0 .. Len(s)
  PROVE  /\ SubSeq(s, 1, n) \in Seq(D)
         /\ IsPrefixOf(SubSeq(s, 1, n), s)
  BY DEF IsPrefixOf

LEMMA LockstepStep ==
  LockstepInvariant /\ [LockstepNext]_<<settled, played>> => LockstepInvariant'
<1> SUFFICES ASSUME LockstepInvariant, [LockstepNext]_<<settled, played>>
             PROVE  LockstepInvariant'
  OBVIOUS
<1> USE DEF LockstepInvariant
<1>1. CASE Settle
  <2>1. settled' \in Seq(Decisions) /\ played' = played
    BY <1>1 DEF Settle
  <2>2. ASSUME NEW m \in Machines
        PROVE  IsPrefixOf(played[m], settled')
    <3>1. played[m] \in Seq(Decisions) /\ IsPrefixOf(played[m], settled) /\ IsPrefixOf(settled, settled')
      BY <1>1 DEF Settle
    <3> QED
      BY <2>1, <3>1 DEF IsPrefixOf
  <2> QED
    BY <2>1, <2>2 DEF IsPrefixOf
<1>2. ASSUME NEW m \in Machines, Play(m)
      PROVE  LockstepInvariant'
  <2>1. PICK n \in Len(played[m]) + 1 .. Len(settled) :
          played' = [played EXCEPT ![m] = SubSeq(settled, 1, n)]
    BY <1>2 DEF Play
  <2>2. settled' = settled /\ played[m] \in Seq(Decisions) /\ settled \in Seq(Decisions)
    BY <1>2 DEF Play
  <2>3. n \in 0 .. Len(settled)
    BY <2>1, <2>2
  <2>4. SubSeq(settled, 1, n) \in Seq(Decisions) /\ IsPrefixOf(SubSeq(settled, 1, n), settled)
    BY <2>2, <2>3, BeginningIsPrefix
  <2>5. played' \in [Machines -> Seq(Decisions)]
    BY <2>1, <2>4
  <2>6. ASSUME NEW o \in Machines
        PROVE  IsPrefixOf(played'[o], settled)
    BY <2>1, <2>4, Zenon
  <2> QED
    BY <2>2, <2>5, <2>6 DEF IsPrefixOf
<1>3. CASE UNCHANGED <<settled, played>>
  BY <1>3 DEF IsPrefixOf
<1> QED
  BY <1>1, <1>2, <1>3 DEF LockstepNext

\* Whatever is settled and however fast the machines are, any two have played the same as
\* far as both have come.
THEOREM MachinesAgreeAlways == LockstepSpec => []MachinesAgree
<1>1. LockstepInit => LockstepInvariant
  BY DEF LockstepInit, LockstepInvariant, IsPrefixOf
<1>2. LockstepInvariant => MachinesAgree
  BY PrefixesAgree DEF LockstepInvariant, MachinesAgree
<1> QED
  BY <1>1, <1>2, LockstepStep, PTL DEF LockstepSpec
=============================================================================
