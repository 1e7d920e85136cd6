----------------------------- MODULE MCRelayNet -----------------------------
(* Three browsers, two of them behind one address.                          *)
EXTENDS RelayNet

CONSTANTS A, B, C, here, there, code

AllConnections      == {A, B, C}
TwoBehindOneAddress == [c \in AllConnections |-> IF c = C THEN there ELSE here]
CallsOfGuests       == [c \in AllConnections |-> CASE c = A -> 0 [] c = B -> 3 [] c = C -> 1]
=============================================================================
