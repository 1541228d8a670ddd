--------------------------- MODULE MCAuthedConns ---------------------------
(* c1 controls and c2 transfers files in one session of a peer; c3 is the    *)
(* connection with which the peer comes back to control in that session.     *)
EXTENDS AuthedConns
CONSTANTS c1, c2, c3, k1
MCKeyOf == [c \in Conn |-> k1]
=============================================================================
