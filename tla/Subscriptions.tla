--------------------------- MODULE Subscriptions ---------------------------
(***************************************************************************)
(* What the Server and its services promise to the connections, without    *)
(* snapshots, swaps and threads: which connections each service serves     *)
(* changes only by the operation that holds the Server's write lock, only  *)
(* for the connection it is for, and a connection that ended is served by  *)
(* no service and asks for nothing any more.                               *)
(***************************************************************************)
CONSTANTS Conn, Svc, None

VARIABLES
  member,  \* [Svc -> SUBSET Conn]: the connections a service serves
  closed,  \* the connections that ended
  holder   \* the connection whose operation holds the write lock, or None

vars == <<member, closed, holder>>

Init == member = [s \in Svc |-> {}] /\ closed = {} /\ holder = None

Lock(c) ==
  /\ holder = None /\ c \notin closed
  /\ holder' = c
  /\ UNCHANGED <<member, closed>>

Enter(s) ==
  /\ holder /= None
  /\ member' = [member EXCEPT ![s] = @ \cup {holder}]
  /\ UNCHANGED <<closed, holder>>

Leave(s) ==
  /\ holder /= None
  /\ member' = [member EXCEPT ![s] = @ \ {holder}]
  /\ UNCHANGED <<closed, holder>>

Unlock ==
  /\ holder /= None /\ holder' = None
  /\ UNCHANGED <<member, closed>>

Close ==
  /\ holder /= None /\ \A s \in Svc : holder \notin member[s]
  /\ closed' = closed \cup {holder} /\ holder' = None
  /\ UNCHANGED member

Next ==
  \/ \E c \in Conn : Lock(c)
  \/ \E s \in Svc : Enter(s) \/ Leave(s)
  \/ Unlock \/ Close

Spec == Init /\ [][Next]_vars
=============================================================================
