------------------------------ MODULE MCServer ------------------------------
(***************************************************************************)
(* Small instances of Server for TLC.  The number of requests that the     *)
(* connections make is bounded (MaxRequests); the                          *)
(* threads, and the operations under way, are not.  The Server is dropped  *)
(* last.                                                                   *)
(***************************************************************************)
EXTENDS Server

CONSTANTS c1, c2, monitor0, monitor1, camera0, cursor, window_focus,
          MaxRequests

VARIABLE requests   \* how many operations the connections have begun
mcvars == <<vars, requests>>

MCInit == Init /\ requests = 0

MCNext ==
  \/ /\ requests < MaxRequests
     /\ Begin
     /\ requests' = requests + 1
  \/ (TaskStep \/ Finish \/ Threads \/ Ended) /\ UNCHANGED requests
  \/ (requests = MaxRequests \/ closed = Conn) /\ DropServer /\ UNCHANGED requests

\* What the threads and the operations look at: without the records of what was
\* sent to whom, for the runs whose properties are not about them.
MCView == <<members, active, refresh, pc, registryVars, requests>>

MCSpec == MCInit /\ [][MCNext]_mcvars
MCFairSpec == MCSpec /\ Fairness
=============================================================================
