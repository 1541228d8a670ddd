---------------------------- MODULE MCVideoFlow ----------------------------
(* Small instances of VideoFlow: a monitor, a second monitor and a camera    *)
(* that has the index of the first.                                          *)
EXTENDS VideoFlow

CONSTANTS c1, c2, monitor0, monitor1, camera0

MCMonitor == Vid \ {camera0}

MCIdxOf == [v \in Vid |-> IF v = monitor1 THEN 1 ELSE 0]
=============================================================================
