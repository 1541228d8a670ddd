--------------------------- MODULE MCFileTransfer ---------------------------
(* Two files of one block each, and what each direction is exposed to.     *)
EXTENDS FileTransfer

MCSize == <<1, 1>>

\* A download may find a part of the first file.
MCLeftover == [m \in Modes |-> IF m = "upload" THEN {} ELSE {1}]

\* Two jobs on a connection that holds, for files that all or none of which the
\* receiver has, or one job on a connection that may be lost.
MCInit ==
  \/ /\ InitWith(Job, MaxLost)
     /\ \A f \in File : ~disk[1][f].download /\ disk[1][f].file = disk[1][1].file
  \/ InitWith({1}, 0)

MCSpec == MCInit /\ [][Next]_vars /\ Fairness
=============================================================================
