------------------------ MODULE MCRendezvousMediator ------------------------
(* Small instances of RendezvousMediator.                                    *)
EXTENDS RendezvousMediator

CONSTANTS h1, h2
=============================================================================
