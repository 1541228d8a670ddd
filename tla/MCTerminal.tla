----------------------------- MODULE MCTerminal -----------------------------
(* A client that comes back once, with two terminals, one of which writes. *)
EXTENDS Terminal

MCNL == <<0, 0>>

MCScenarios ==
  {{"output", "exit"}, {"resize", "exit"}, {"exit", "persist", "cleanup"}, {"overlap"}}

MCMaxOut == <<2, 0>>
=============================================================================
