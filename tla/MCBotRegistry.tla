---------------------------- MODULE MCBotRegistry ----------------------------
(* BotRegistry on small sets of workers and connections. *)
EXTENDS BotRegistry, TLC

Interchangeable == Permutations(Workers) \cup Permutations(Conns)
=============================================================================
