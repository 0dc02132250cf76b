-------------------------- MODULE MCBackgroundAgent --------------------------
(* Model values of BackgroundAgent for TLC: clients are interchangeable, and *)
(* so are workers.                                                           *)
EXTENDS BackgroundAgent, TLC

Symmetry == Permutations(Clients) \cup Permutations(Workers)
=============================================================================
