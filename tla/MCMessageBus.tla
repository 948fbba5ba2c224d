--------------------------- MODULE MCMessageBus ---------------------------
(* MessageBus for TLC; topics and publishers are interchangeable.          *)
EXTENDS MessageBus, TLC

Symmetry == Permutations(Topics) \union Permutations(Publishers)

=============================================================================
