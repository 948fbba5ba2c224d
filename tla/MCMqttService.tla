--------------------------- MODULE MCMqttService ---------------------------
(* Small instances of MqttService for TLC.                                 *)
EXTENDS MqttService, TLC

\* Forwarders and messages are interchangeable.  Only used in runs without
\* temporal properties.
Symmetry == Permutations(Forwarders) \union Permutations(Messages)

=============================================================================
