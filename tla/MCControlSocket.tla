-------------------------- MODULE MCControlSocket --------------------------
(* ControlSocket for TLC.  The instances are interchangeable.              *)
EXTENDS ControlSocket, TLC

Symmetry == Permutations(Instances)

=============================================================================
