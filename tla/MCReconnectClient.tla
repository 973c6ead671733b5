-------------------------- MODULE MCReconnectClient --------------------------
(* Instances of ReconnectClient for TLC.                                     *)
EXTENDS ReconnectClient, TLC

ConnSymmetry == Permutations(Conn)
=============================================================================
