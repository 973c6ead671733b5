---------------------------- MODULE MCAudioPipeline ----------------------------
(* Instances of AudioPipeline for TLC.                                       *)
EXTENDS AudioPipeline, TLC

\* Connections and sessions are used in any order and nothing names one of them.
IdSymmetry == Permutations(Conn) \cup Permutations(Session)
=============================================================================
