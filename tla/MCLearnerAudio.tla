--------------------------- MODULE MCLearnerAudio ---------------------------
(* An instance of AudioAlignment for TLC.                                    *)
EXTENDS AudioAlignment

CONSTANT e1

Passage == {<<"waw", "alef">>, <<"lam", "alef", "lam", "hamzaWaw">>, <<"waqf">>}
Recited == {<<"waw", "fatha", "madda">>, <<"hamzaWaw", "alef">>,
            <<"lam", "alef", "lam", "waw">>, <<"lam">>}
=============================================================================
