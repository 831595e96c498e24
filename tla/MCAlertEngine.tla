--------------------------- MODULE MCAlertEngine ---------------------------
(* A small instance of AlertEngine for TLC: one key, which every silence   *)
(* mutes.                                                                  *)
EXTENDS AlertEngine

CONSTANT k1

MCKeys == {k1}
MCMutes == [s \in Silences |-> MCKeys]
=============================================================================
