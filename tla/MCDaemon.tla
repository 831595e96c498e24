------------------------------ MODULE MCDaemon ------------------------------
(* A small instance of Daemon for TLC: one key, no silences, no HTTP API.  *)
EXTENDS Daemon

CONSTANT k1

MCKeys == {k1}
MCMutes == [s \in Silences |-> MCKeys]
=============================================================================
