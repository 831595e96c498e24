------------------------------ MODULE MCLocks ------------------------------
(* Two chains, a watcher for each.                                         *)
EXTENDS Locks, TLC

CONSTANTS c1, c2, w1, w2

MCChainOf == w1 :> c1 @@ w2 :> c2
=============================================================================
