------------------------------ MODULE MCChain ------------------------------
(* A chain that is seen or not, and the key a stall of it is paged under,  *)
(* for TLC.  ChainHealth has no reload, StallScope no clocks: a behaviour  *)
(* is one of a single part, drawn at the start.                            *)
EXTENDS ChainHealth, StallScope

VARIABLE watched

mcVars == <<chainVars, scopeVars, watched>>

Network == watched = "network" /\ UNCHANGED <<watched, scopeVars>>
Blame == watched = "blame" /\ UNCHANGED <<watched, chainVars>>

MCInit ==
  /\ Init /\ ScopeInit
  /\ watched \in {"network", "blame"}
  /\ watched = "network" => scope = CHOOSE s \in Scopes : TRUE
  /\ watched = "blame" => works = Nodes

MCNext ==
  \/ Network /\ Next
  \/ Blame /\ ScopeNext

(* The fairness of ChainHealth, and the ticker of watchLoop again.         *)
MCSpec ==
  /\ MCInit /\ [][MCNext]_mcVars
  /\ WF_mcVars(Network /\ ProbeStep)
  /\ WF_mcVars((Network /\ Watch) \/ (Blame /\ WatchStall))
  /\ WF_mcVars(Network /\ Tick)
=============================================================================
