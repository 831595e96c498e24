------------------------------- MODULE MCNode -------------------------------
(* What healthLoop learns, for TLC: of the RPC nodes, of an EVM endpoint,  *)
(* of a monitored validator, or of the validator set.  They share neither  *)
(* state nor alerts, so a behaviour is one of a single part: which one is  *)
(* drawn at the start.  The parts that stand still have nothing to tell.   *)
EXTENDS NodeHealth, EvmHealth, ValidatorInfo, SetWatch

VARIABLE watched

mcVars == <<nodeVars, evmVars, infoVars, watchVars, watched>>

Only(part, rest) == watched = part /\ UNCHANGED <<watched, rest>>

RpcNodes == Only("nodes", <<evmVars, infoVars, watchVars>>)
Evm == Only("evm", <<nodeVars, infoVars, watchVars>>)
OneValidator == Only("validator", <<nodeVars, evmVars, watchVars>>)
ValidatorSet == Only("set", <<nodeVars, evmVars, infoVars>>)

MCInit ==
  /\ Init /\ EvmInit /\ InfoInit /\ WatchInit
  /\ watched \in {"nodes", "evm", "validator", "set"}
  /\ watched # "nodes" => \A n \in Nodes : real[n] = "up"
  /\ watched # "validator" => standing = [active |-> TRUE, over |-> FALSE, answers |-> TRUE]
  /\ watched # "set" => member = "free"

MCNext ==
  \/ RpcNodes /\ Next
  \/ Evm /\ EvmNext
  \/ OneValidator /\ InfoNext
  \/ ValidatorSet /\ WatchNext

HealthLoop ==
  \/ RpcNodes /\ ProbeStep
  \/ Evm /\ ProbeEvmStep
  \/ OneValidator /\ (HearRecord("health") \/ RefreshStep("health"))
  \/ ValidatorSet /\ (List("health") \/ WatchRound("health"))

WatchLoop ==
  \/ RpcNodes /\ Watch
  \/ Evm /\ WatchEvm
  \/ OneValidator /\ WatchStanding

Run ==
  \/ OneValidator /\ RefreshStep("run")
  \/ ValidatorSet /\ WatchRound("run")

Time ==
  \/ RpcNodes /\ Tick
  \/ Evm /\ EvmTick

(* The tickers of healthLoop and watchLoop fire, a query is over after     *)
(* 15 s at the latest, and time passes.  Run is not asked to refresh, but  *)
(* goes on once it has begun.  (A part never turns into another: to be     *)
(* fair to the parts together is to be fair to each.)                      *)
MCSpec ==
  /\ MCInit /\ [][MCNext]_mcVars
  /\ WF_mcVars(HealthLoop) /\ WF_mcVars(WatchLoop) /\ WF_mcVars(Run) /\ WF_mcVars(Time)
=============================================================================
