----------------------------- MODULE MCSidecar -----------------------------
(* What a sidecar watches beside the network, for TLC: the home of a node, *)
(* its log file, or a rule over the lines of its log.  They share neither  *)
(* state nor alerts, so a behaviour is one of a single part: which one is  *)
(* drawn at the start.                                                     *)
EXTENDS LocalChecks, FileTail, LogRules

VARIABLE watched

mcVars == <<localVars, tailVars, ruleVars, watched>>

Only(part, rest) == watched = part /\ UNCHANGED <<watched, rest>>

Home == Only("home", <<tailVars, ruleVars>>)
LogFile == Only("file", <<localVars, ruleVars>>)
Rule == Only("rule", <<localVars, tailVars>>)

MCInit ==
  /\ Init /\ TailInit /\ RulesInit
  /\ watched \in {"home", "file", "rule"}

MCNext ==
  \/ Home /\ Next
  \/ LogFile /\ TailNext
  \/ Rule /\ RulesNext

(* The tickers of healthLoop and Stream fire and Stream reads on; timers,  *)
(* dispatches and the clock go on.                                         *)
GoesOn ==
  \/ Home /\ (ProbeDisk \/ ProbeSignerFile)
  \/ LogFile /\ StreamStep
  \/ Rule /\ (Quieted \/ DispatchRaise \/ DispatchResolve \/ NextMinute)

(* The node finishes its lines, and the file at the path does not stay     *)
(* away.                                                                   *)
NodeGoesOn == LogFile /\ (Create \/ End)

MCSpec == MCInit /\ [][MCNext]_mcVars /\ WF_mcVars(GoesOn) /\ WF_mcVars(NodeGoesOn)
=============================================================================
