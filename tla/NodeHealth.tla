----------------------------- MODULE NodeHealth -----------------------------
(***************************************************************************)
(* internal/monitor: what one chain's monitor knows of each of its RPC     *)
(* nodes, and the alerts node-down and catching-up it derives from that.   *)
(*                                                                         *)
(* Three goroutines share the records of the nodes: Run (pickClient looks  *)
(* for a node to use), healthLoop (probeAllNodes asks them all) and        *)
(* watchLoop, which evaluates the alarms.  Probes do their network I/O     *)
(* without the chain's mutex, so hearing a node's answer and applying it   *)
(* are two actions.  A reload replaces the records while probes of the old *)
(* ones are still running: from then on the round of such a loop is stale  *)
(* and its answers reach no record anybody reads.                          *)
(*                                                                         *)
(* Lag, mempool, consensus round, host statistics and a stuck sync are     *)
(* left out.  An alert that is raised opens at the engine at once; module  *)
(* Daemon looks at what happens on the way.                                *)
(***************************************************************************)
EXTENDS Ages

CONSTANTS
  Nodes,        (* configured nodes, with alert_if_down                    *)
  NodeDownMin,  (* node_down_alert_minutes                                 *)
  GraceMin,     (* catching_up_grace_minutes                               *)
  MaxRebuilds   (* bound on reloads and restarts                           *)

ASSUME NodeAssumption ==
  /\ NodeDownMin \in Nat /\ GraceMin \in Nat /\ MaxRebuilds \in Nat
  /\ NodeDownMin < Old /\ GraceMin <= Old

VARIABLES
  real,      (* what each node really is                                   *)
  node,      (* the node records                                           *)
  pick,      (* the round of pickClient                                    *)
  probe,     (* the round of probeAllNodes                                 *)
  alarm,     (* the latches of watchLoop                                   *)
  open,      (* the alerts the engine holds open                           *)
  rebuilds   (* how often the records were replaced                        *)

nodeVars == <<real, node, pick, probe, alarm, open, rebuilds>>

(* "gone" also stands for a wrong network and for an error as an answer.   *)
Conditions == {"up", "syncing", "gone"}
Records == [down : BOOLEAN, syncing : BOOLEAN, downSince : Times, syncSince : Times]
Fresh == [down |-> FALSE, syncing |-> FALSE, downSince |-> Never, syncSince |-> Never]

(* The nodes still to be asked, and the answers not applied yet.           *)
Rounds == [todo : SUBSET Nodes, heard : SUBSET (Nodes \X Conditions), stale : BOOLEAN]
NoRound == [todo |-> {}, heard |-> {}, stale |-> FALSE]
NewRound == [NoRound EXCEPT !.todo = Nodes]

Busy(round) == round.todo # {} \/ round.heard # {}

NodeDown(n) == <<"node-down", n>>
CatchingUp(n) == <<"catching-up", n>>
Alerts == {"node-down", "catching-up"} \X Nodes

TypeOK ==
  /\ real \in [Nodes -> Conditions]
  /\ node \in [Nodes -> Records]
  /\ pick \in Rounds /\ probe \in Rounds
  /\ alarm \subseteq Alerts
  /\ open \subseteq Alerts
  /\ rebuilds \in 0 .. MaxRebuilds

---------------------------------------------------------------------------
(* Node records                                                            *)

(* Variant, once the code (CHANGELOG.md:66): no clock after a sync.        *)
MarkDownOnce(r) ==
  [r EXCEPT !.down = TRUE, !.syncing = FALSE, !.downSince = IF r.down THEN @ ELSE 0]

MarkDown(r) ==
  [r EXCEPT !.down = TRUE, !.syncing = FALSE,
            !.downSince = IF ~ r.down \/ r.syncing \/ r.downSince = Never THEN 0 ELSE @]

SeenSyncing(r) ==
  [r EXCEPT !.down = TRUE, !.syncing = TRUE, !.syncSince = IF r.syncing THEN @ ELSE 0]

(* probeNode, by the node's answer.                                        *)
Probed(r, answer) ==
  CASE answer = "gone"    -> MarkDown(r)
    [] answer = "syncing" -> SeenSyncing(r)
    [] answer = "up"      -> Fresh

(* pickClient writes the same record, but not the clock of a node that is  *)
(* down.                                                                   *)
Picked(r, answer) ==
  CASE answer = "gone"    -> [r EXCEPT !.down = TRUE]
    [] answer = "syncing" -> SeenSyncing(r)
    [] answer = "up"      -> [r EXCEPT !.down = FALSE, !.syncing = FALSE]

---------------------------------------------------------------------------
(* The loops that ask the nodes                                            *)

Hear(round, n) == [round EXCEPT !.todo = @ \ {n}, !.heard = @ \cup {<<n, real[n]>>}]

Forget(round, n, answer) ==
  LET rest == [round EXCEPT !.heard = @ \ {<<n, answer>>}]
  IN  IF Busy(rest) THEN rest ELSE NoRound

PickStart ==
  /\ ~ Busy(pick)
  /\ pick' = NewRound
  /\ UNCHANGED <<real, node, probe, alarm, open, rebuilds>>

(* pickClient asks one node after the other; the first that is up ends the *)
(* round.                                                                  *)
PickHear(n) ==
  /\ n \in pick.todo /\ pick.heard = {}
  /\ pick' = Hear(pick, n)
  /\ UNCHANGED <<real, node, probe, alarm, open, rebuilds>>

PickNode(n, answer) ==
  /\ <<n, answer>> \in pick.heard
  /\ node' = IF pick.stale THEN node ELSE [node EXCEPT ![n] = Picked(node[n], answer)]
  /\ pick' = IF answer = "up" THEN NoRound ELSE Forget(pick, n, answer)
  /\ UNCHANGED <<real, probe, alarm, open, rebuilds>>

(* probeAllNodes asks all nodes at once.                                   *)
ProbeStart ==
  /\ ~ Busy(probe)
  /\ probe' = NewRound
  /\ UNCHANGED <<real, node, pick, alarm, open, rebuilds>>

ProbeHear(n) ==
  /\ n \in probe.todo
  /\ probe' = Hear(probe, n)
  /\ UNCHANGED <<real, node, pick, alarm, open, rebuilds>>

ProbeNode(n, answer) ==
  /\ <<n, answer>> \in probe.heard
  /\ node' = IF probe.stale THEN node ELSE [node EXCEPT ![n] = Probed(node[n], answer)]
  /\ probe' = Forget(probe, n, answer)
  /\ UNCHANGED <<real, pick, alarm, open, rebuilds>>

---------------------------------------------------------------------------
(* watchLoop: one evaluation of the alarms of every node                   *)

(* Variant: a sync does not suppress node-down.                            *)
RaisesNodeDownAnyway(n) ==
  node[n].down /\ node[n].downSince # Never /\ node[n].downSince > NodeDownMin

RaisesNodeDown(n) ==
  /\ node[n].down /\ ~ node[n].syncing
  /\ node[n].downSince # Never /\ node[n].downSince > NodeDownMin

RaisesCatchingUp(n) ==
  /\ node[n].syncing
  /\ node[n].syncSince # Never /\ node[n].syncSince >= GraceMin

Raised ==
  ({NodeDown(n) : n \in {m \in Nodes : RaisesNodeDown(m)}}
     \cup {CatchingUp(n) : n \in {m \in Nodes : RaisesCatchingUp(m)}}) \ (alarm \cup open)

(* Variant: only the latch remembers what to clear.                        *)
ResolvedOfLatch ==
  ({NodeDown(n) : n \in {m \in Nodes : ~ node[m].down \/ node[m].syncing}}
     \cup {CatchingUp(n) : n \in {m \in Nodes : ~ node[m].syncing}}) \cap alarm

(* Variant: an alert clears when it would not be raised now.               *)
ResolvedUnlessRaised ==
  ({NodeDown(n) : n \in {m \in Nodes : ~ RaisesNodeDown(m)}}
     \cup {CatchingUp(n) : n \in {m \in Nodes : ~ RaisesCatchingUp(m)}}) \cap (alarm \cup open)

(* An alert clears when the latch or the engine remembers it.              *)
Resolved ==
  ({NodeDown(n) : n \in {m \in Nodes : ~ node[m].down \/ node[m].syncing}}
     \cup {CatchingUp(n) : n \in {m \in Nodes : ~ node[m].syncing}}) \cap (alarm \cup open)

Watch ==
  /\ Raised \cup Resolved # {}
  /\ alarm' = (alarm \cup Raised) \ Resolved
  /\ open' = (open \cup Raised) \ Resolved
  /\ UNCHANGED <<real, node, pick, probe, rebuilds>>

---------------------------------------------------------------------------
(* Reloads, restarts, time and the world                                   *)

(* Chain.Update: new records, while the loops and the latches live on.     *)
Reload ==
  /\ rebuilds < MaxRebuilds
  /\ rebuilds' = rebuilds + 1
  /\ node' = [n \in Nodes |-> Fresh]
  /\ pick' = [pick EXCEPT !.stale = Busy(pick)]
  /\ probe' = [probe EXCEPT !.stale = Busy(probe)]
  /\ UNCHANGED <<real, alarm, open>>

(* A new process starts with the open alerts the state file kept.          *)
Restart ==
  /\ rebuilds < MaxRebuilds
  /\ rebuilds' = rebuilds + 1
  /\ node' = [n \in Nodes |-> Fresh]
  /\ pick' = NoRound /\ probe' = NoRound
  /\ alarm' = {}
  /\ UNCHANGED <<real, open>>

Aged(r) == [r EXCEPT !.downSince = Older(@), !.syncSince = Older(@)]

Tick ==
  /\ node' = [n \in Nodes |-> Aged(node[n])]
  /\ UNCHANGED <<real, pick, probe, alarm, open, rebuilds>>

Change(n, c) ==
  /\ real' = [real EXCEPT ![n] = c]
  /\ UNCHANGED <<node, pick, probe, alarm, open, rebuilds>>

Init ==
  /\ real \in [Nodes -> Conditions]
  /\ node = [n \in Nodes |-> Fresh]
  /\ pick = NoRound /\ probe = NoRound
  /\ alarm = {} /\ open = {}
  /\ rebuilds = 0

ProbeStep ==
  \/ ProbeStart
  \/ \E n \in Nodes : ProbeHear(n)
  \/ \E n \in Nodes, answer \in Conditions : ProbeNode(n, answer)

Next ==
  \/ PickStart
  \/ \E n \in Nodes : PickHear(n)
  \/ \E n \in Nodes, answer \in Conditions : PickNode(n, answer)
  \/ ProbeStep
  \/ Watch
  \/ Reload
  \/ Restart
  \/ Tick
  \/ \E n \in Nodes, c \in Conditions : Change(n, c)

Spec == Init /\ [][Next]_nodeVars

(* The tickers of healthLoop and watchLoop fire, a probe is over after 8 s *)
(* at the latest, and time passes.  Nothing is asked of Run.               *)
FairSpec == Spec /\ WF_nodeVars(ProbeStep) /\ WF_nodeVars(Watch) /\ WF_nodeVars(Tick)

---------------------------------------------------------------------------
(* Properties                                                              *)

(* README.md:182: "A syncing node suppresses node-down -- one problem, one *)
(* page".  Whatever order probes, picks, reloads and restarts come in, a   *)
(* node never has both alerts open.                                        *)
OneProblemOnePage == \A n \in Nodes : ~ {NodeDown(n), CatchingUp(n)} \subseteq open

(* A node that stays unreachable ends up with an open node-down and no     *)
(* catching-up, also when it goes down while catching up, which once kept  *)
(* the down clock from starting (CHANGELOG.md:66), when pickClient notices *)
(* first, or when the configuration is reloaded meanwhile.                 *)
GoneIsPaged ==
  \A n \in Nodes :
    <>[](real[n] = "gone") => <>[](NodeDown(n) \in open /\ CatchingUp(n) \notin open)

(* A node that stays reachable ends up without a node-down, and one that   *)
(* stays in sync without any alert.                                        *)
BackIsResolved ==
  \A n \in Nodes :
    /\ <>[](real[n] # "gone") => <>[](NodeDown(n) \notin open)
    /\ <>[](real[n] = "up") => <>[](CatchingUp(n) \notin open)

KnownDown(n) == NodeDown(n) \in open /\ node[n].down /\ ~ node[n].syncing

(* The answers under way that can still reach the record say gone.         *)
OnlyGone(n) ==
  \A round \in {pick, probe}, answer \in Conditions :
    <<n, answer>> \in round.heard /\ ~ round.stale => answer = "gone"

Outage(n) == KnownDown(n) /\ real[n] = "gone" /\ OnlyGone(n)

(* README.md:153: node-down means "RPC unreachable".  Once an outage is    *)
(* known and paged, and every answer from before it has been applied, no   *)
(* order of picks, probes, stale rounds and evaluations clears the page,   *)
(* also when the down clock starts again meanwhile: only the node's        *)
(* return, a reload or a restart ends it.                                  *)
OutageStaysPaged ==
  [][\A n \in Nodes :
       Outage(n) /\ real'[n] = "gone" /\ rebuilds' = rebuilds => Outage(n)']_nodeVars

(* README.md:292: "open alerts persist across restarts so a reboot neither *)
(* double-pages nor forgets to resolve".  Once a node is known to be down  *)
(* and stays unreachable, its open alert stays open.                       *)
NoFalseAllClear ==
  \A n \in Nodes :
    [](KnownDown(n) /\ [](real[n] = "gone") => [](NodeDown(n) \in open))
=============================================================================
