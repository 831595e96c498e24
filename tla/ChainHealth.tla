----------------------------- MODULE ChainHealth -----------------------------
(***************************************************************************)
(* internal/monitor: whether a chain can be seen at all, and the alerts    *)
(* no-nodes and stalled.                                                   *)
(*                                                                         *)
(* Two loops write noNodes and backAt independently of each other: Run,    *)
(* through setNoNodes after pickClient, and probeAllNodes, when a round    *)
(* ends.  watchLoop reads them.  Of a node's record only `down` matters    *)
(* here (module NodeHealth has the rest); a node that is syncing, or       *)
(* answers for another network, counts as one that does not work, but a    *)
(* websocket to it may still deliver blocks.                               *)
(***************************************************************************)
EXTENDS Ages

CONSTANTS
  Nodes,           (* configured nodes                                     *)
  PublicFallback,  (* public_fallback                                      *)
  NodeDownMin,     (* node_down_alert_minutes                              *)
  StalledMinutes,  (* stalled_minutes                                      *)
  MaxRestarts      (* bound on restarts of the process                     *)

ASSUME ChainAssumption ==
  /\ PublicFallback \in BOOLEAN
  /\ NodeDownMin \in Nat /\ StalledMinutes \in Nat /\ MaxRestarts \in Nat
  /\ NodeDownMin < Old /\ StalledMinutes < Old

VARIABLES
  works,         (* the nodes that really work                             *)
  public,        (* does a public endpoint work?                           *)
  down,          (* the nodes whose record says down                       *)
  run,           (* where Run is                                           *)
  toPick,        (* the nodes pickClient still has to try                  *)
  probing,       (* is a round of probeAllNodes under way?                 *)
  toProbe,       (* the nodes it still has to ask                          *)
  noNodes,       (* no endpoint worked when last asked                     *)
  noNodesSince,  (* age of its start, as setNoNodes records it             *)
  backAt,        (* age of its end                                         *)
  lastBlock,     (* age of the last NewBlock event                         *)
  alarm,         (* the latches of watchLoop                               *)
  open,          (* the alerts the engine holds open                       *)
  blind,         (* age of the last moment noNodes held (a history)        *)
  restarts       (* how often the process was restarted                    *)

worldVars == <<works, public>>
loopVars == <<down, run, toPick, probing, toProbe>>
clockVars == <<noNodes, noNodesSince, backAt, blind>>
alarmVars == <<alarm, open>>
chainVars == <<worldVars, loopVars, clockVars, lastBlock, alarmVars, restarts>>

RunSteps == {"start", "pick", "found", "failed", "dial", "watch"}
Alerts == {"no-nodes", "stalled"}

TypeOK ==
  /\ works \subseteq Nodes /\ public \in BOOLEAN
  /\ down \subseteq Nodes
  /\ run \in RunSteps /\ toPick \subseteq Nodes
  /\ probing \in BOOLEAN /\ toProbe \subseteq Nodes
  /\ noNodes \in BOOLEAN
  /\ noNodesSince \in Times /\ backAt \in Times /\ lastBlock \in Times
  /\ alarm \subseteq Alerts /\ open \subseteq Alerts
  /\ blind \in Ages
  /\ restarts \in 0 .. MaxRestarts

---------------------------------------------------------------------------
(* Run: pickClient, setNoNodes, wsLoop                                     *)

PickStart ==
  /\ run = "start"
  /\ run' = "pick" /\ toPick' = Nodes
  /\ UNCHANGED <<worldVars, down, probing, toProbe, clockVars, lastBlock, alarmVars, restarts>>

(* The first node that works becomes the client.                           *)
PickNode(n) ==
  /\ run = "pick" /\ n \in toPick
  /\ IF n \in works
       THEN run' = "found" /\ toPick' = {} /\ down' = down \ {n}
       ELSE run' = run /\ toPick' = toPick \ {n} /\ down' = down \cup {n}
  /\ UNCHANGED <<worldVars, probing, toProbe, clockVars, lastBlock, alarmVars, restarts>>

(* If none does, the registry's public endpoints are the last resort.      *)
PickLast ==
  /\ run = "pick" /\ toPick = {}
  /\ run' = IF PublicFallback /\ public THEN "found" ELSE "failed"
  /\ UNCHANGED <<worldVars, down, toPick, probing, toProbe, clockVars, lastBlock, alarmVars, restarts>>

(* Variant: every failure of pickClient starts the clock again.            *)
SetNoNodesAgain(v) ==
  /\ noNodes' = v
  /\ noNodesSince' = IF v THEN 0 ELSE noNodesSince
  /\ backAt' = IF ~ v /\ noNodes THEN 0 ELSE backAt
  /\ blind' = IF v THEN 0 ELSE blind

SetNoNodes(v) ==
  /\ noNodes' = v
  /\ noNodesSince' = IF v /\ ~ noNodes THEN 0 ELSE noNodesSince
  /\ backAt' = IF ~ v /\ noNodes THEN 0 ELSE backAt
  /\ blind' = IF v THEN 0 ELSE blind

(* setNoNodes(false); refreshValInfo and wsLoop follow.                    *)
Found ==
  /\ run = "found"
  /\ SetNoNodes(FALSE)
  /\ run' = "dial"
  /\ UNCHANGED <<worldVars, down, toPick, probing, toProbe, lastBlock, alarmVars, restarts>>

(* setNoNodes(true); pickClient is called again after 15 s.                *)
Failed ==
  /\ run = "failed"
  /\ SetNoNodes(TRUE)
  /\ run' = "start"
  /\ UNCHANGED <<worldVars, down, toPick, probing, toProbe, lastBlock, alarmVars, restarts>>

(* The websocket is subscribed, or it cannot be.                           *)
Dial ==
  /\ run = "dial"
  /\ run' \in {"watch", "start"}
  /\ UNCHANGED <<worldVars, down, toPick, probing, toProbe, clockVars, lastBlock, alarmVars, restarts>>

NewBlock ==
  /\ run = "watch"
  /\ lastBlock' = 0
  /\ UNCHANGED <<worldVars, loopVars, clockVars, alarmVars, restarts>>

(* The socket breaks, or no block came for 90 s.                           *)
SessionEnds ==
  /\ run = "watch"
  /\ run' = "start"
  /\ UNCHANGED <<worldVars, down, toPick, probing, toProbe, clockVars, lastBlock, alarmVars, restarts>>

---------------------------------------------------------------------------
(* healthLoop: probeAllNodes                                               *)

ProbeStart ==
  /\ ~ probing
  /\ probing' = TRUE /\ toProbe' = Nodes
  /\ UNCHANGED <<worldVars, down, run, toPick, clockVars, lastBlock, alarmVars, restarts>>

ProbeNode(n) ==
  /\ probing /\ n \in toProbe
  /\ toProbe' = toProbe \ {n}
  /\ down' = IF n \in works THEN down \ {n} ELSE down \cup {n}
  /\ UNCHANGED <<worldVars, run, toPick, probing, clockVars, lastBlock, alarmVars, restarts>>

(* The last critical section of a round.  It writes noNodes by itself, and *)
(* leaves the clock noNodesSince as it was.                                *)
AnyUp == down # Nodes

(* Variant: only Run notes when an endpoint is back.                       *)
BackUnnoticed == FALSE

BackNow == noNodes /\ AnyUp

Tally ==
  /\ probing /\ toProbe = {}
  /\ probing' = FALSE
  /\ backAt' = IF BackNow THEN 0 ELSE backAt
  /\ noNodes' = ~ AnyUp
  /\ blind' = IF AnyUp THEN blind ELSE 0
  /\ UNCHANGED <<worldVars, down, run, toPick, toProbe, noNodesSince, lastBlock, alarmVars, restarts>>

---------------------------------------------------------------------------
(* watchLoop: one evaluation of the chain's alarms                         *)

StallAge == IF Since(backAt) < Since(lastBlock) THEN Since(backAt) ELSE Since(lastBlock)

IsStalled == lastBlock # Never /\ StallAge > StalledMinutes

Raised ==
  {a \in Alerts \ alarm :
     \/ a = "no-nodes" /\ noNodes /\ Since(noNodesSince) > NodeDownMin
     \/ a = "stalled" /\ IsStalled /\ ~ noNodes}

(* Variant: only the latch remembers what to clear.                        *)
ResolvedOfLatch ==
  {a \in alarm :
     \/ a = "no-nodes" /\ ~ noNodes
     \/ a = "stalled" /\ ~ IsStalled /\ lastBlock # Never}

(* An alert clears when the latch or the engine remembers it.              *)
Resolved ==
  {a \in alarm \cup open :
     \/ a = "no-nodes" /\ ~ noNodes
     \/ a = "stalled" /\ ~ IsStalled /\ lastBlock # Never}

Watch ==
  /\ Raised \cup Resolved # {}
  /\ alarm' = (alarm \cup Raised) \ Resolved
  /\ open' = (open \cup Raised) \ Resolved
  /\ UNCHANGED <<worldVars, loopVars, clockVars, lastBlock, restarts>>

---------------------------------------------------------------------------
(* Restarts, time and the world                                            *)

(* A new process starts with the open alerts the state file kept.          *)
Restart ==
  /\ restarts < MaxRestarts
  /\ restarts' = restarts + 1
  /\ down' = {} /\ run' = "start" /\ toPick' = {} /\ probing' = FALSE /\ toProbe' = {}
  /\ noNodes' = FALSE /\ noNodesSince' = Never /\ backAt' = Never /\ blind' = 0
  /\ lastBlock' = Never
  /\ alarm' = {}
  /\ UNCHANGED <<worldVars, open>>

Tick ==
  /\ noNodesSince' = Older(noNodesSince)
  /\ backAt' = Older(backAt)
  /\ lastBlock' = Older(lastBlock)
  /\ blind' = IF noNodes THEN 0 ELSE Older(blind)
  /\ UNCHANGED <<worldVars, loopVars, noNodes, alarmVars, restarts>>

Change ==
  /\ works' \in SUBSET Nodes
  /\ public' \in IF PublicFallback THEN BOOLEAN ELSE {public}
  /\ UNCHANGED <<loopVars, clockVars, lastBlock, alarmVars, restarts>>

Init ==
  /\ works \in SUBSET Nodes /\ public = FALSE
  /\ down = {} /\ run = "start" /\ toPick = {} /\ probing = FALSE /\ toProbe = {}
  /\ noNodes = FALSE /\ noNodesSince = Never /\ backAt = Never /\ blind = 0
  /\ lastBlock = Never
  /\ alarm = {} /\ open = {}
  /\ restarts = 0

ProbeStep == ProbeStart \/ (\E n \in Nodes : ProbeNode(n)) \/ Tally

Next ==
  \/ PickStart
  \/ \E n \in Nodes : PickNode(n)
  \/ PickLast
  \/ Found
  \/ Failed
  \/ Dial
  \/ NewBlock
  \/ SessionEnds
  \/ ProbeStep
  \/ Watch
  \/ Restart
  \/ Tick
  \/ Change

Spec == Init /\ [][Next]_chainVars

(* The tickers of healthLoop and watchLoop fire, a probe is over after 8 s *)
(* at the latest, and time passes.  Nothing is asked of Run.               *)
FairSpec == Spec /\ WF_chainVars(ProbeStep) /\ WF_chainVars(Watch) /\ WF_chainVars(Tick)

---------------------------------------------------------------------------
(* Properties                                                              *)

(* A stall is seen, never a guess (CHANGELOG.md:42, :71): when it is paged *)
(* an endpoint has been working for more than StalledMinutes, although two *)
(* loops write noNodes and backAt behind each other's back.                *)
PagesStalled == "stalled" \in open' \ open

StallIsSeen == [][PagesStalled => ~ noNodes /\ blind > StalledMinutes]_chainVars

(* When nothing works any more, no-nodes ends up open, whatever round of   *)
(* probes or of pickClient was under way when the last endpoint died.      *)
OutageIsPaged ==
  <>[](works = {} /\ ~ public) => <>[]("no-nodes" \in open)

(* When a node works again for good, no-nodes ends up closed, also after a *)
(* restart that forgot the latch.                                          *)
RecoveryResolves ==
  \A n \in Nodes : <>[](n \in works) => <>[]("no-nodes" \notin open)
=============================================================================
