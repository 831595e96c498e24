----------------------------- MODULE EvmHealth -----------------------------
(***************************************************************************)
(* internal/monitor: the probe of an EVM JSON-RPC endpoint (probeEVM) and  *)
(* the alerts evm-down, evm-lag and evm-txpool.                            *)
(*                                                                         *)
(* healthLoop asks the endpoint three things one after the other and takes *)
(* Chain.mu to write each answer down; watchLoop evaluates the alarms in   *)
(* between.  A reload replaces the record: a probe under way goes on with  *)
(* the old one, of which only the txpool alarm still reaches the engine.   *)
(* Endpoints share nothing; one is modelled.  An alert opens and closes at *)
(* the engine at once (see Daemon).                                        *)
(***************************************************************************)
EXTENDS Ages

CONSTANTS
  EvmDownMin,     (* node_down_alert_minutes                               *)
  EvmLagBlocks,   (* evm_lag_blocks                                        *)
  MaxHead,        (* bound on the height of the chain                      *)
  MaxEvmRebuilds  (* bound on reloads and restarts                         *)

ASSUME EvmAssumption ==
  /\ EvmDownMin \in Nat /\ EvmDownMin < Old
  /\ EvmLagBlocks \in Nat \ {0}      (* 0 switches the lag alarm off       *)
  /\ MaxHead \in Nat /\ MaxEvmRebuilds \in Nat

VARIABLES
  endpoint,     (* what the endpoint really is                             *)
  executed,     (* the height it has executed                              *)
  head,         (* Chain.lastHeight                                        *)
  lagged,       (* was it ever more than evm_lag_blocks behind? (a history)*)
  probed,       (* the evmProbe                                            *)
  asking,       (* what probeEVM asks next, and for which record           *)
  evmOpen,      (* the alerts the engine holds open                        *)
  evmRebuilds   (* how often the record was replaced                       *)

evmWorld == <<endpoint, executed, head, lagged>>
evmVars == <<evmWorld, probed, asking, evmOpen, evmRebuilds>>

EvmAlerts == {"evm-down", "evm-lag", "evm-txpool"}
EvmHeights == 0 .. MaxHead

EvmRecords == [down : BOOLEAN, downSince : Times, syncing : BOOLEAN,
               height : EvmHeights, lag : EvmHeights, full : BOOLEAN,
               alarm : SUBSET EvmAlerts]
NewEvmRecord == [down |-> FALSE, downSince |-> Never, syncing |-> FALSE,
                 height |-> 0, lag |-> 0, full |-> FALSE, alarm |-> {}]

(* What a stale probe keeps of its record.                                 *)
Asking == [next : {"height", "syncing", "txpool"}, stale : BOOLEAN,
           full : BOOLEAN, alarm : BOOLEAN]
NotAsking == [next |-> "height", stale |-> FALSE, full |-> FALSE, alarm |-> FALSE]

EvmTypeOK ==
  /\ endpoint \in [up : BOOLEAN, syncing : BOOLEAN, full : BOOLEAN]
  /\ executed \in EvmHeights /\ head \in EvmHeights
  /\ lagged \in BOOLEAN
  /\ probed \in EvmRecords
  /\ asking \in Asking
  /\ evmOpen \subseteq EvmAlerts
  /\ evmRebuilds \in 0 .. MaxEvmRebuilds

---------------------------------------------------------------------------
(* probeEVM.  The endpoint may come and go between its queries.            *)

Behind(h) == IF head > h THEN head - h ELSE 0

(* Variant: an endpoint that fails again restarts the clock.               *)
UnreachableAgain(p) == [p EXCEPT !.down = TRUE, !.downSince = 0]

Unreachable(p) == [p EXCEPT !.down = TRUE, !.downSince = IF p.down THEN @ ELSE 0]

(* The lag is measured against the head of this moment.                    *)
Reached(p) ==
  [p EXCEPT !.down = FALSE, !.downSince = Never, !.syncing = FALSE,
            !.height = executed, !.lag = Behind(executed)]

(* eth_blockNumber.  Without an answer the probe is over.                  *)
AskHeight ==
  /\ asking.next = "height"
  /\ probed' = IF asking.stale THEN probed
               ELSE IF endpoint.up THEN Reached(probed) ELSE Unreachable(probed)
  /\ asking' = IF endpoint.up THEN [asking EXCEPT !.next = "syncing"] ELSE NotAsking
  /\ UNCHANGED <<evmWorld, evmOpen, evmRebuilds>>

(* eth_syncing.  No answer leaves what the first stage set.                *)
AskSyncing ==
  /\ asking.next = "syncing"
  /\ probed' = IF endpoint.up /\ ~ asking.stale
               THEN [probed EXCEPT !.syncing = endpoint.syncing] ELSE probed
  /\ asking' = [asking EXCEPT !.next = "txpool"]
  /\ UNCHANGED <<evmWorld, evmOpen, evmRebuilds>>

(* txpool_status, and its alarm, on whichever record the probe has.        *)
Pool == "evm-txpool"

AskTxpool ==
  /\ asking.next = "txpool"
  /\ LET known == IF asking.stale THEN asking.full ELSE probed.full
         alarmed == IF asking.stale THEN asking.alarm ELSE Pool \in probed.alarm
         full == IF endpoint.up THEN endpoint.full ELSE known
     IN  /\ probed' = IF asking.stale THEN probed
                      ELSE [probed EXCEPT !.full = full,
                              !.alarm = IF full THEN @ \cup {Pool} ELSE @ \ {Pool}]
         /\ evmOpen' = IF full /\ ~ alarmed THEN evmOpen \cup {Pool}
                       ELSE IF ~ full /\ alarmed THEN evmOpen \ {Pool} ELSE evmOpen
  /\ asking' = NotAsking
  /\ UNCHANGED <<evmWorld, evmRebuilds>>

---------------------------------------------------------------------------
(* watchLoop                                                               *)

(* Variant: the lag is the distance to the head of today.                  *)
LagToday == Behind(probed.height) > EvmLagBlocks

LagTooLarge == probed.lag > EvmLagBlocks

EvmRaised ==
  {a \in {"evm-down"} : probed.down /\ probed.downSince # Never /\ probed.downSince > EvmDownMin}
    \cup {a \in {"evm-lag"} : /\ ~ probed.down /\ ~ probed.syncing
                              /\ probed.height > 0 /\ LagTooLarge}

(* Variant: only the latch remembers what to clear.                        *)
EvmClearedOfLatch ==
  ({a \in {"evm-down"} : ~ probed.down} \cup {a \in {"evm-lag"} : ~ LagTooLarge})
    \cap probed.alarm

EvmCleared ==
  ({a \in {"evm-down"} : ~ probed.down} \cup {a \in {"evm-lag"} : ~ LagTooLarge})
    \cap (probed.alarm \cup evmOpen)

WatchEvm ==
  /\ (EvmRaised \ probed.alarm) \cup EvmCleared # {}
  /\ evmOpen' = (evmOpen \cup (EvmRaised \ probed.alarm)) \ EvmCleared
  /\ probed' = [probed EXCEPT !.alarm = (@ \cup EvmRaised) \ EvmCleared]
  /\ UNCHANGED <<evmWorld, asking, evmRebuilds>>

---------------------------------------------------------------------------
(* Reloads, restarts, time and the world                                   *)

Rebuild ==
  /\ evmRebuilds < MaxEvmRebuilds
  /\ evmRebuilds' = evmRebuilds + 1
  /\ probed' = NewEvmRecord
  /\ UNCHANGED <<evmWorld, evmOpen>>

(* A probe that is under way may also be about to ask its first question.  *)
ReloadEvm ==
  /\ Rebuild
  /\ asking' \in {asking, [next |-> asking.next, stale |-> TRUE,
       full |-> IF asking.stale THEN asking.full ELSE probed.full,
       alarm |-> IF asking.stale THEN asking.alarm ELSE Pool \in probed.alarm]}
  /\ asking'.stale \/ asking.next = "height"

RestartEvm == Rebuild /\ asking' = NotAsking

EvmTick ==
  /\ probed' = [probed EXCEPT !.downSince = Older(@)]
  /\ UNCHANGED <<evmWorld, asking, evmOpen, evmRebuilds>>

(* The chain grows, and the EVM executes its blocks; it may lead a little. *)
Block ==
  /\ head < MaxHead
  /\ head' = head + 1
  /\ lagged' = (lagged \/ head' - executed > EvmLagBlocks)
  /\ UNCHANGED <<endpoint, executed, probed, asking, evmOpen, evmRebuilds>>

Execute ==
  /\ executed < MaxHead /\ executed <= head
  /\ executed' = executed + 1
  /\ UNCHANGED <<endpoint, head, lagged, probed, asking, evmOpen, evmRebuilds>>

ChangeEndpoint ==
  /\ endpoint' \in [up : BOOLEAN, syncing : BOOLEAN, full : BOOLEAN]
  /\ UNCHANGED <<executed, head, lagged, probed, asking, evmOpen, evmRebuilds>>

EvmInit ==
  /\ endpoint = [up |-> TRUE, syncing |-> FALSE, full |-> FALSE]
  /\ executed = 0 /\ head = 0 /\ lagged = FALSE
  /\ probed = NewEvmRecord
  /\ asking = NotAsking
  /\ evmOpen = {}
  /\ evmRebuilds = 0

ProbeEvmStep == AskHeight \/ AskSyncing \/ AskTxpool

EvmNext ==
  \/ ProbeEvmStep
  \/ WatchEvm
  \/ ReloadEvm
  \/ RestartEvm
  \/ EvmTick
  \/ Block
  \/ Execute
  \/ ChangeEndpoint

EvmSpec == EvmInit /\ [][EvmNext]_evmVars

---------------------------------------------------------------------------
(* Properties                                                              *)

(* README.md:157: evm-down says "configured evm_rpc unreachable".  An      *)
(* endpoint that stays unreachable ends up with an open alert, although    *)
(* every probe fails anew and reloads replace the record.                  *)
EvmDownIsPaged == <>[](~ endpoint.up) => <>[]("evm-down" \in evmOpen)

(* health.go:197: "comparing a 45s-old EVM height with the live head later *)
(* reads as lag".  An endpoint that is never more than evm_lag_blocks      *)
(* behind is never paged for lag, however the chain grows between the      *)
(* stages of a probe and the evaluations of watchLoop.                     *)
NoFalseLag ==
  ~ lagged => "evm-lag" \notin evmOpen

(* An alert about lag is closed once the endpoint is up and has caught up, *)
(* also after a reload or restart that forgot the latch (health.go:616).   *)
(* One about the txpool is remembered by the latch alone (health.go:252):  *)
(* it is sure to close only while nothing replaces the record.             *)
EvmRecoveryResolves ==
  /\ <>[](endpoint.up /\ head - executed <= EvmLagBlocks)
       => []<>("evm-lag" \notin evmOpen)
  /\ <>[](evmRebuilds = 0 /\ endpoint.up /\ ~ endpoint.full)
       => []<>(Pool \notin evmOpen)
=============================================================================
