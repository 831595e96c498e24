----------------------------- MODULE StallScope -----------------------------
(***************************************************************************)
(* internal/monitor: under which key a stall is paged.  A stall that the   *)
(* only endpoint of a monitor shows is blamed on that endpoint, one that   *)
(* several show on the chain; a reload changes their number while the      *)
(* alert is open.  ChainHealth says when the chain counts as stalled; here *)
(* that changes at will, and `stalled` is one alert of several keys.  It   *)
(* opens and closes at the engine at once (see Daemon).                    *)
(***************************************************************************)
EXTENDS Naturals

CONSTANTS
  Scopes,      (* the keys stallScope may give: the chain's and the nodes' *)
  MaxReloads,  (* bound on reloads                                         *)
  MaxBoots     (* bound on restarts                                        *)

ASSUME ScopeAssumption == MaxReloads \in Nat /\ MaxBoots \in Nat

VARIABLES
  scope,       (* the key stallScope gives for the nodes of now            *)
  sight,       (* what the clocks say of the chain                         *)
  endpoints,   (* does an endpoint work? (not Chain.noNodes)               *)
  stallAlarm,  (* Chain.stallAlarm                                         *)
  stallKey,    (* Chain.stallKey                                           *)
  stallOpen,   (* the keys under which the engine holds a stall open       *)
  reloads, boots,
  moved        (* did the scope change under an alert that this process    *)
               (* has not raised? (a history)                              *)

scopeVars == <<scope, sight, endpoints, stallAlarm, stallKey, stallOpen, reloads, boots, moved>>

(* No block since the start, a recent one, or none for too long.           *)
Sights == {"unseen", "flowing", "stalled"}

ScopeTypeOK ==
  /\ scope \in Scopes /\ stallKey \in Scopes
  /\ sight \in Sights
  /\ endpoints \in BOOLEAN /\ stallAlarm \in BOOLEAN /\ moved \in BOOLEAN
  /\ stallOpen \subseteq Scopes
  /\ reloads \in 0 .. MaxReloads /\ boots \in 0 .. MaxBoots

---------------------------------------------------------------------------
(* watchLoop                                                               *)

(* Variant: the key is looked up anew in every evaluation.                 *)
KeyOfToday == scope

(* While the alert is latched, it keeps the key it was raised under.       *)
WatchedKey == IF stallAlarm THEN stallKey ELSE scope

RaiseStall ==
  /\ sight = "stalled" /\ ~ stallAlarm /\ endpoints
  /\ stallAlarm' = TRUE
  /\ stallOpen' = stallOpen \cup {WatchedKey}

ResolveStall ==
  /\ sight = "flowing" /\ (stallAlarm \/ WatchedKey \in stallOpen)
  /\ stallAlarm' = FALSE
  /\ stallOpen' = stallOpen \ {WatchedKey}

WatchStall ==
  /\ RaiseStall \/ ResolveStall
  /\ stallKey' = WatchedKey
  /\ UNCHANGED <<scope, sight, endpoints, reloads, boots, moved>>

---------------------------------------------------------------------------
(* Reloads, restarts and the world                                         *)

(* Update replaces the nodes; latch and key stay.                          *)
ReloadScope ==
  /\ reloads < MaxReloads
  /\ reloads' = reloads + 1
  /\ scope' \in Scopes
  /\ moved' = (moved \/ (scope' # scope /\ ~ stallAlarm /\ stallOpen # {}))
  /\ UNCHANGED <<sight, endpoints, stallAlarm, stallKey, stallOpen, boots>>

(* The state file keeps the open alerts.  (The first evaluation of a new   *)
(* process sets the key.)                                                  *)
RestartScope ==
  /\ boots < MaxBoots
  /\ boots' = boots + 1
  /\ scope' \in Scopes
  /\ moved' = (moved \/ (stallOpen # {} /\ scope' # WatchedKey))
  /\ sight' = "unseen" /\ endpoints' = TRUE
  /\ stallAlarm' = FALSE /\ stallKey' = scope'
  /\ UNCHANGED <<stallOpen, reloads>>

(* Blocks and endpoints come and go.                                       *)
ChangeSight ==
  /\ sight' \in {"flowing", "stalled"} \cup {sight}
  /\ endpoints' \in BOOLEAN
  /\ UNCHANGED <<scope, stallAlarm, stallKey, stallOpen, reloads, boots, moved>>

ScopeInit ==
  /\ scope \in Scopes /\ stallKey = scope
  /\ sight = "unseen" /\ endpoints = TRUE
  /\ stallAlarm = FALSE /\ stallOpen = {}
  /\ reloads = 0 /\ boots = 0
  /\ moved = FALSE

ScopeNext == WatchStall \/ ReloadScope \/ RestartScope \/ ChangeSight

ScopeSpec == ScopeInit /\ [][ScopeNext]_scopeVars

---------------------------------------------------------------------------
(* Properties                                                              *)

(* health.go:490: the key of a stall is chosen anew only while none is     *)
(* latched.  An open stall alert is the one watchLoop would resolve, so it *)
(* is never left behind when a reload changes who is to blame, nor is the  *)
(* same stall paged under two keys.  What the state file brought back is   *)
(* known by the key of the present nodes alone.                            *)
StallIsWatched == ~ moved => stallOpen \subseteq {WatchedKey}

(* docs/RUNBOOK.md:13: stalled stands for "no new block".  When blocks     *)
(* flow again for good, no stall alert stays open, over reloads and over   *)
(* restarts.                                                               *)
StallEnds == <>[](sight = "flowing" /\ ~ moved) => <>[](stallOpen = {})
=============================================================================
