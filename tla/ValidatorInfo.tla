---------------------------- MODULE ValidatorInfo ----------------------------
(***************************************************************************)
(* internal/monitor: what the chain says of one monitored validator, and   *)
(* the alerts inactive and window-pct.                                     *)
(*                                                                         *)
(* Run and healthLoop both refresh, perhaps at once: each asks for the     *)
(* staking record, the signing info and, while it is unknown, the slashing *)
(* window, and takes Chain.mu to write every answer down.  watchLoop       *)
(* evaluates the alarms in between.  A reload replaces the target: what a  *)
(* refresh under way still learns reaches nothing that is looked at, so    *)
(* that refresh is over.                                                   *)
(*                                                                         *)
(* The validator is configured by its operator address, and the chain has  *)
(* the slashing module.  An alert opens and closes at the engine at once   *)
(* (see Daemon).                                                           *)
(***************************************************************************)
EXTENDS Naturals

CONSTANT MaxReplacements  (* bound on reloads and restarts                 *)

ASSUME InfoAssumption == MaxReplacements \in Nat

VARIABLES
  standing,     (* what the validator really is, and whether the chain     *)
                (* answers                                                 *)
  target,       (* the target's info and latches                           *)
  asker,        (* what the refresh of each loop asks, and what it heard   *)
  standOpen,    (* the alerts the engine holds open                        *)
  replacements, (* how often the target was replaced                       *)
  forgiven      (* may an open window-pct be cleared? (a history)          *)

infoVars == <<standing, forgiven, target, asker, standOpen, replacements>>

Askers == {"run", "health"}
StandAlerts == {"inactive", "window-pct"}

(* Has it missed more than window_pct of the window?  (With no signing     *)
(* info yet it has missed nothing, and with no window the alarm sleeps.)   *)
NoInfo == [known |-> FALSE, active |-> FALSE, over |-> FALSE, window |-> FALSE]
NewTarget == [info |-> NoInfo, latch |-> {}]

(* A refresh is idle, has an answer it has not written down yet, or is     *)
(* about to ask.                                                           *)
Idle == [at |-> "idle", yes |-> FALSE]
AboutToAsk(query) == [at |-> query, yes |-> FALSE]
Steps == {"idle", "record", "ask-signing", "signing", "ask-window"}

Standings == [active : BOOLEAN, over : BOOLEAN, answers : BOOLEAN]

InfoTypeOK ==
  /\ standing \in Standings
  /\ target \in [info : [known : BOOLEAN, active : BOOLEAN, over : BOOLEAN,
                         window : BOOLEAN],
                 latch : SUBSET StandAlerts]
  /\ asker \in [Askers -> [at : Steps, yes : BOOLEAN]]
  /\ standOpen \subseteq StandAlerts
  /\ replacements \in 0 .. MaxReplacements
  /\ forgiven \in BOOLEAN

---------------------------------------------------------------------------
(* refreshValInfo                                                          *)

Hears(r, query, yes) == asker' = [asker EXCEPT ![r] = [at |-> query, yes |-> yes]]

Continues(r, step) == asker' = [asker EXCEPT ![r] = step]

(* A refresh whose first query fails is over as if there had been none.    *)
HearRecord(r) ==
  /\ asker[r] = Idle /\ standing.answers
  /\ Hears(r, "record", standing.active)
  /\ UNCHANGED <<standing, forgiven, target, standOpen, replacements>>

(* Variant: the new info starts from nothing.                              *)
RecordOf(info, active) == [NoInfo EXCEPT !.known = TRUE, !.active = active]

(* The new info keeps what the old one had of the slashing module.         *)
WithRecord(info, active) == [info EXCEPT !.known = TRUE, !.active = active]

ApplyRecord(r) ==
  /\ asker[r].at = "record"
  /\ target' = [target EXCEPT !.info = WithRecord(@, asker[r].yes)]
  /\ Continues(r, AboutToAsk("ask-signing"))
  /\ UNCHANGED <<standing, forgiven, standOpen, replacements>>

HearSigning(r) ==
  /\ asker[r].at = "ask-signing" /\ standing.answers
  /\ Hears(r, "signing", standing.over)
  /\ UNCHANGED <<standing, forgiven, target, standOpen, replacements>>

(* The window is asked for while it is unknown.  (Asking again every 30    *)
(* minutes changes nothing: the chain keeps its window.)                   *)
AfterSigning == IF target.info.window THEN Idle ELSE AboutToAsk("ask-window")

ApplySigning(r) ==
  /\ asker[r].at = "signing"
  /\ target' = [target EXCEPT !.info.over = asker[r].yes]
  /\ Continues(r, AfterSigning)
  /\ UNCHANGED <<standing, forgiven, standOpen, replacements>>

SigningFails(r) ==
  /\ asker[r].at = "ask-signing" /\ ~ standing.answers
  /\ Continues(r, AfterSigning)
  /\ UNCHANGED <<standing, forgiven, target, standOpen, replacements>>

AskWindow(r) ==
  /\ asker[r].at = "ask-window"
  /\ target' = [target EXCEPT !.info.window = @ \/ standing.answers]
  /\ Continues(r, Idle)
  /\ UNCHANGED <<standing, forgiven, standOpen, replacements>>

---------------------------------------------------------------------------
(* watchLoop                                                               *)

Wanted ==
  {a \in {"inactive"} : target.info.known /\ ~ target.info.active}
    \cup {a \in {"window-pct"} : target.info.window /\ target.info.over}

Unwanted ==
  {a \in {"inactive"} : target.info.known /\ target.info.active}
    \cup {a \in {"window-pct"} : target.info.window /\ ~ target.info.over}

(* Variant: only the latch remembers what to clear.                        *)
StandClearedOfLatch == Unwanted \cap target.latch

StandCleared == Unwanted \cap (target.latch \cup standOpen)

WatchStanding ==
  /\ (Wanted \ target.latch) \cup StandCleared # {}
  /\ standOpen' = (standOpen \cup (Wanted \ target.latch)) \ StandCleared
  /\ target' = [target EXCEPT !.latch = (@ \cup Wanted) \ StandCleared]
  /\ UNCHANGED <<standing, forgiven, asker, replacements>>

---------------------------------------------------------------------------
(* Reloads, restarts and the world                                         *)

(* Reloads and restarts differ in what is left of a refresh, which is      *)
(* nothing in either case.                                                 *)
ReplaceTarget ==
  /\ replacements < MaxReplacements
  /\ replacements' = replacements + 1
  /\ target' = NewTarget
  /\ asker' = [r \in Askers |-> Idle]
  /\ forgiven' = TRUE
  /\ UNCHANGED <<standing, standOpen>>

ChangeStanding ==
  /\ standing' \in Standings
  /\ forgiven' = (forgiven \/ ~ standing'.over)
  /\ UNCHANGED <<target, asker, standOpen, replacements>>

InfoInit ==
  /\ standing \in [active : BOOLEAN, over : BOOLEAN, answers : {TRUE}]
  /\ target = NewTarget
  /\ asker = [r \in Askers |-> Idle]
  /\ standOpen = {}
  /\ replacements = 0
  /\ forgiven = ~ standing.over

RefreshStep(r) ==
  \/ ApplyRecord(r)
  \/ HearSigning(r) \/ SigningFails(r) \/ ApplySigning(r)
  \/ AskWindow(r)

InfoNext ==
  \/ \E r \in Askers : HearRecord(r) \/ RefreshStep(r)
  \/ WatchStanding
  \/ ReplaceTarget
  \/ ChangeStanding

InfoSpec == InfoInit /\ [][InfoNext]_infoVars

---------------------------------------------------------------------------
(* Properties                                                              *)

(* README.md:155: inactive is raised for a validator "jailed / tombstoned  *)
(* / unbonded", and window-pct for one that missed too much.  However the  *)
(* refreshes of the two loops overlapped and failed, what the validator is *)
(* for good is what the alerts end up saying, also after reloads and       *)
(* restarts, which forget the latches and what was known.                  *)
StandingIsTold ==
  /\ <>[](standing.answers /\ ~ standing.active) => <>[]("inactive" \in standOpen)
  /\ <>[](standing.answers /\ standing.active) => <>[]("inactive" \notin standOpen)
  /\ <>[](standing.answers /\ standing.over) => <>[]("window-pct" \in standOpen)
  /\ <>[](standing.answers /\ ~ standing.over) => <>[]("window-pct" \notin standOpen)

(* chain.go:460 keeps the counters when the record is replaced: while a    *)
(* validator has missed too much all along, its open window-pct is not     *)
(* cleared, whichever queries fail.  (A reload or a restart may clear it:  *)
(* there the window can be known before the misses are.)                   *)
PageStandsWhileOver ==
  [][{"window-pct"} \subseteq standOpen \ standOpen' => forgiven]_infoVars
=============================================================================
