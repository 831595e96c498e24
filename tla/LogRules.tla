------------------------------ MODULE LogRules ------------------------------
(***************************************************************************)
(* internal/logs/logs.go and internal/monitor/logs.go: a rule over the     *)
(* lines of a node's log, and the alert it raises.                         *)
(*                                                                         *)
(* A rule that fires raises its alert and starts a timer that resolves it  *)
(* when the rule's cooldown is over; nobody asks whether the first page    *)
(* went out.  The raise and the resolve are dispatched by goroutines of    *)
(* their own, and the engine drops a raise of an open alert, or of one     *)
(* that was resolved less than FlapMinutes ago.  Nothing here is read      *)
(* again on a reload: the watchers start once and go on with their rules.  *)
(* Rules share nothing; one is modelled.  Timers and dispatches are done   *)
(* within the minute they are due in.                                      *)
(***************************************************************************)
EXTENDS Ages, SequencesExt

CONSTANTS
  Count,         (* the matches that make the rule fire                    *)
  Window,        (* within this many minutes                               *)
  Cooldown,      (* it fires again after this many minutes                 *)
  Flap,          (* flap_suppression_minutes                               *)
  MaxRestarts    (* bound on restarts                                      *)

(* Compile replaces what is not positive by a default.                     *)
ASSUME RuleAssumption ==
  /\ Count \in Nat \ {0} /\ Window \in Nat \ {0} /\ Cooldown \in Nat \ {0}
  /\ Flap \in Nat /\ MaxRestarts \in Nat
  /\ Window <= Old /\ Cooldown <= Old /\ Flap <= Old

VARIABLES
  hits,        (* the ages of the latest matches, oldest first             *)
  lastAlert,   (* when the rule fired last                                 *)
  timers,      (* the resolves to come, by the age of their timer          *)
  dispatches,  (* the goroutines on their way into the engine              *)
  incident,    (* does the engine hold the alert open?                     *)
  flapped,     (* when it was last resolved                                *)
  restarts     (* how often the process was restarted                      *)

engineVars == <<incident, flapped>>
ruleVars == <<hits, lastAlert, timers, dispatches, engineVars, restarts>>

RulesTypeOK ==
  /\ hits \in BoundedSeq(0 .. Window, Count)
  /\ lastAlert \in Times
  /\ timers \subseteq 0 .. Cooldown
  /\ dispatches \subseteq {"raise", "resolve"}
  /\ incident \in BOOLEAN
  /\ flapped \in Times
  /\ restarts \in 0 .. MaxRestarts

---------------------------------------------------------------------------
(* Rule.Match                                                              *)

(* Only the latest Count matches can make a difference.                    *)
Recorded == IF Len(hits) = Count THEN Append(Tail(hits), 0) ELSE Append(hits, 0)

Cooled == Since(lastAlert) >= Cooldown

(* Variant: an alert that is open already gets no timer.                   *)
FireUntimed ==
  /\ Len(Recorded) = Count /\ Cooled
  /\ lastAlert' = 0
  /\ timers' = IF incident THEN timers ELSE timers \cup {0}
  /\ dispatches' = dispatches \cup {"raise"}

Fire ==
  /\ Len(Recorded) = Count /\ Cooled
  /\ lastAlert' = 0
  /\ timers' = timers \cup {0}
  /\ dispatches' = dispatches \cup {"raise"}

(* Variant: a match while the rule is quiet starts the cooldown anew.      *)
StayQuietLonger ==
  /\ ~ (Len(Recorded) = Count /\ Cooled)
  /\ lastAlert' = IF Len(Recorded) = Count THEN 0 ELSE lastAlert
  /\ UNCHANGED <<timers, dispatches>>

StayQuiet ==
  /\ ~ (Len(Recorded) = Count /\ Cooled)
  /\ UNCHANGED <<lastAlert, timers, dispatches>>

Match ==
  /\ hits' = Recorded
  /\ Fire \/ StayQuiet
  /\ UNCHANGED <<engineVars, restarts>>

(* Variant: the alert of a rule that has fired again stays open.           *)
QuietedIfCold ==
  /\ Cooldown \in timers
  /\ timers' = timers \ {Cooldown}
  /\ dispatches' = dispatches \cup (IF Cooled THEN {"resolve"} ELSE {})
  /\ UNCHANGED <<hits, lastAlert, engineVars, restarts>>

(* time.AfterFunc                                                          *)
Quieted ==
  /\ Cooldown \in timers
  /\ timers' = timers \ {Cooldown}
  /\ dispatches' = dispatches \cup {"resolve"}
  /\ UNCHANGED <<hits, lastAlert, engineVars, restarts>>

---------------------------------------------------------------------------
(* The engine                                                              *)

DispatchRaise ==
  /\ "raise" \in dispatches
  /\ dispatches' = dispatches \ {"raise"}
  /\ incident' = (incident \/ Since(flapped) >= Flap)
  /\ UNCHANGED <<hits, lastAlert, timers, flapped, restarts>>

DispatchResolve ==
  /\ "resolve" \in dispatches
  /\ dispatches' = dispatches \ {"resolve"}
  /\ incident' = FALSE
  /\ flapped' = IF incident THEN 0 ELSE flapped
  /\ UNCHANGED <<hits, lastAlert, timers, restarts>>

---------------------------------------------------------------------------
(* Time and restarts                                                       *)

NextMinute ==
  /\ Cooldown \notin timers /\ dispatches = {}
  /\ LET Recent(age) == age < Window
     IN  hits' = [i \in DOMAIN SelectSeq(hits, Recent) |-> SelectSeq(hits, Recent)[i] + 1]
  /\ lastAlert' = Older(lastAlert) /\ flapped' = Older(flapped)
  /\ timers' = {age + 1 : age \in timers}
  /\ UNCHANGED <<dispatches, incident, restarts>>

(* The state file keeps the open alert; rules, timers and the flap window  *)
(* are gone.                                                               *)
RestartWatcher ==
  /\ restarts < MaxRestarts
  /\ restarts' = restarts + 1
  /\ hits' = <<>> /\ lastAlert' = Never
  /\ timers' = {} /\ dispatches' = {}
  /\ flapped' = Never
  /\ UNCHANGED incident

RulesInit ==
  /\ hits = <<>> /\ lastAlert = Never
  /\ timers = {} /\ dispatches = {}
  /\ incident = FALSE /\ flapped = Never
  /\ restarts = 0

RulesNext ==
  \/ Match
  \/ Quieted
  \/ DispatchRaise
  \/ DispatchResolve
  \/ NextMinute
  \/ RestartWatcher

RulesSpec == RulesInit /\ [][RulesNext]_ruleVars

---------------------------------------------------------------------------
(* Properties                                                              *)

(* monitor/logs.go:136: "the alert is an event".  Nobody looks again       *)
(* whether it is over: an open alert of a rule that has fired in this      *)
(* process has a timer or a resolve on its way, also one an earlier        *)
(* process left open, and one whose raise and whose predecessor's resolve  *)
(* reached the engine in either order.                                     *)
EventIsTimed ==
  incident /\ lastAlert # Never => timers # {} \/ "resolve" \in dispatches

(* monitor/logs.go:137: "the latch resolves so the open-alert set doesn't  *)
(* grow stale".  Once a rule has fired since the start of the process, no  *)
(* alert of it stays open for ever, although a rule that stays hot fires   *)
(* again in the minute in which the cooldown ends, and its raise may come  *)
(* before or after the resolve.                                            *)
EventCloses ==
  []<>(lastAlert # Never => ~ incident)

(* logs.go:77: a rule "re-fires at most every Cooldown while it stays      *)
(* hot".  One that stays hot for ever pages again and again, although some *)
(* of its raises are lost: to the alert before, which is still open, or to *)
(* the flap window its resolve opened.                                     *)
HotIsPagedAgain ==
  <>[](Len(hits) = Count) => []<><<~ incident /\ incident'>>_ruleVars
=============================================================================
