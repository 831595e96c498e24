------------------------------- MODULE Daemon -------------------------------
(***************************************************************************)
(* The running process: the monitors' alarm latches, the alert engine, the *)
(* state file, restarts and configuration reloads, and what the channels   *)
(* were last told.                                                         *)
(*                                                                         *)
(* A monitor looks at a condition again and again.  It remembers in a      *)
(* latch that it has raised, and the kinds of alert differ in whether they *)
(* also ask the engine (HasOpen) before raising and before resolving:      *)
(*                                                                         *)
(*   style     raises when            resolves when         kinds          *)
(*   guarded   no latch, not open     latch or open         node-down,     *)
(*                                                          catching-up    *)
(*   healing   no latch               latch or open         stalled,       *)
(*                                                          no-nodes, evm, *)
(*                                                          validators     *)
(*   latched   no latch               latch                 node-lag,      *)
(*                                                          mempool-txs,   *)
(*                                                          consensus-round*)
(***************************************************************************)
EXTENDS AlertEngine

CONSTANTS
  Styles,          (* the styles of alert kind under study                 *)
  MaxAge,          (* Restore drops entries older than this                *)
  ResolveOnStart,  (* resolve_alerts_on_start                              *)
  CanCrash,        (* may the process die without saving?                  *)
  CanReload,       (* is the configuration reloaded?                       *)
  MaxStarts        (* bound on the number of times the process is started  *)

ASSUME DaemonAssumption ==
  /\ Styles \subseteq {"guarded", "healing", "latched"}
  /\ MaxAge \in Nat /\ MaxStarts \in Nat \ {0}
  /\ ResolveOnStart \in BOOLEAN /\ CanCrash \in BOOLEAN /\ CanReload \in BOOLEAN

VARIABLES
  style,      (* the style of each key                                     *)
  bad,        (* what a monitor's probes say of each key's condition       *)
  latch,      (* the monitor's own memory of having raised                 *)
  incident,   (* what each channel was last told: is there an incident?    *)
  phase,      (* the process                                               *)
  starts,     (* how often it was started                                  *)
  disk,       (* the state file                                            *)
  lost        (* what the process died without having saved (a history)    *)

worldVars == <<style, bad, latch, phase, starts, disk, lost>>
daemonVars == <<vars, worldVars, incident>>

DaemonTypeOK ==
  /\ TypeOK
  /\ style \in [Keys -> Styles]
  /\ bad \in [Keys -> BOOLEAN]
  /\ latch \in [Keys -> BOOLEAN]
  /\ incident \in [Dests -> [Keys -> BOOLEAN]]
  /\ phase \in {"running", "down", "panicked"}
  /\ starts \in 1 .. MaxStarts
  /\ disk \in [sent : [Dests -> [Keys -> Stamps]], silences : [Silences -> SilenceRecords]]
  /\ lost \subseteq Dests \X Keys

---------------------------------------------------------------------------
(* The engine at work.  A channel learns of an incident when the engine    *)
(* decides to page or to clear; losses on the wire are AlertEngine's.      *)

Tell ==
  incident' = [d \in Dests |-> [k \in Keys |->
                 IF Open(d, k)' = Open(d, k) THEN incident[d][k] ELSE Open(d, k)']]

EngineStep ==
  /\ phase = "running"
  /\ \/ \E t \in Threads : Step(t)
     \/ \E s \in Silences, w \in Windows : AddSilence(s, w)
     \/ \E t \in Apis, s \in Silences : ExpireSilence(t, s)
     \/ SilenceTick
     \/ Remind
     \/ \E m \in Messages : Deliver(m)
  /\ Tell
  /\ UNCHANGED worldVars

HasOpen(k) == \E d \in Dests : Open(d, k)

(* One evaluation of a condition by its monitor, when it leads to an alert.*)
RaisesNow(k) == bad[k] /\ ~ latch[k] /\ (style[k] = "guarded" => ~ HasOpen(k))

(* Variant: a resolve asks the latch alone.                                *)
ResolvesOfLatch(k) == ~ bad[k] /\ latch[k]

ResolvesNow(k) == ~ bad[k] /\ (latch[k] \/ (style[k] # "latched" /\ HasOpen(k)))

Evaluate(t, k) ==
  /\ phase = "running"
  /\ RaisesNow(k) \/ ResolvesNow(k)
  /\ latch' = [latch EXCEPT ![k] = bad[k]]
  /\ Submit(t, k, ~ bad[k])
  /\ UNCHANGED <<style, bad, incident, phase, starts, disk, lost>>

(* SIGHUP: the resolver answers from the new configuration, and the latch  *)
(* of a kind that keeps it in a node, an EVM probe or a target is lost     *)
(* when those are rebuilt.                                                 *)
Reload(k, ds, rebuilt) ==
  /\ CanReload
  /\ phase = "running"
  /\ Reroute(k, ds)
  /\ latch' = IF rebuilt THEN [latch EXCEPT ![k] = FALSE] ELSE latch
  /\ UNCHANGED <<style, bad, incident, phase, starts, disk, lost>>

---------------------------------------------------------------------------
(* The state file                                                          *)

(* Variant: the file keeps what this process saw open, not what was sent.  *)
SnapshotOfActive ==
  [sent |-> [d \in Dests |-> [k \in Keys |-> IF k \in active THEN sent[d][k] ELSE Never]],
   silences |-> silences]

Snapshot == [sent |-> sent, silences |-> silences]

(* The save every two minutes.                                             *)
Save ==
  /\ phase = "running"
  /\ disk' = Snapshot
  /\ UNCHANGED <<vars, style, bad, latch, incident, phase, starts, lost>>

(* SIGTERM: the monitors are stopped and the state is saved.  Stopping     *)
(* while a Dispatch is under way is a Save followed by a Crash.            *)
Stop ==
  /\ phase = "running"
  /\ \A t \in Threads : go[t].at = "idle"
  /\ disk' = Snapshot
  /\ phase' = "down"
  /\ UNCHANGED <<vars, style, bad, latch, incident, starts, lost>>

Saved(d, k) == disk.sent[d][k] # Never

Unsaved == {p \in Dests \X Keys : Open(p[1], p[2]) # Saved(p[1], p[2])}

Crash ==
  /\ CanCrash
  /\ phase = "running"
  /\ phase' = "down"
  /\ lost' = lost \cup Unsaved
  /\ UNCHANGED <<vars, style, bad, latch, incident, starts, disk>>

Stale(d, k) == now - disk.sent[d][k] > MaxAge

(* Variant: an alert goes with the channel that is no longer configured.   *)
RestoredOfRoutes ==
  [d \in Dests |-> [k \in Keys |->
     IF Saved(d, k) /\ ~ Stale(d, k) /\ d \in routes[k] THEN disk.sent[d][k] ELSE Never]]

Restored ==
  [d \in Dests |-> [k \in Keys |->
     IF Saved(d, k) /\ ~ Stale(d, k) THEN disk.sent[d][k] ELSE Never]]

(* resolve_alerts_on_start dispatches a resolve for every saved alert, but *)
(* the engine's resolver is only installed later (run.go:123): the first   *)
(* such Dispatch calls a nil function.                                     *)
CallsNilResolver == ResolveOnStart /\ \E d \in Dests, k \in Keys : Saved(d, k)

(* Everything the process kept in memory starts empty.                     *)
Boot ==
  /\ phase = "down" /\ starts < MaxStarts
  /\ starts' = starts + 1
  /\ phase' = IF CallsNilResolver THEN "panicked" ELSE "running"
  /\ sent' = Restored
  /\ silences' = Kept(disk.silences)
  /\ active' = {} /\ held' = {}
  /\ flapped' = [d \in Dests |-> [k \in Keys |-> Never]]
  /\ go' = [t \in Threads |-> Idle]
  /\ wire' = NoMessages
  /\ latch' = [k \in Keys |-> FALSE]
  /\ UNCHANGED <<now, routes, style, bad, incident, disk, lost>>

---------------------------------------------------------------------------
(* The world                                                               *)

Flip(k) ==
  /\ bad' = [bad EXCEPT ![k] = ~ @]
  /\ UNCHANGED <<vars, style, latch, incident, phase, starts, disk, lost>>

TimePasses ==
  /\ Tick
  /\ UNCHANGED <<worldVars, incident>>

DaemonInit ==
  /\ Init
  /\ style \in [Keys -> Styles]
  /\ bad = [k \in Keys |-> FALSE]
  /\ latch = [k \in Keys |-> FALSE]
  /\ incident = [d \in Dests |-> [k \in Keys |-> FALSE]]
  /\ phase = "running" /\ starts = 1
  /\ disk = Snapshot
  /\ lost = {}

DaemonNext ==
  \/ EngineStep
  \/ \E t \in Monitors, k \in Keys : Evaluate(t, k)
  \/ \E k \in Keys, ds \in SUBSET Dests, rebuilt \in BOOLEAN : Reload(k, ds, rebuilt)
  \/ Save
  \/ Stop
  \/ Crash
  \/ Boot
  \/ \E k \in Keys : Flip(k)
  \/ TimePasses

DaemonSpec == DaemonInit /\ [][DaemonNext]_daemonVars

(* Goroutines run, every monitor keeps evaluating, and a service manager   *)
(* starts a process that ended.                                            *)
DaemonFairness ==
  /\ \A t \in Threads : WF_daemonVars(phase = "running" /\ Step(t) /\ Tell /\ UNCHANGED worldVars)
  /\ \A m \in Messages : WF_daemonVars(phase = "running" /\ Deliver(m) /\ Tell /\ UNCHANGED worldVars)
  /\ \A k \in Keys : WF_daemonVars(\E t \in Monitors : Evaluate(t, k))
  /\ WF_daemonVars(Boot)

FairDaemon == DaemonSpec /\ DaemonFairness

---------------------------------------------------------------------------
(* Properties                                                              *)

(* A running engine knows exactly which incidents the channels have open,  *)
(* and while the process is down the state file does.  Dying between a     *)
(* message and the next save is the only way to lose one.                  *)
KnowsOpenIncidents ==
  \A d \in Dests, k \in Keys :
    \/ <<d, k>> \in lost
    \/ incident[d][k] <=> IF phase = "running" THEN Open(d, k) ELSE Saved(d, k)

(* README.md:292: "a reboot neither double-pages nor forgets to resolve".  *)
(* A process goes on with the conversations of the one before it: it pages *)
(* no incident a channel was told of and clears none it was not told of,   *)
(* but for those a process died without having saved.  The daemon          *)
(* implements the durable ledger.                                          *)
Durable == INSTANCE DurableLedger WITH
             up <- phase = "running",
             told <- [d \in Dests |-> {k \in Keys : incident[d][k]}],
             saved <- [d \in Dests |-> {k \in Keys : Saved(d, k)}]
ImplementsDurableLedger == Durable!Spec

(* README.md:187: "Every raise is paired with a resolve when the condition *)
(* clears ... even across restarts".  Once a condition stays clear and a   *)
(* channel stays configured, that channel ends up without an incident,     *)
(* whatever Dispatch calls overtook each other before, unless the process  *)
(* died without having saved the raise.                                    *)
Settled(d, k) ==
  ~ bad[k] /\ d \in routes[k] /\ phase = "running" /\ <<d, k>> \notin lost

Cleared ==
  \A d \in Dests, k \in Keys : <>[]Settled(d, k) => <>[](~ incident[d][k])
=============================================================================
