---------------------------- MODULE AlertEngine ----------------------------
(***************************************************************************)
(* internal/alert: the engine that turns a monitor's raises and resolves   *)
(* into messages to notification channels.                                 *)
(*                                                                         *)
(* Dispatch runs on many goroutines at once: one per monitor alert, the    *)
(* silence ticker and the HTTP handlers.  It takes e.mu three separate     *)
(* times (book the alert, then one shouldSend per destination), so a       *)
(* goroutine is a small state machine here and every critical section of   *)
(* e.mu is one action.  Sending is a further goroutine per message; the    *)
(* bag `wire` holds the messages those goroutines have not settled.        *)
(*                                                                         *)
(* A key stands for an alert of one chain with its fixed payload and       *)
(* labels; `Mutes` abstracts the matchers of a silence to the keys they    *)
(* select.                                                                 *)
(***************************************************************************)
EXTENDS Wire, FiniteSets

CONSTANTS
  Silences,       (* silence ids                                           *)
  Mutes,          (* the keys a silence's matchers select                  *)
  Monitors,       (* goroutines a monitor's alert() starts                 *)
  Ticker,         (* the goroutine of RunSilences                          *)
  Apis,           (* goroutines of the HTTP handlers                       *)
  FlapMinutes,    (* a raise this soon after a resolve is dropped          *)
  RemindMinutes,  (* age at which an open alert is sent again, 0 for never *)
  MaxSilence,     (* longest silence AddSilence accepts                    *)
  SilenceKeep,    (* how long an expired silence is listed                 *)
  CanFail,        (* may a notifier return an error of its own?            *)
  MaxTime,        (* bound of the clock                                    *)
  MaxWire,        (* a monitor waits while more kinds of message than this are in flight *)
  Never           (* no time                                               *)

ASSUME EngineAssumption ==
  /\ Keys # {}
  /\ Mutes \in [Silences -> SUBSET Keys]
  /\ FlapMinutes \in Nat /\ RemindMinutes \in Nat /\ MaxSilence \in Nat
  /\ SilenceKeep \in Nat /\ MaxTime \in Nat /\ MaxWire \in Nat
  /\ CanFail \in BOOLEAN
  /\ Never \notin Nat
  /\ Ticker \notin Monitors /\ Ticker \notin Apis /\ Monitors \cap Apis = {}

VARIABLES
  now,        (* the clock, in minutes                                     *)
  routes,     (* what the resolver answers for a key under today's config  *)
  silences,   (* the silences by id                                        *)
  active,     (* keys whose condition was last booked as open              *)
  held,       (* raises a silence muted                                    *)
  sent,       (* when the open alert of (dest, key) last went out          *)
  flapped,    (* when (dest, key) was last resolved                        *)
  go,         (* the goroutines inside Dispatch or releaseHeld             *)
  wire        (* messages whose delivery goroutine is still running        *)

vars == <<now, routes, silences, active, held, sent, flapped, go, wire>>

Threads == Monitors \cup Apis \cup {Ticker}
Times == 0 .. MaxTime
Stamps == Times \cup {Never}
Windows == [starts : Times, ends : Times]
NoSilence == [starts |-> 0, ends |-> 0, known |-> FALSE]
SilenceRecords == [starts : Times, ends : Times, known : BOOLEAN]

(* Where a goroutine is, the alert it carries, the destinations it still   *)
(* has to try, and the held keys it still has to dispatch.                 *)
Steps == {"idle", "release", "next", "resolve", "book", "fan"}
Routines == [at : Steps, key : Keys, resolved : BOOLEAN,
             todo : SUBSET Dests, due : SUBSET Keys]

Idle == [at |-> "idle", key |-> CHOOSE k \in Keys : TRUE, resolved |-> FALSE,
         todo |-> {}, due |-> {}]

(* A monitor dispatches under context.Background and RunSilences under the *)
(* daemon's context; an HTTP handler passes on its request's context.      *)
ContextOf(t) == IF t \in Apis THEN "request" ELSE "app"

TypeOK ==
  /\ now \in Times
  /\ routes \in [Keys -> SUBSET Dests]
  /\ silences \in [Silences -> SilenceRecords]
  /\ active \subseteq Keys
  /\ held \subseteq Keys
  /\ sent \in [Dests -> [Keys -> Stamps]]
  /\ flapped \in [Dests -> [Keys -> Stamps]]
  /\ go \in [Threads -> Routines]
  /\ wire \in [Messages -> Nat]

---------------------------------------------------------------------------
(* Silences                                                                *)

InEffect(s) ==
  /\ silences[s].known
  /\ silences[s].starts <= now
  /\ now < silences[s].ends

Silenced(k) == \E s \in Silences : InEffect(s) /\ k \in Mutes[s]

(* POST /api/v2/silences: a new silence, or a new window for a known id.   *)
AddSilence(s, w) ==
  /\ w.starts < w.ends
  /\ now < w.ends
  /\ w.ends - w.starts <= MaxSilence
  /\ silences' = [silences EXCEPT ![s] = [starts |-> w.starts, ends |-> w.ends, known |-> TRUE]]
  /\ UNCHANGED <<now, routes, active, held, sent, flapped, go, wire>>

(* DELETE /api/v2/silence/{id}: the silence ends now, then the handler     *)
(* releases what it held.                                                  *)
ExpireSilence(t, s) ==
  /\ t \in Apis /\ go[t].at = "idle"
  /\ silences[s].known
  /\ silences' = [silences EXCEPT ![s].ends = IF @ > now THEN now ELSE @]
  /\ go' = [go EXCEPT ![t].at = "release"]
  /\ UNCHANGED <<now, routes, active, held, sent, flapped, wire>>

LongExpired(w) == w.known /\ now - w.ends > SilenceKeep

Kept(list) == [s \in Silences |-> IF LongExpired(list[s]) THEN NoSilence ELSE list[s]]

(* Variant: the tick tidies the list of silences and releases nothing.     *)
SilenceTickTidies ==
  /\ go[Ticker].at = "idle"
  /\ silences' = Kept(silences)
  /\ UNCHANGED <<now, routes, active, held, sent, flapped, go, wire>>

(* The 15 s tick of RunSilences forgets long expired silences, then        *)
(* releases what nothing mutes any more.                                   *)
SilenceTick ==
  /\ go[Ticker].at = "idle"
  /\ silences' = Kept(silences)
  /\ go' = [go EXCEPT ![Ticker].at = "release"]
  /\ UNCHANGED <<now, routes, active, held, sent, flapped, wire>>

(* The critical section of releaseHeld: what no silence mutes leaves held, *)
(* and is due if its condition is still open.                              *)
Released == {k \in held : ~ Silenced(k)}

(* A goroutine that has dispatched an alert goes on with what else is due. *)
Then(r) == IF r.due = {} THEN Idle ELSE [r EXCEPT !.at = "next", !.todo = {}]

ReleaseHeld(t) ==
  /\ go[t].at = "release"
  /\ held' = held \ Released
  /\ go' = [go EXCEPT ![t] = Then([go[t] EXCEPT !.due = Released \cap active])]
  /\ UNCHANGED <<now, routes, silences, active, sent, flapped, wire>>

NextHeld(t, k) ==
  /\ go[t].at = "next"
  /\ k \in go[t].due
  /\ go' = [go EXCEPT ![t] = [go[t] EXCEPT !.at = "resolve", !.key = k,
                                           !.resolved = FALSE, !.due = @ \ {k}]]
  /\ UNCHANGED <<now, routes, silences, active, held, sent, flapped, wire>>

---------------------------------------------------------------------------
(* Dispatch                                                                *)

Submit(t, k, r) ==
  /\ t \in Monitors /\ go[t].at = "idle"
  /\ Cardinality({m \in Messages : wire[m] > 0}) <= MaxWire
  /\ go' = [go EXCEPT ![t] = [go[t] EXCEPT !.at = "resolve", !.key = k, !.resolved = r]]
  /\ UNCHANGED <<now, routes, silences, active, held, sent, flapped, wire>>

(* dests := e.resolve(&a), before e.mu is taken: later steps use this      *)
(* answer even if the configuration is reloaded in between.                *)
Resolve(t) ==
  /\ go[t].at = "resolve"
  /\ go' = [go EXCEPT ![t] = [go[t] EXCEPT !.at = "book", !.todo = routes[go[t].key]]]
  /\ UNCHANGED <<now, routes, silences, active, held, sent, flapped, wire>>

(* Variant: a resolve forgets the raise that is held.                      *)
BookKeepsHeld(t) ==
  LET k == go[t].key IN
  /\ go[t].at = "book"
  /\ active' = IF go[t].resolved THEN active \ {k} ELSE active \cup {k}
  /\ IF ~ go[t].resolved /\ Silenced(k)
       THEN held' = held \cup {k} /\ go' = [go EXCEPT ![t] = Then(@)]
       ELSE held' = held /\ go' = [go EXCEPT ![t].at = "fan"]
  /\ UNCHANGED <<now, routes, silences, sent, flapped, wire>>

(* The first critical section: active and held follow the alert, and a     *)
(* muted raise goes no further.                                            *)
Book(t) ==
  LET k == go[t].key IN
  /\ go[t].at = "book"
  /\ IF go[t].resolved
       THEN /\ active' = active \ {k}
            /\ held' = held \ {k}
            /\ go' = [go EXCEPT ![t].at = "fan"]
       ELSE /\ active' = active \cup {k}
            /\ IF Silenced(k)
                 THEN /\ held' = held \cup {k}
                      /\ go' = [go EXCEPT ![t] = Then(@)]
                 ELSE /\ held' = held
                      /\ go' = [go EXCEPT ![t].at = "fan"]
  /\ UNCHANGED <<now, routes, silences, sent, flapped, wire>>

Open(d, k) == sent[d][k] # Never

Flapping(d, k) == flapped[d][k] # Never /\ now - flapped[d][k] < FlapMinutes

(* `go func() { n.Send ... }()` for each message of S.                     *)
Fire(S) == wire' = Add(wire, S)

(* Variant: a page without the check for an open incident.    *)
SendRaiseAgain(t, d) ==
  LET k == go[t].key IN
  /\ ~ go[t].resolved
  /\ ~ Flapping(d, k)
  /\ sent' = [sent EXCEPT ![d][k] = now]
  /\ Fire({NewMessage(d, k, "raise", ContextOf(t))})
  /\ UNCHANGED flapped

(* shouldSend, a critical section of its own per destination, and the      *)
(* firing it permits.                                                      *)
SendRaise(t, d) ==
  LET k == go[t].key IN
  /\ ~ go[t].resolved
  /\ ~ Open(d, k) /\ ~ Flapping(d, k)
  /\ sent' = [sent EXCEPT ![d][k] = now]
  /\ Fire({NewMessage(d, k, "raise", ContextOf(t))})
  /\ UNCHANGED flapped

SendResolve(t, d) ==
  LET k == go[t].key IN
  /\ go[t].resolved
  /\ Open(d, k)
  /\ sent' = [sent EXCEPT ![d][k] = Never]
  /\ flapped' = [flapped EXCEPT ![d][k] = now]
  /\ Fire({NewMessage(d, k, "resolve", ContextOf(t))})

Suppress(t, d) ==
  LET k == go[t].key IN
  /\ IF go[t].resolved THEN ~ Open(d, k) ELSE Open(d, k) \/ Flapping(d, k)
  /\ UNCHANGED <<sent, flapped, wire>>

Fan(t, d) ==
  /\ go[t].at = "fan"
  /\ d \in go[t].todo
  /\ SendRaise(t, d) \/ SendResolve(t, d) \/ Suppress(t, d)
  /\ go' = [go EXCEPT ![t].todo = @ \ {d}]
  /\ UNCHANGED <<now, routes, silences, active, held>>

Return(t) ==
  /\ go[t].at = "fan" /\ go[t].todo = {}
  /\ go' = [go EXCEPT ![t] = Then(@)]
  /\ UNCHANGED <<now, routes, silences, active, held, sent, flapped, wire>>

---------------------------------------------------------------------------
(* Reminders: RunReminders picks every open alert that is due under e.mu   *)
(* and stamps it, even when its channel is no longer configured.           *)

DueForReminder(d, k) ==
  /\ Open(d, k)
  /\ now - sent[d][k] >= RemindMinutes
  /\ ~ Silenced(k)

Remind ==
  /\ RemindMinutes > 0
  /\ \E d \in Dests, k \in Keys : DueForReminder(d, k)
  /\ sent' = [d \in Dests |-> [k \in Keys |->
                 IF DueForReminder(d, k) THEN now ELSE sent[d][k]]]
  /\ Fire({m \in Messages : /\ m.what = "remind" /\ m.ctx = "app" /\ m.tries = 0
                            /\ DueForReminder(m.dest, m.key) /\ m.dest \in routes[m.key]})
  /\ UNCHANGED <<now, routes, silences, active, held, flapped, go>>

---------------------------------------------------------------------------
(* Deliveries                                                              *)

(* A request's context dies when its handler returns (with several         *)
(* handlers: when all have).                                               *)
Cancelled(m) == m.ctx = "request" /\ \A t \in Apis : go[t].at = "idle"

(* The notifier reports success, or its retry has failed, or the context   *)
(* died: the goroutine ends either way.  A first attempt that fails is the *)
(* last one when it used up the 45 s of the context.                       *)
Delivered(m) ==
  /\ ~ Cancelled(m)
  /\ wire' = [wire EXCEPT ![m] = @ - 1]

Retry(m) ==
  /\ CanFail /\ ~ Cancelled(m)
  /\ m.tries = 0
  /\ wire' = [wire EXCEPT ![m] = @ - 1, ![Retried(m)] = @ + 1]

GiveUp(m) ==
  /\ CanFail \/ Cancelled(m)
  /\ wire' = [wire EXCEPT ![m] = @ - 1]

(* Variant: a message is settled twice.                                    *)
DeliverTwice(m) ==
  /\ Delivered(m) \/ Retry(m) \/ GiveUp(m)
  /\ UNCHANGED <<now, routes, silences, active, held, sent, flapped, go>>

Deliver(m) ==
  /\ wire[m] > 0
  /\ Delivered(m) \/ Retry(m) \/ GiveUp(m)
  /\ UNCHANGED <<now, routes, silences, active, held, sent, flapped, go>>

---------------------------------------------------------------------------
(* The world around the engine                                             *)

(* A configuration reload changes which destinations a key resolves to.    *)
Reroute(k, ds) ==
  /\ routes' = [routes EXCEPT ![k] = ds]
  /\ UNCHANGED <<now, silences, active, held, sent, flapped, go, wire>>

Tick ==
  /\ now < MaxTime
  /\ now' = now + 1
  /\ UNCHANGED <<routes, silences, active, held, sent, flapped, go, wire>>

Init ==
  /\ now = 0
  /\ routes \in [Keys -> SUBSET Dests]
  /\ silences = [s \in Silences |-> NoSilence]
  /\ active = {}
  /\ held = {}
  /\ sent = [d \in Dests |-> [k \in Keys |-> Never]]
  /\ flapped = [d \in Dests |-> [k \in Keys |-> Never]]
  /\ go = [t \in Threads |-> Idle]
  /\ wire = NoMessages

(* One step of goroutine t inside the engine.                              *)
Step(t) ==
  \/ ReleaseHeld(t)
  \/ \E k \in Keys : NextHeld(t, k)
  \/ Resolve(t)
  \/ Book(t)
  \/ \E d \in Dests : Fan(t, d)
  \/ Return(t)

Next ==
  \/ \E t \in Threads : Step(t)
  \/ \E t \in Monitors, k \in Keys, r \in BOOLEAN : Submit(t, k, r)
  \/ \E s \in Silences, w \in Windows : AddSilence(s, w)
  \/ \E t \in Apis, s \in Silences : ExpireSilence(t, s)
  \/ SilenceTick
  \/ Remind
  \/ \E m \in Messages : Deliver(m)
  \/ \E k \in Keys, ds \in SUBSET Dests : Reroute(k, ds)
  \/ Tick

Spec == Init /\ [][Next]_vars

(* The Go scheduler runs every ready goroutine, tickers fire and time      *)
(* passes; nothing forces a monitor or an operator to do anything.         *)
Fairness ==
  /\ \A t \in Threads : WF_vars(Step(t))
  /\ WF_vars(SilenceTick)
  /\ WF_vars(Tick)

FairSpec == Spec /\ Fairness

---------------------------------------------------------------------------
(* Properties                                                              *)

(* A raise is held only while its condition is booked as open: a resolve   *)
(* that arrives during a silence takes the held raise with it, whatever    *)
(* goroutines release, book and fan out at the same time.                  *)
HeldIsOpen == held \subseteq active

(* Every channel sees a well-formed conversation for every key (at most    *)
(* one open incident, no all-clear without a page) however the critical    *)
(* sections of concurrent Dispatch calls interleave: the engine implements *)
(* the ledger.                                                             *)
Ledger == INSTANCE PagerLedger WITH
            open <- [d \in Dests |-> {k \in Keys : Open(d, k)}]
ImplementsLedger == Ledger!Spec

(* A held raise does not stay held for ever: with silences of bounded      *)
(* length it is handed to Dispatch or taken back by a resolve.             *)
HeldIsReleased == \A k \in Keys : [](k \in held => <>(k \notin held))

(* "Raises are held, not dropped: one still open when the silence ends is  *)
(* sent then" (silence.go:60).  A page in flight on a context that is      *)
(* already cancelled is not sent.                                          *)
NoPageOnDeadContext ==
  \A m \in Messages : wire[m] > 0 /\ m.what = "raise" => ~ Cancelled(m)
=============================================================================
