------------------------------- MODULE Locks -------------------------------
(***************************************************************************)
(* The three kinds of mutex that goroutines of the daemon hold while they  *)
(* ask for another one:                                                    *)
(*                                                                         *)
(*   supervisor  Supervisor.mu                                             *)
(*   a chain     Chain.mu, one per monitored chain                         *)
(*   engine      Engine.mu                                                 *)
(*                                                                         *)
(* What matters for deadlock is which locks a goroutine may hold when it   *)
(* asks for a further one (`MayAsk`).  A goroutine that holds nothing asks *)
(* for any lock its code takes; the work done inside a critical section    *)
(* is left out.                                                            *)
(***************************************************************************)
EXTENDS Integers

CONSTANTS
  Chains,      (* one mutex for each                                       *)
  Supervisor,  (* the supervisor's mutex                                   *)
  Engine,      (* the engine's mutex                                       *)
  Watchers,    (* goroutines of a chain's monitor                          *)
  ChainOf,     (* the chain a watcher belongs to                           *)
  Senders,     (* goroutines of Dispatch, fire, releaseHeld and the API    *)
  Admins,      (* goroutines of Reload, Ready and the state save           *)
  Reminders,   (* the goroutine of RunReminders, if reminders are on       *)
  None         (* no lock, no goroutine                                    *)

Locks == Chains \cup {Supervisor, Engine}
Goroutines == Watchers \cup Senders \cup Admins \cup Reminders

ASSUME LocksAssumption ==
  /\ Supervisor # Engine /\ Supervisor \notin Chains /\ Engine \notin Chains
  /\ ChainOf \in [Watchers -> Chains]
  /\ None \notin Locks /\ None \notin Goroutines

VARIABLES
  owner,   (* the goroutine that holds a lock                              *)
  wants    (* the lock a goroutine is blocked on in Lock()                 *)

lockVars == <<owner, wants>>

Holds(g) == {l \in Locks : owner[l] = g}

(* Variant: rootFn is called inside the chain's lock (see health.go:474).  *)
WatcherAsksRoot(g, l) ==
  \/ Holds(g) = {}
  \/ Holds(g) = {ChainOf[g]} /\ l \in {Engine, Supervisor}

(* A monitor goroutine takes its chain's lock and, inside it, the engine's *)
(* (HasOpen, ActiveCount); it reads the root configuration through the     *)
(* supervisor's lock before it takes its own.                              *)
WatcherAsks(g, l) ==
  \/ Holds(g) = {}
  \/ Holds(g) = {ChainOf[g]} /\ l = Engine

(* Variant: Dispatch resolves destinations inside the engine's lock.       *)
SenderAsksInside(g, l) ==
  \/ Holds(g) = {} /\ l = Engine
  \/ Holds(g) = {Engine} /\ l = Supervisor

(* Dispatch asks the supervisor where an alert goes, then books it; every  *)
(* critical section of the engine it enters is left before the next.       *)
SenderAsks(g, l) == Holds(g) = {} /\ l \in {Supervisor, Engine}

(* Reload, Ready and SnapshotNodesDown go through the chains, one at a     *)
(* time, inside the supervisor's lock; the save also reads the engine.     *)
AdminAsks(g, l) ==
  \/ Holds(g) = {}
  \/ Holds(g) = {Supervisor} /\ l \in Chains

(* RunReminders resolves destinations inside the engine's lock.            *)
ReminderAsks(g, l) ==
  \/ Holds(g) = {} /\ l = Engine
  \/ Holds(g) = {Engine} /\ l = Supervisor

MayAsk(g, l) ==
  \/ g \in Watchers /\ l \in {ChainOf[g], Supervisor, Engine} /\ WatcherAsks(g, l)
  \/ g \in Senders /\ SenderAsks(g, l)
  \/ g \in Admins /\ AdminAsks(g, l)
  \/ g \in Reminders /\ ReminderAsks(g, l)

Ask(g, l) ==
  /\ wants[g] = None
  /\ MayAsk(g, l)
  /\ wants' = [wants EXCEPT ![g] = l]
  /\ UNCHANGED owner

Acquire(g, l) ==
  /\ wants[g] = l
  /\ owner[l] = None
  /\ owner' = [owner EXCEPT ![l] = g]
  /\ wants' = [wants EXCEPT ![g] = None]

Release(g, l) ==
  /\ wants[g] = None
  /\ owner[l] = g
  /\ owner' = [owner EXCEPT ![l] = None]
  /\ UNCHANGED wants

Init ==
  /\ owner = [l \in Locks |-> None]
  /\ wants = [g \in Goroutines |-> None]

Next == \E g \in Goroutines, l \in Locks : Ask(g, l) \/ Acquire(g, l) \/ Release(g, l)

Spec == Init /\ [][Next]_lockVars

(* A goroutine that waits gets the lock sooner or later when it keeps      *)
(* becoming free (sync.Mutex hands it to one that has waited for a         *)
(* millisecond), no critical section blocks for another reason, and none   *)
(* loops for ever: it leaves its outermost lock too.                       *)
GoesOn(g) == \E l \in Locks : Acquire(g, l) \/ Release(g, l)

Finishes(g) == \E l \in Locks : Release(g, l) /\ Holds(g) = {l}

FairSpec ==
  Spec /\ \A g \in Goroutines : SF_lockVars(GoesOn(g)) /\ SF_lockVars(Finishes(g))

---------------------------------------------------------------------------
(* Properties                                                              *)

TypeOK ==
  /\ owner \in [Locks -> Goroutines \cup {None}]
  /\ wants \in [Goroutines -> Locks \cup {None}]

(* Goroutines that all wait for one another.                               *)
Deadlocked(G) ==
  G # {} /\ \A g \in G : wants[g] # None /\ owner[wants[g]] \in G

(* health.go:474: "call it BEFORE c.mu to keep lock ordering consistent    *)
(* with Reload".  No set of goroutines of the daemon is ever deadlocked.   *)
NoDeadlock == \A G \in SUBSET Goroutines : ~ Deadlocked(G)

(* Every goroutine gets the lock it waits for: no alert, probe, reload or  *)
(* readiness answer hangs.                                                 *)
EveryoneServed == \A g \in Goroutines : wants[g] # None ~> wants[g] = None

(* Locks are asked for in the order supervisor, chain, engine.             *)
Rank(l) == IF l = Supervisor THEN 0 ELSE IF l = Engine THEN 2 ELSE 1

Ordered ==
  \A g \in Goroutines, l \in Locks :
    wants[g] # None /\ owner[l] = g => Rank(l) < Rank(wants[g])
=============================================================================
