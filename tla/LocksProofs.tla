----------------------------- MODULE LocksProofs -----------------------------
(***************************************************************************)
(* Deadlock freedom of the daemon's mutexes for any number of chains and   *)
(* goroutines, as long as reminders are off.  The argument is the classical *)
(* one: without the reminder goroutine every lock is asked for in the      *)
(* order supervisor, chain, engine (`Ordered`, inductive together with the *)
(* type invariant), so along a chain of waiting goroutines the rank of the *)
(* awaited lock grows, and there are only three ranks.                     *)
(***************************************************************************)
EXTENDS Locks, TLAPS

(* The holder of a lock is a goroutine, and waits are for locks.           *)
THEOREM LocksTyped == Spec => []TypeOK
<1>1. Init => TypeOK
  BY DEF Init, TypeOK
<1>2. TypeOK /\ [Next]_lockVars => TypeOK'
  BY DEF TypeOK, Next, Ask, Acquire, Release, lockVars
<1> QED
  BY <1>1, <1>2, PTL DEF Spec

(* What a goroutine holds when it asks ranks below what it asks for.       *)
LEMMA AsksUpwards ==
  ASSUME Reminders = {}, NEW g \in Goroutines, NEW l \in Locks, MayAsk(g, l),
         NEW h \in Holds(g)
  PROVE  Rank(h) < Rank(l)
<1>1. Supervisor # Engine /\ Supervisor \notin Chains /\ Engine \notin Chains
  BY LocksAssumption
<1>2. Holds(g) # {}
  OBVIOUS
<1>3. CASE g \in Watchers /\ WatcherAsks(g, l)
  <2>1. Holds(g) = {ChainOf[g]} /\ l = Engine
    BY <1>2, <1>3 DEF WatcherAsks
  <2>2. h \in Chains
    BY <1>3, <2>1, LocksAssumption
  <2> QED
    BY <1>1, <2>1, <2>2 DEF Rank
<1>4. CASE g \in Admins /\ AdminAsks(g, l)
  <2>1. Holds(g) = {Supervisor} /\ l \in Chains
    BY <1>2, <1>4 DEF AdminAsks
  <2> QED
    BY <1>1, <2>1 DEF Rank
<1>5. ~ SenderAsks(g, l)
  BY <1>2 DEF SenderAsks
<1> QED
  BY <1>3, <1>4, <1>5 DEF MayAsk

(* Locks are asked for in one order by every goroutine but the reminders'. *)
LEMMA StepOrdered ==
  ASSUME Reminders = {}, TypeOK, Ordered, [Next]_lockVars
  PROVE  Ordered'
<1> SUFFICES ASSUME NEW g \in Goroutines, NEW l \in Locks,
                    wants'[g] # None, owner'[l] = g
             PROVE  Rank(l) < Rank(wants'[g])
  BY DEF Ordered, Rank
<1>1. ASSUME NEW a \in Goroutines, NEW m \in Locks, Ask(a, m)
      PROVE  Rank(l) < Rank(wants'[g])
  <2>1. owner[l] = g
    BY <1>1 DEF Ask
  <2>2. CASE g = a
    <3>1. wants'[g] = m /\ MayAsk(g, m)
      BY <1>1, <2>2 DEF Ask, TypeOK
    <3>2. l \in Holds(g)
      BY <2>1 DEF Holds
    <3> QED
      BY <3>1, <3>2, AsksUpwards
  <2>3. CASE g # a
    BY <1>1, <2>1, <2>3 DEF Ask, TypeOK, Ordered
  <2> QED
    BY <2>2, <2>3
<1>2. ASSUME NEW a \in Goroutines, NEW m \in Locks, Acquire(a, m)
      PROVE  Rank(l) < Rank(wants'[g])
  <2>1. g # a
    BY <1>2 DEF Acquire, TypeOK
  <2>2. wants'[g] = wants[g] /\ owner[l] = g
    BY <1>2, <2>1 DEF Acquire, TypeOK
  <2> QED
    BY <2>2 DEF Ordered
<1>3. ASSUME NEW a \in Goroutines, NEW m \in Locks, Release(a, m)
      PROVE  Rank(l) < Rank(wants'[g])
  <2>1. wants' = wants
    BY <1>3 DEF Release
  <2>2. owner[l] = g
    BY <1>3, LocksAssumption DEF Release, TypeOK
  <2> QED
    BY <2>1, <2>2 DEF Ordered
<1>4. CASE UNCHANGED lockVars
  BY <1>4 DEF lockVars, Ordered
<1> QED
  BY <1>1, <1>2, <1>3, <1>4 DEF Next

(* Every goroutine, reminders apart, asks for locks in the order           *)
(* supervisor, chain, engine that the comment at health.go:474 prescribes. *)
THEOREM LocksAreOrdered == ASSUME Reminders = {} PROVE Spec => []Ordered
<1>1. Init => Ordered
  BY DEF Init, Ordered
<1>2. TypeOK /\ Ordered /\ [Next]_lockVars => Ordered'
  BY StepOrdered
<1> QED
  BY <1>1, <1>2, LocksTyped, PTL DEF Spec

(* Whoever waits for a lock that is held waits below its holder.           *)
LEMMA WaitsBelow ==
  ASSUME TypeOK, Ordered, NEW G \in SUBSET Goroutines, Deadlocked(G), NEW g \in G
  PROVE  /\ owner[wants[g]] \in G
         /\ Rank(wants[g]) \in 0 .. 2
         /\ Rank(wants[g]) < Rank(wants[owner[wants[g]]])
<1>1. wants[g] # None /\ owner[wants[g]] \in G
  BY DEF Deadlocked
<1>2. wants[g] \in Locks
  BY <1>1 DEF TypeOK
<1>3. wants[owner[wants[g]]] # None
  BY <1>1 DEF Deadlocked
<1> QED
  BY <1>1, <1>2, <1>3 DEF Ordered, Rank

(* No set of goroutines of a daemon without reminders is ever deadlocked,  *)
(* for any number of chains, watchers, senders and administrators.         *)
THEOREM NoDeadlockWithoutReminders == ASSUME Reminders = {} PROVE Spec => []NoDeadlock
<1>1. TypeOK /\ Ordered => NoDeadlock
  <2> SUFFICES ASSUME TypeOK, Ordered, NEW G \in SUBSET Goroutines, Deadlocked(G)
               PROVE  FALSE
    BY DEF NoDeadlock
  <2> DEFINE Next1(g) == owner[wants[g]]
             R(g) == Rank(wants[g])
  <2>1. \A g \in G : Next1(g) \in G /\ R(g) \in 0 .. 2 /\ R(g) < R(Next1(g))
    BY WaitsBelow
  <2>2. PICK g \in G : TRUE
    BY DEF Deadlocked
  <2> HIDE DEF Next1, R
  <2>3. R(g) < R(Next1(g)) /\ R(Next1(g)) < R(Next1(Next1(g)))
        /\ R(Next1(Next1(g))) < R(Next1(Next1(Next1(g))))
    BY <2>1
  <2>4. R(g) \in 0 .. 2 /\ R(Next1(g)) \in 0 .. 2 /\ R(Next1(Next1(g))) \in 0 .. 2
        /\ R(Next1(Next1(Next1(g)))) \in 0 .. 2
    BY <2>1
  <2> QED
    BY <2>3, <2>4
<1> QED
  BY <1>1, LocksTyped, LocksAreOrdered, PTL
=============================================================================
