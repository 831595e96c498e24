------------------------- MODULE AlertEngineProofs -------------------------
(***************************************************************************)
(* Proofs about AlertEngine, for any keys, channels, goroutines, silences  *)
(* and bounds.                                                             *)
(***************************************************************************)
EXTENDS AlertEngine, TLAPS

LEMMA IdleTyped == Idle \in Routines
  BY EngineAssumption DEF Idle, Routines, Steps

LEMMA ThenTyped == ASSUME NEW r \in Routines PROVE Then(r) \in Routines
  BY IdleTyped DEF Then, Routines, Steps

LEMMA AddTyped ==
  ASSUME NEW bag \in [Messages -> Nat], NEW S
  PROVE  Add(bag, S) \in [Messages -> Nat]
  BY DEF Add

LEMMA NewMessageTyped ==
  ASSUME NEW d \in Dests, NEW k \in Keys, NEW w \in Whats, NEW c \in Contexts
  PROVE  NewMessage(d, k, w, c) \in Messages
  BY DEF NewMessage, Messages

LEMMA RetriedTyped == ASSUME NEW m \in Messages PROVE Retried(m) \in Messages
  BY DEF Retried, Messages

LEMMA NowIsAStamp == ASSUME now \in Times PROVE now \in Stamps /\ now # Never
  BY EngineAssumption DEF Stamps, Times

(***************************************************************************)
(* Type correctness.                                                       *)
(***************************************************************************)
LEMMA InitTyped == Init => TypeOK
<1> SUFFICES ASSUME Init PROVE TypeOK
  OBVIOUS
<1>1. now \in Times /\ active \subseteq Keys /\ held \subseteq Keys /\ routes \in [Keys -> SUBSET Dests]
  BY EngineAssumption DEF Init, Times
<1>2. silences \in [Silences -> SilenceRecords]
  BY EngineAssumption DEF Init, NoSilence, SilenceRecords, Times
<1>3. sent \in [Dests -> [Keys -> Stamps]] /\ flapped \in [Dests -> [Keys -> Stamps]]
  BY DEF Init, Stamps
<1>4. go \in [Threads -> Routines]
  BY IdleTyped DEF Init
<1>5. wire \in [Messages -> Nat]
  BY DEF Init, NoMessages
<1> QED
  BY <1>1, <1>2, <1>3, <1>4, <1>5 DEF TypeOK

LEMMA FanTyped ==
  ASSUME TypeOK, NEW t \in Threads, NEW d \in Dests, Fan(t, d)
  PROVE  TypeOK'
<1> DEFINE k == go[t].key
<1>1. go[t] \in Routines /\ k \in Keys
  BY DEF TypeOK, Routines
<1>2. go' \in [Threads -> Routines]
  <2>1. [go[t] EXCEPT !.todo = @ \ {d}] \in Routines
    BY <1>1 DEF Routines
  <2> QED
    BY <2>1 DEF Fan, TypeOK
<1>3. CASE SendRaise(t, d)
  <2>1. sent' \in [Dests -> [Keys -> Stamps]]
    BY <1>1, <1>3, NowIsAStamp DEF SendRaise, TypeOK
  <2>2. wire' \in [Messages -> Nat]
    BY <1>3, AddTyped DEF SendRaise, Fire, TypeOK
  <2> QED
    BY <1>2, <1>3, <2>1, <2>2 DEF SendRaise, Fan, TypeOK
<1>4. CASE SendResolve(t, d)
  <2>1. /\ sent' \in [Dests -> [Keys -> Stamps]]
        /\ flapped' \in [Dests -> [Keys -> Stamps]]
    BY <1>1, <1>4, NowIsAStamp DEF SendResolve, TypeOK, Stamps
  <2>2. wire' \in [Messages -> Nat]
    BY <1>4, AddTyped DEF SendResolve, Fire, TypeOK
  <2> QED
    BY <1>2, <1>4, <2>1, <2>2 DEF SendResolve, Fan, TypeOK
<1>5. CASE Suppress(t, d)
  BY <1>2, <1>5 DEF Suppress, Fan, TypeOK
<1> QED
  BY <1>3, <1>4, <1>5 DEF Fan

LEMMA StepTyped ==
  ASSUME TypeOK, NEW t \in Threads, Step(t)
  PROVE  TypeOK'
<1>1. go[t] \in Routines
  BY DEF TypeOK
<1>2. CASE ReleaseHeld(t)
  <2>1. [go[t] EXCEPT !.due = Released \cap active] \in Routines
    BY <1>1 DEF TypeOK, Routines, Released
  <2>2. go' \in [Threads -> Routines]
    BY <1>2, <2>1, ThenTyped DEF ReleaseHeld, TypeOK
  <2> QED
    BY <1>2, <2>2 DEF ReleaseHeld, TypeOK
<1>3. ASSUME NEW k \in Keys, NextHeld(t, k) PROVE TypeOK'
  <2>1. [go[t] EXCEPT !.at = "resolve", !.key = k, !.resolved = FALSE, !.due = @ \ {k}] \in Routines
    BY <1>1 DEF Routines, Steps
  <2> QED
    BY <1>3, <2>1 DEF NextHeld, TypeOK
<1>4. CASE Resolve(t)
  <2>1. [go[t] EXCEPT !.at = "book", !.todo = routes[go[t].key]] \in Routines
    BY <1>1 DEF TypeOK, Routines, Steps
  <2> QED
    BY <1>4, <2>1 DEF Resolve, TypeOK
<1>5. CASE Book(t)
  <2>1. [go[t] EXCEPT !.at = "fan"] \in Routines /\ Then(go[t]) \in Routines /\ go[t].key \in Keys
    BY <1>1, ThenTyped DEF Routines, Steps
  <2>2. go' \in [Threads -> Routines]
    BY <1>5, <2>1 DEF Book, TypeOK
  <2> QED
    BY <1>5, <2>1, <2>2 DEF Book, TypeOK
<1>6. ASSUME NEW d \in Dests, Fan(t, d) PROVE TypeOK'
  BY <1>6, FanTyped
<1>7. CASE Return(t)
  BY <1>1, <1>7, ThenTyped DEF Return, TypeOK
<1> QED
  BY <1>2, <1>3, <1>4, <1>5, <1>6, <1>7 DEF Step

LEMMA DeliverTyped ==
  ASSUME TypeOK, NEW m \in Messages, Deliver(m)
  PROVE  TypeOK'
<1>1. wire' \in [Messages -> Nat]
  <2>1. wire \in [Messages -> Nat] /\ wire[m] > 0 /\ Retried(m) \in Messages
    BY RetriedTyped DEF Deliver, TypeOK
  <2>2. CASE Delivered(m) \/ GiveUp(m)
    BY <2>1, <2>2 DEF Delivered, GiveUp
  <2>3. CASE Retry(m)
    BY <2>1, <2>3 DEF Retry
  <2> QED
    BY <2>2, <2>3 DEF Deliver
<1> QED
  BY <1>1 DEF Deliver, TypeOK

LEMMA NextTyped == TypeOK /\ [Next]_vars => TypeOK'
<1> SUFFICES ASSUME TypeOK, [Next]_vars PROVE TypeOK'
  OBVIOUS
<1>1. ASSUME NEW t \in Threads, Step(t) PROVE TypeOK'
  BY <1>1, StepTyped
<1>2. ASSUME NEW t \in Monitors, NEW k \in Keys, NEW r \in BOOLEAN, Submit(t, k, r) PROVE TypeOK'
  <2>1. t \in Threads /\ go[t] \in Routines
    BY DEF Threads, TypeOK
  <2>2. [go[t] EXCEPT !.at = "resolve", !.key = k, !.resolved = r] \in Routines
    BY <2>1 DEF Routines, Steps
  <2> QED
    BY <1>2, <2>1, <2>2 DEF Submit, TypeOK
<1>3. ASSUME NEW s \in Silences, NEW w \in Windows, AddSilence(s, w) PROVE TypeOK'
  <2>1. silences' \in [Silences -> SilenceRecords]
    BY <1>3 DEF AddSilence, TypeOK, Windows, SilenceRecords
  <2> QED
    BY <1>3, <2>1 DEF AddSilence, TypeOK
<1>4. ASSUME NEW t \in Apis, NEW s \in Silences, ExpireSilence(t, s) PROVE TypeOK'
  <2>1. t \in Threads /\ [go[t] EXCEPT !.at = "release"] \in Routines
    BY DEF Threads, TypeOK, Routines, Steps
  <2>2. silences' \in [Silences -> SilenceRecords]
    BY <1>4 DEF ExpireSilence, TypeOK, SilenceRecords
  <2> QED
    BY <1>4, <2>1, <2>2 DEF ExpireSilence, TypeOK
<1>5. CASE SilenceTick
  <2>1. Ticker \in Threads /\ [go[Ticker] EXCEPT !.at = "release"] \in Routines
    BY DEF Threads, TypeOK, Routines, Steps
  <2>2. NoSilence \in SilenceRecords
    BY EngineAssumption DEF NoSilence, SilenceRecords, Times
  <2>3. silences' \in [Silences -> SilenceRecords]
    BY <1>5, <2>2 DEF SilenceTick, Kept, TypeOK
  <2> QED
    BY <1>5, <2>1, <2>3 DEF SilenceTick, Kept, TypeOK
<1>6. CASE Remind
  <2>1. sent' \in [Dests -> [Keys -> Stamps]]
    BY <1>6, NowIsAStamp DEF Remind, TypeOK
  <2>2. wire' \in [Messages -> Nat]
    BY <1>6, AddTyped DEF Remind, Fire, TypeOK
  <2> QED
    BY <1>6, <2>1, <2>2 DEF Remind, TypeOK
<1>7. ASSUME NEW m \in Messages, Deliver(m) PROVE TypeOK'
  BY <1>7, DeliverTyped
<1>8. ASSUME NEW k \in Keys, NEW ds \in SUBSET Dests, Reroute(k, ds) PROVE TypeOK'
  BY <1>8 DEF Reroute, TypeOK
<1>9. CASE Tick
  BY <1>9, EngineAssumption DEF Tick, TypeOK, Times
<1>10. CASE UNCHANGED vars
  BY <1>10 DEF vars, TypeOK
<1> QED
  BY <1>1, <1>2, <1>3, <1>4, <1>5, <1>6, <1>7, <1>8, <1>9, <1>10 DEF Next

(* Every state the engine reaches is well typed: in particular the number  *)
(* of delivery goroutines of a message never falls below zero.             *)
THEOREM EngineTyped == Spec => []TypeOK
<1> QED
  BY InitTyped, NextTyped, PTL DEF Spec

(***************************************************************************)
(* Held raises are open.                                                   *)
(***************************************************************************)
LEMMA HeldIsOpenInductive == HeldIsOpen /\ [Next]_vars => HeldIsOpen'
<1> SUFFICES ASSUME HeldIsOpen, [Next]_vars PROVE HeldIsOpen'
  OBVIOUS
<1> USE DEF HeldIsOpen
<1>1. ASSUME NEW t \in Threads, Step(t) PROVE HeldIsOpen'
  <2>1. CASE ReleaseHeld(t)
    BY <2>1 DEF ReleaseHeld
  <2>2. CASE Book(t)
    BY <2>2 DEF Book
  <2>3. ASSUME NEW d \in Dests, Fan(t, d) PROVE HeldIsOpen'
    BY <2>3 DEF Fan
  <2>4. ASSUME NEW k \in Keys, NextHeld(t, k) PROVE HeldIsOpen'
    BY <2>4 DEF NextHeld
  <2>5. CASE Resolve(t) \/ Return(t)
    BY <2>5 DEF Resolve, Return
  <2> QED
    BY <1>1, <2>1, <2>2, <2>3, <2>4, <2>5 DEF Step
<1>2. ASSUME NEW t, NEW k, NEW r, Submit(t, k, r) PROVE HeldIsOpen'
  BY <1>2 DEF Submit
<1>3. ASSUME NEW s, NEW w, AddSilence(s, w) PROVE HeldIsOpen'
  BY <1>3 DEF AddSilence
<1>4. ASSUME NEW t, NEW s, ExpireSilence(t, s) PROVE HeldIsOpen'
  BY <1>4 DEF ExpireSilence
<1>5. ASSUME NEW m, Deliver(m) PROVE HeldIsOpen'
  BY <1>5 DEF Deliver
<1>6. ASSUME NEW k, NEW ds, Reroute(k, ds) PROVE HeldIsOpen'
  BY <1>6 DEF Reroute
<1>7. CASE SilenceTick \/ Remind \/ Tick \/ UNCHANGED vars
  BY <1>7 DEF SilenceTick, Remind, Tick, vars
<1> QED
  BY <1>1, <1>2, <1>3, <1>4, <1>5, <1>6, <1>7 DEF Next

(* Whatever the silence ticker, the HTTP handlers and the monitors do      *)
(* between each other's critical sections, a resolve takes the held raise  *)
(* of its key with it: releaseHeld never finds one whose condition closed. *)
THEOREM HeldRaisesAreOpen == Spec => []HeldIsOpen
<1>1. Init => HeldIsOpen
  BY DEF Init, HeldIsOpen
<1> QED
  BY <1>1, HeldIsOpenInductive, PTL DEF Spec

(***************************************************************************)
(* The engine implements the ledger.                                       *)
(***************************************************************************)
OpenKeys == [d \in Dests |-> {k \in Keys : Open(d, k)}]

LEMMA SameSentSameOpen == ASSUME sent' = sent PROVE OpenKeys' = OpenKeys
  BY DEF OpenKeys, Open

LEMMA ContextTyped == ASSUME NEW t PROVE ContextOf(t) \in Contexts
  BY DEF ContextOf, Contexts

LEMMA FanIsALedgerStep ==
  ASSUME TypeOK, NEW t \in Threads, NEW d \in Dests, Fan(t, d)
  PROVE  Ledger!Next \/ (OpenKeys' = OpenKeys /\ wire' = wire)
<1> DEFINE k == go[t].key
           c == ContextOf(t)
<1>1. k \in Keys /\ c \in Contexts
  BY ContextTyped DEF TypeOK, Routines
<1>2. CASE SendRaise(t, d)
  <2>1. k \notin OpenKeys[d]
    BY <1>2 DEF SendRaise, OpenKeys
  <2>2. OpenKeys' = [OpenKeys EXCEPT ![d] = @ \cup {k}]
    BY <1>1, <1>2, NowIsAStamp DEF SendRaise, OpenKeys, Open, TypeOK
  <2>3. Ledger!Page(d, k, c)
    BY <1>2, <2>1, <2>2 DEF Ledger!Page, OpenKeys, SendRaise, Fire, Add, Ledger!Add, Messages, Ledger!Messages, NewMessage, Ledger!NewMessage, Whats, Ledger!Whats, Contexts, Ledger!Contexts
  <2> QED
    BY <1>1, <2>3 DEF Ledger!Next, Contexts, Ledger!Contexts
<1>3. CASE SendResolve(t, d)
  <2>1. k \in OpenKeys[d]
    BY <1>1, <1>3 DEF SendResolve, OpenKeys
  <2>2. OpenKeys' = [OpenKeys EXCEPT ![d] = @ \ {k}]
    BY <1>1, <1>3 DEF SendResolve, OpenKeys, Open, TypeOK
  <2>3. Ledger!Clear(d, k, c)
    BY <1>3, <2>1, <2>2 DEF Ledger!Clear, OpenKeys, SendResolve, Fire, Add, Ledger!Add, Messages, Ledger!Messages, NewMessage, Ledger!NewMessage, Whats, Ledger!Whats, Contexts, Ledger!Contexts
  <2> QED
    BY <1>1, <2>3 DEF Ledger!Next, Contexts, Ledger!Contexts
<1>4. CASE Suppress(t, d)
  BY <1>4, SameSentSameOpen DEF Suppress
<1> QED
  BY <1>2, <1>3, <1>4 DEF Fan

LEMMA RemindIsALedgerStep == ASSUME TypeOK, Remind PROVE Ledger!Remind
<1>1. OpenKeys' = OpenKeys
  BY NowIsAStamp DEF Remind, OpenKeys, Open, DueForReminder, TypeOK
<1>2. wire' = [m \in Messages |-> wire'[m]]
  BY DEF Remind, Fire, Add
<1>3. ASSUME NEW m \in Messages
      PROVE  wire'[m] = wire[m] \/ (Ledger!IsReminder(m) /\ wire'[m] = wire[m] + 1)
  <2>1. m.dest \in Dests /\ m.key \in Keys
    BY DEF Messages
  <2>2. CASE wire'[m] = wire[m]
    BY <2>2
  <2>3. CASE wire'[m] # wire[m]
    <3>1. /\ wire'[m] = wire[m] + 1
          /\ m.what = "remind" /\ m.tries = 0 /\ DueForReminder(m.dest, m.key)
      BY <2>3 DEF Remind, Fire, Add
    <3> QED
      BY <2>1, <3>1 DEF Ledger!IsReminder, DueForReminder
  <2> QED
    BY <2>2, <2>3
<1> QED
  BY <1>1, <1>2, <1>3 DEF Ledger!Remind, OpenKeys, Messages, Ledger!Messages, Whats, Ledger!Whats, Contexts, Ledger!Contexts

LEMMA DeliverIsALedgerStep ==
  ASSUME TypeOK, NEW m \in Messages, Deliver(m)
  PROVE  Ledger!Attempt(m)
<1>1. OpenKeys' = OpenKeys
  BY SameSentSameOpen DEF Deliver
<1>2. wire[m] > 0 /\ (Delivered(m) \/ Retry(m) \/ GiveUp(m))
  BY DEF Deliver
<1> QED
  BY <1>1, <1>2 DEF Ledger!Attempt, OpenKeys, Delivered, Retry, GiveUp, Retried, Ledger!Retried

LEMMA NextIsALedgerStep ==
  ASSUME TypeOK, [Next]_vars
  PROVE  Ledger!Next \/ (OpenKeys' = OpenKeys /\ wire' = wire)
<1>1. ASSUME NEW t \in Threads, Step(t)
      PROVE  Ledger!Next \/ (OpenKeys' = OpenKeys /\ wire' = wire)
  <2>1. ASSUME NEW d \in Dests, Fan(t, d)
        PROVE  Ledger!Next \/ (OpenKeys' = OpenKeys /\ wire' = wire)
    BY <2>1, FanIsALedgerStep
  <2>2. CASE ReleaseHeld(t) \/ (\E k \in Keys : NextHeld(t, k)) \/ Resolve(t) \/ Book(t) \/ Return(t)
    BY <2>2, SameSentSameOpen DEF ReleaseHeld, NextHeld, Resolve, Book, Return
  <2> QED
    BY <1>1, <2>1, <2>2 DEF Step
<1>2. CASE Remind
  BY <1>2, RemindIsALedgerStep DEF Ledger!Next
<1>3. ASSUME NEW m \in Messages, Deliver(m) PROVE Ledger!Next
  BY <1>3, DeliverIsALedgerStep
     DEF Ledger!Next, Messages, Ledger!Messages, Whats, Ledger!Whats, Contexts, Ledger!Contexts
<1>4. CASE \/ \E t \in Monitors, k \in Keys, r \in BOOLEAN : Submit(t, k, r)
           \/ \E s \in Silences, w \in Windows : AddSilence(s, w)
           \/ \E t \in Apis, s \in Silences : ExpireSilence(t, s)
           \/ SilenceTick
           \/ \E k \in Keys, ds \in SUBSET Dests : Reroute(k, ds)
           \/ Tick
           \/ UNCHANGED vars
  BY <1>4, SameSentSameOpen
     DEF Submit, AddSilence, ExpireSilence, SilenceTick, Reroute, Tick, vars
<1> QED
  BY <1>1, <1>2, <1>3, <1>4 DEF Next

(* For every channel and key the messages sent form a well-formed          *)
(* conversation, however Dispatch calls, reminders, silences and reloads   *)
(* interleave: the engine's steps are steps of the ledger.                 *)
THEOREM EngineImplementsLedger == Spec => ImplementsLedger
<1>1. Init => Ledger!Init
  BY DEF Init, Ledger!Init, Open, NoMessages, Ledger!NoMessages, Messages, Ledger!Messages,
         Whats, Ledger!Whats, Contexts, Ledger!Contexts
<1>2. TypeOK /\ [Next]_vars => [Ledger!Next]_(Ledger!ledgerVars)
  BY NextIsALedgerStep DEF Ledger!ledgerVars, OpenKeys
<1> QED
  BY <1>1, <1>2, EngineTyped, PTL DEF Spec, Ledger!Spec, ImplementsLedger
=============================================================================
