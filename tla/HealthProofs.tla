----------------------------- MODULE HealthProofs -----------------------------
(***************************************************************************)
(* A stall is seen, never a guess, for any number of nodes, any thresholds *)
(* and any number of restarts.  The inductive invariant relates three ages *)
(* (`StallClock`): while an endpoint works, the age on which watchLoop     *)
(* judges a stall is not above the age of the last blind moment.  It holds *)
(* because each of the two loops that end an outage also sets backAt.      *)
(* And what StallScope says of the key of an open stall, for any number of *)
(* reloads, restarts and keys.                                             *)
(***************************************************************************)
EXTENDS ChainHealth, StallScope, TLAPS

StallClock ==
  /\ noNodes => blind = 0
  /\ ~ noNodes /\ lastBlock # Never => StallAge <= blind

(* Ages stay ages, and grow in step.                                       *)
LEMMA OlderIsAge ==
  ASSUME NEW t \in Times
  PROVE  /\ Older(t) \in Times
         /\ t \in Ages => Older(t) \in Ages
         /\ Older(t) = Never <=> t = Never
         /\ Since(t) \in Ages
         /\ Since(Older(t)) = IF Since(t) = Old THEN Old ELSE Since(t) + 1
<1> USE AgesAssumption
<1>1. Old \in Ages /\ Never \notin Ages
  BY DEF Ages
<1>2. CASE t = Never
  BY <1>1, <1>2 DEF Older, Since, Times
<1>3. CASE t = Old
  BY <1>1, <1>3 DEF Older, Since, Times
<1>4. CASE t # Never /\ t # Old
  <2>1. t \in Ages /\ t + 1 \in Ages
    BY <1>4 DEF Times, Ages
  <2>2. Older(t) = t + 1 /\ Since(t) = t
    BY <1>4 DEF Older, Since
  <2>3. t + 1 # Never
    BY <1>1, <2>1
  <2> QED
    BY <1>1, <1>4, <2>1, <2>2, <2>3 DEF Since, Times
<1> QED
  BY <1>2, <1>3, <1>4

LEMMA ZeroIsYoungest ==
  /\ 0 \in Ages /\ 0 \in Times /\ Never \in Times /\ Since(0) = 0
  /\ \A a \in Ages : (IF a < 0 THEN a ELSE 0) = 0 /\ (IF 0 < a THEN 0 ELSE a) = 0
<1> USE AgesAssumption
<1>1. 0 \in Ages /\ 0 # Never
  BY DEF Ages
<1>2. 0 \in Times /\ Never \in Times /\ Since(0) = 0
  BY <1>1 DEF Times, Since
<1>3. \A a \in Ages : (IF a < 0 THEN a ELSE 0) = 0 /\ (IF 0 < a THEN 0 ELSE a) = 0
  BY DEF Ages
<1> QED
  BY <1>1, <1>2, <1>3

(* Every variable keeps its type.                                          *)
THEOREM ChainTyped == Spec => []TypeOK
<1> USE AgesAssumption, ChainAssumption
<1>1. Init => TypeOK
  <2>1. 0 \in 0 .. MaxRestarts
    OBVIOUS
  <2> QED
    BY <2>1, ZeroIsYoungest DEF Init, TypeOK, RunSteps
<1>2. TypeOK /\ [Next]_chainVars => TypeOK'
  <2> SUFFICES ASSUME TypeOK, [Next]_chainVars PROVE TypeOK'
    OBVIOUS
  <2>1. CASE PickStart \/ (\E n \in Nodes : PickNode(n)) \/ PickLast \/ Dial \/ SessionEnds
    BY <2>1 DEF TypeOK, PickStart, PickNode, PickLast, Dial, SessionEnds, RunSteps,
                worldVars, loopVars, clockVars, alarmVars
  <2>2. CASE Found \/ Failed
    BY <2>2, ZeroIsYoungest DEF TypeOK, Found, Failed, SetNoNodes, RunSteps, worldVars, alarmVars
  <2>3. CASE NewBlock
    BY <2>3, ZeroIsYoungest DEF TypeOK, NewBlock, worldVars, loopVars, clockVars, alarmVars
  <2>4. CASE ProbeStep
    <3>1. CASE ProbeStart \/ (\E n \in Nodes : ProbeNode(n))
      BY <3>1 DEF TypeOK, ProbeStart, ProbeNode, worldVars, clockVars, alarmVars
    <3>2. CASE Tally
      BY <3>2, ZeroIsYoungest DEF TypeOK, Tally, AnyUp, worldVars, alarmVars
    <3> QED
      BY <2>4, <3>1, <3>2 DEF ProbeStep
  <2>5. CASE Watch
    BY <2>5 DEF TypeOK, Watch, Raised, Resolved, worldVars, loopVars, clockVars
  <2>6. CASE Restart
    <3>1. restarts' \in 0 .. MaxRestarts
      BY <2>6 DEF TypeOK, Restart
    <3> QED
      BY <2>6, <3>1, ZeroIsYoungest DEF TypeOK, Restart, RunSteps, worldVars
  <2>7. CASE Tick
    <3>1. blind' \in Ages /\ noNodesSince' \in Times /\ backAt' \in Times /\ lastBlock' \in Times
      BY <2>7, OlderIsAge DEF TypeOK, Tick, Times, Ages
    <3> QED
      BY <2>7, <3>1 DEF TypeOK, Tick, worldVars, loopVars, alarmVars
  <2>8. CASE Change
    BY <2>8 DEF TypeOK, Change, loopVars, clockVars, alarmVars
  <2>9. CASE UNCHANGED chainVars
    BY <2>9 DEF TypeOK, chainVars, worldVars, loopVars, clockVars, alarmVars
  <2> QED
    BY <2>1, <2>2, <2>3, <2>4, <2>5, <2>6, <2>7, <2>8, <2>9 DEF Next
<1> QED
  BY <1>1, <1>2, PTL DEF Spec

(* A step that leaves the clocks alone keeps them in relation.             *)
LEMMA ClocksUntouched ==
  ASSUME StallClock, UNCHANGED clockVars, UNCHANGED lastBlock
  PROVE  StallClock'
  BY DEF StallClock, StallAge, Since, clockVars

(* No step of any loop breaks the relation of the clocks.                  *)
LEMMA StallClockKept ==
  ASSUME TypeOK, StallClock, [Next]_chainVars
  PROVE  StallClock'
<1> USE AgesAssumption, ChainAssumption
<1>0. StallAge \in Ages /\ blind \in Ages /\ Since(backAt) \in Ages /\ Since(lastBlock) \in Ages
  BY OlderIsAge DEF TypeOK, StallAge
<1>1. CASE PickStart \/ (\E n \in Nodes : PickNode(n)) \/ PickLast \/ Dial \/ SessionEnds
           \/ ProbeStart \/ (\E n \in Nodes : ProbeNode(n)) \/ Watch \/ Change
           \/ UNCHANGED chainVars
  <2>1. UNCHANGED clockVars /\ UNCHANGED lastBlock
    BY <1>1 DEF PickStart, PickNode, PickLast, Dial, SessionEnds, ProbeStart, ProbeNode,
                Watch, Change, chainVars
  <2> QED
    BY <2>1, ClocksUntouched
<1>2. CASE Found
  <2>1. CASE noNodes
    <3>1. StallAge' = 0
      <4>1. Since(backAt)' = Since(0) /\ Since(lastBlock)' = Since(lastBlock)
        BY <1>2, <2>1 DEF Found, SetNoNodes, Since
      <4> QED
        BY <1>0, <4>1, ZeroIsYoungest DEF StallAge
    <3> QED
      BY <1>0, <1>2, <2>1, <3>1 DEF Found, SetNoNodes, StallClock, Ages
  <2>2. CASE ~ noNodes
    BY <1>2, <2>2 DEF Found, SetNoNodes, StallClock, StallAge, Since
  <2> QED
    BY <2>1, <2>2
<1>3. CASE Failed
  BY <1>3 DEF Failed, SetNoNodes, StallClock
<1>4. CASE NewBlock
  <2>1. StallAge' = 0
    <3>1. Since(backAt)' = Since(backAt) /\ Since(lastBlock)' = Since(0)
      BY <1>4 DEF NewBlock, clockVars, Since
    <3> QED
      BY <1>0, <3>1, ZeroIsYoungest DEF StallAge
  <2> QED
    BY <1>0, <1>4, <2>1 DEF NewBlock, clockVars, StallClock, Ages
<1>5. CASE Tally
  <2>1. CASE ~ AnyUp
    BY <1>5, <2>1 DEF Tally, StallClock
  <2>2. CASE AnyUp /\ noNodes
    <3>1. StallAge' = 0
      <4>1. Since(backAt)' = Since(0) /\ Since(lastBlock)' = Since(lastBlock)
        BY <1>5, <2>2 DEF Tally, BackNow, Since
      <4> QED
        BY <1>0, <4>1, ZeroIsYoungest DEF StallAge
    <3> QED
      BY <1>0, <1>5, <2>2, <3>1 DEF Tally, StallClock, Ages
  <2>3. CASE AnyUp /\ ~ noNodes
    BY <1>5, <2>3 DEF Tally, BackNow, StallClock, StallAge, Since
  <2> QED
    BY <2>1, <2>2, <2>3
<1>6. CASE Restart
  BY <1>6 DEF Restart, StallClock
<1>7. CASE Tick
  <2>1. noNodes' => blind' = 0
    BY <1>7 DEF Tick
  <2>2. ASSUME ~ noNodes', lastBlock' # Never
        PROVE  StallAge' <= blind'
    <3>1. ~ noNodes /\ lastBlock # Never /\ StallAge <= blind
      BY <1>7, <2>2, OlderIsAge DEF Tick, TypeOK, StallClock
    <3>2. /\ Since(backAt)' = IF Since(backAt) = Old THEN Old ELSE Since(backAt) + 1
          /\ Since(lastBlock)' = IF Since(lastBlock) = Old THEN Old ELSE Since(lastBlock) + 1
      <4>1. Since(backAt)' = Since(Older(backAt)) /\ Since(lastBlock)' = Since(Older(lastBlock))
        BY <1>7 DEF Tick, Since
      <4> QED
        BY <4>1, OlderIsAge DEF TypeOK
    <3>3. blind' = IF blind = Old THEN Old ELSE blind + 1
      BY <1>0, <1>7, <3>1 DEF Tick, Older, Ages
    <3> QED
      BY <1>0, <3>1, <3>2, <3>3 DEF StallAge, Ages
  <2> QED
    BY <2>1, <2>2 DEF StallClock
<1> QED
  BY <1>1, <1>2, <1>3, <1>4, <1>5, <1>6, <1>7 DEF Next, ProbeStep

(* CHANGELOG.md:42 and :71: a stall is paged only when an endpoint has     *)
(* worked for more than stalled_minutes, whichever of Run and healthLoop   *)
(* ended the last outage.                                                  *)
THEOREM StallsAreSeen == Spec => StallIsSeen
<1> DEFINE Inv == TypeOK /\ StallClock
<1>1. Init => StallClock
  BY DEF Init, StallClock
<1>2. Inv /\ [Next]_chainVars => StallClock'
  BY StallClockKept
<1>3. Inv /\ [Next]_chainVars =>
        [PagesStalled => ~ noNodes /\ blind > StalledMinutes]_chainVars
  <2> SUFFICES ASSUME Inv, Next, PagesStalled
               PROVE  ~ noNodes /\ blind > StalledMinutes
    BY DEF PagesStalled, chainVars, alarmVars
  <2>1. Watch
    BY DEF Next, PagesStalled, ProbeStep, PickStart, PickNode, PickLast, Found, Failed, Dial,
           NewBlock, SessionEnds, ProbeStart, ProbeNode, Tally, Restart, Tick, Change, alarmVars
  <2>2. "stalled" \in Raised
    BY <2>1 DEF Watch, PagesStalled
  <2>3. IsStalled /\ ~ noNodes
    BY <2>2 DEF Raised
  <2>4. StallAge \in Ages /\ blind \in Ages
    BY OlderIsAge DEF TypeOK, StallAge
  <2> QED
    BY <2>3, <2>4, ChainAssumption, AgesAssumption DEF IsStalled, StallClock, Ages
<1> QED
  BY <1>1, <1>2, <1>3, ChainTyped, PTL DEF Spec, StallIsSeen

---------------------------------------------------------------------------
(* Under which key a stall is paged, for any keys and any number of        *)
(* reloads and restarts.                                                   *)

(* Every variable keeps its type.                                          *)
LEMMA ScopeTypeIsInductive ==
  ASSUME ScopeTypeOK, [ScopeNext]_scopeVars
  PROVE  ScopeTypeOK'
<1> USE ScopeAssumption
<1>1. WatchedKey \in Scopes
  BY DEF ScopeTypeOK, WatchedKey
<1>2. CASE WatchStall
  BY <1>1, <1>2 DEF WatchStall, RaiseStall, ResolveStall, ScopeTypeOK
<1>3. CASE ReloadScope
  <2>1. reloads' \in 0 .. MaxReloads
    BY <1>3 DEF ReloadScope, ScopeTypeOK
  <2>2. moved' \in BOOLEAN
    BY <1>3 DEF ReloadScope, ScopeTypeOK
  <2> QED
    BY <1>3, <2>1, <2>2 DEF ReloadScope, ScopeTypeOK
<1>4. CASE RestartScope
  <2>1. boots' \in 0 .. MaxBoots
    BY <1>4 DEF RestartScope, ScopeTypeOK
  <2>2. moved' \in BOOLEAN
    BY <1>4 DEF RestartScope, ScopeTypeOK
  <2> QED
    BY <1>4, <2>1, <2>2 DEF RestartScope, ScopeTypeOK, Sights
<1>5. CASE ChangeSight
  BY <1>5 DEF ChangeSight, ScopeTypeOK, Sights
<1>6. CASE UNCHANGED scopeVars
  BY <1>6 DEF scopeVars, ScopeTypeOK
<1> QED
  BY <1>2, <1>3, <1>4, <1>5, <1>6 DEF ScopeNext

(* Every variable of StallScope keeps its type.                            *)
THEOREM ScopeTyped == ScopeSpec => []ScopeTypeOK
<1>1. ScopeInit => ScopeTypeOK
  <2>1. 0 \in 0 .. MaxReloads /\ 0 \in 0 .. MaxBoots
    BY ScopeAssumption
  <2>2. "unseen" \in Sights
    BY DEF Sights
  <2> QED
    BY <2>1, <2>2, Zenon DEF ScopeInit, ScopeTypeOK
<1>2. ScopeTypeOK /\ [ScopeNext]_scopeVars => ScopeTypeOK'
  BY ScopeTypeIsInductive
<1> QED
  BY <1>1, <1>2, PTL DEF ScopeSpec

(* health.go:490: an open stall alert is the one watchLoop would resolve,  *)
(* whichever nodes the reloads since the page have left.                   *)
THEOREM StallsAreWatched == ScopeSpec => []StallIsWatched
<1>1. ScopeInit => StallIsWatched
  BY DEF ScopeInit, StallIsWatched
<1>2. ScopeTypeOK /\ StallIsWatched /\ [ScopeNext]_scopeVars => StallIsWatched'
  <2> SUFFICES ASSUME ScopeTypeOK, StallIsWatched, [ScopeNext]_scopeVars, ~ moved'
               PROVE  stallOpen' \subseteq {WatchedKey'}
    BY DEF StallIsWatched
  <2>1. CASE WatchStall
    <3>1. ~ moved /\ stallOpen \subseteq {WatchedKey}
      BY <2>1 DEF WatchStall, StallIsWatched
    <3>2. CASE RaiseStall
      <4>1. WatchedKey' = WatchedKey
        BY <2>1, <3>2 DEF WatchStall, RaiseStall, WatchedKey
      <4> QED
        BY <3>1, <3>2, <4>1 DEF RaiseStall
    <3>3. CASE ResolveStall
      BY <3>1, <3>3 DEF ResolveStall
    <3> QED
      BY <2>1, <3>2, <3>3 DEF WatchStall
  <2>2. CASE ReloadScope
    <3>1. ~ moved /\ stallOpen \subseteq {WatchedKey}
      BY <2>2 DEF ReloadScope, StallIsWatched
    <3>2. stallOpen = {} \/ WatchedKey' = WatchedKey
      BY <2>2 DEF ReloadScope, WatchedKey
    <3> QED
      BY <2>2, <3>1, <3>2 DEF ReloadScope
  <2>3. CASE RestartScope
    <3>1. ~ moved /\ stallOpen \subseteq {WatchedKey}
      BY <2>3 DEF RestartScope, StallIsWatched
    <3>2. stallOpen = {} \/ WatchedKey' = WatchedKey
      <4>1. WatchedKey' = scope'
        BY <2>3 DEF RestartScope, WatchedKey
      <4> QED
        BY <2>3, <4>1 DEF RestartScope
    <3> QED
      BY <2>3, <3>1, <3>2 DEF RestartScope
  <2>4. CASE ChangeSight \/ UNCHANGED scopeVars
    BY <2>4 DEF ChangeSight, scopeVars, StallIsWatched, WatchedKey
  <2> QED
    BY <2>1, <2>2, <2>3, <2>4 DEF ScopeNext
<1> QED
  BY <1>1, <1>2, ScopeTyped, PTL DEF ScopeSpec
=============================================================================
