------------------------------ MODULE NodeProofs ------------------------------
(***************************************************************************)
(* One problem, one page: the two alerts about a node exclude each other.  *)
(* The property is inductive by itself, because one evaluation of          *)
(* watchLoop looks at `syncing` once for both alerts and clears, in the    *)
(* same step, the alert the record does not support.                       *)
(*                                                                         *)
(* An outage stays paged: only an answer other than "gone" can take back   *)
(* what a record says of a node, so while none is under way for the        *)
(* present record and the node gives none, every order of picks, probes,   *)
(* stale rounds and evaluations leaves the alert open.                     *)
(***************************************************************************)
EXTENDS NodeHealth, TLAPS

(* What asking and applying make of a record and of a round.               *)
LEMMA RecordsStayRecords ==
  ASSUME NEW r \in Records, NEW answer \in Conditions
  PROVE  /\ Probed(r, answer) \in Records /\ Picked(r, answer) \in Records
         /\ Aged(r) \in Records /\ Fresh \in Records
<1> USE AgesAssumption, NodeAssumption
<1>1. 0 \in Times /\ Never \in Times /\ \A t \in Times : Older(t) \in Times
  BY DEF Times, Ages, Older
<1>2. Fresh \in Records
  BY <1>1 DEF Fresh, Records
<1>3. MarkDown(r) \in Records /\ SeenSyncing(r) \in Records
  BY <1>1 DEF MarkDown, SeenSyncing, Records
<1>4. Probed(r, answer) \in Records
  BY <1>2, <1>3 DEF Probed, Conditions
<1>5. Picked(r, answer) \in Records
  BY <1>3 DEF Picked, Conditions, Records
<1>6. Aged(r) \in Records
  BY <1>1 DEF Aged, Records
<1> QED
  BY <1>2, <1>4, <1>5, <1>6

LEMMA RoundsStayRounds ==
  ASSUME NEW round \in Rounds, NEW n \in Nodes, NEW answer \in Conditions,
         real \in [Nodes -> Conditions]
  PROVE  /\ NoRound \in Rounds /\ NewRound \in Rounds
         /\ Hear(round, n) \in Rounds /\ Forget(round, n, answer) \in Rounds
         /\ [round EXCEPT !.stale = Busy(round)] \in Rounds
<1>1. NoRound \in Rounds /\ NewRound \in Rounds
  BY DEF NoRound, NewRound, Rounds
<1>2. Hear(round, n) \in Rounds
  <2>1. <<n, real[n]>> \in Nodes \X Conditions
    OBVIOUS
  <2>2. round.todo \ {n} \in SUBSET Nodes
        /\ round.heard \cup {<<n, real[n]>>} \in SUBSET (Nodes \X Conditions)
    BY <2>1 DEF Rounds
  <2>3. \A t \in SUBSET Nodes, h \in SUBSET (Nodes \X Conditions) :
          [round EXCEPT !.todo = t, !.heard = h] \in Rounds
    BY DEF Rounds
  <2> QED
    BY <2>2, <2>3 DEF Hear
<1>3. Forget(round, n, answer) \in Rounds
  BY <1>1 DEF Forget, Rounds
<1>4. [round EXCEPT !.stale = Busy(round)] \in Rounds
  <2>1. Busy(round) \in BOOLEAN
    BY DEF Busy
  <2> QED
    BY <2>1 DEF Rounds
<1> QED
  BY <1>1, <1>2, <1>3, <1>4

(* Every variable keeps its type.                                          *)
THEOREM NodesTyped == Spec => []TypeOK
<1> USE AgesAssumption, NodeAssumption
<1>1. Init => TypeOK
  <2>1. Fresh \in Records /\ NoRound \in Rounds /\ 0 \in 0 .. MaxRebuilds
    BY DEF Fresh, Records, Times, NoRound, Rounds
  <2> QED
    BY <2>1 DEF Init, TypeOK
<1>2. TypeOK /\ [Next]_nodeVars => TypeOK'
  <2> SUFFICES ASSUME TypeOK, [Next]_nodeVars PROVE TypeOK'
    OBVIOUS
  <2>1. CASE PickStart \/ ProbeStart \/ Restart \/ Reload
    <3>1. NoRound \in Rounds /\ NewRound \in Rounds /\ Fresh \in Records
      BY DEF NoRound, NewRound, Rounds, Fresh, Records, Times
    <3>2. [pick EXCEPT !.stale = Busy(pick)] \in Rounds
          /\ [probe EXCEPT !.stale = Busy(probe)] \in Rounds
      <4>1. Busy(pick) \in BOOLEAN /\ Busy(probe) \in BOOLEAN
        BY DEF Busy
      <4> QED
        BY <4>1 DEF TypeOK, Rounds
    <3>3. (Restart \/ Reload) => rebuilds' \in 0 .. MaxRebuilds
      BY DEF TypeOK, Restart, Reload
    <3> QED
      BY <2>1, <3>1, <3>2, <3>3 DEF TypeOK, PickStart, ProbeStart, Restart, Reload
  <2>2. ASSUME NEW n \in Nodes, PickHear(n) \/ ProbeHear(n)
        PROVE  TypeOK'
    <3>1. Hear(pick, n) \in Rounds /\ Hear(probe, n) \in Rounds
      BY RoundsStayRounds DEF TypeOK, Conditions
    <3> QED
      BY <2>2, <3>1 DEF TypeOK, PickHear, ProbeHear
  <2>3. ASSUME NEW n \in Nodes, NEW answer \in Conditions,
               PickNode(n, answer) \/ ProbeNode(n, answer)
        PROVE  TypeOK'
    <3>1. /\ NoRound \in Rounds /\ Forget(pick, n, answer) \in Rounds
          /\ Forget(probe, n, answer) \in Rounds
      BY RoundsStayRounds DEF TypeOK
    <3>2. Picked(node[n], answer) \in Records /\ Probed(node[n], answer) \in Records
      BY RecordsStayRecords DEF TypeOK
    <3> QED
      BY <2>3, <3>1, <3>2 DEF TypeOK, PickNode, ProbeNode
  <2>4. CASE Watch
    <3>1. Raised \subseteq Alerts
      BY DEF Raised, Alerts, NodeDown, CatchingUp
    <3> QED
      BY <2>4, <3>1 DEF TypeOK, Watch
  <2>5. CASE Tick
    <3>1. \A n \in Nodes : Aged(node[n]) \in Records
      BY RecordsStayRecords DEF TypeOK, Conditions
    <3> QED
      BY <2>5, <3>1 DEF TypeOK, Tick
  <2>6. ASSUME NEW n \in Nodes, NEW c \in Conditions, Change(n, c)
        PROVE  TypeOK'
    BY <2>6 DEF TypeOK, Change
  <2>7. CASE UNCHANGED nodeVars
    BY <2>7 DEF TypeOK, nodeVars
  <2> QED
    BY <2>1, <2>2, <2>3, <2>4, <2>5, <2>6, <2>7 DEF Next, ProbeStep
<1> QED
  BY <1>1, <1>2, PTL DEF Spec

(* An evaluation leaves at most the alert that fits the record.            *)
LEMMA WatchExcludes ==
  ASSUME Watch, NEW n \in Nodes
  PROVE  ~ (NodeDown(n) \in open' /\ CatchingUp(n) \in open')
<1>1. open' = (open \cup Raised) \ Resolved
  BY DEF Watch
<1>2. CASE node[n].syncing
  <2>1. NodeDown(n) \notin Raised
    BY <1>2 DEF Raised, NodeDown, CatchingUp, RaisesNodeDown
  <2>2. NodeDown(n) \in open => NodeDown(n) \in Resolved
    BY <1>2 DEF Resolved, NodeDown
  <2> QED
    BY <1>1, <2>1, <2>2
<1>3. CASE ~ node[n].syncing
  <2>1. CatchingUp(n) \notin Raised
    BY <1>3 DEF Raised, NodeDown, CatchingUp, RaisesCatchingUp
  <2>2. CatchingUp(n) \in open => CatchingUp(n) \in Resolved
    BY <1>3 DEF Resolved, CatchingUp
  <2> QED
    BY <1>1, <2>1, <2>2
<1> QED
  BY <1>2, <1>3

(* README.md:182: a syncing node suppresses node-down, for any number of   *)
(* nodes and under every interleaving of the loops with reloads.           *)
THEOREM NodesPageOnce == Spec => []OneProblemOnePage
<1>1. Init => OneProblemOnePage
  BY DEF Init, OneProblemOnePage
<1>2. OneProblemOnePage /\ [Next]_nodeVars => OneProblemOnePage'
  <2> SUFFICES ASSUME OneProblemOnePage, [Next]_nodeVars
               PROVE  OneProblemOnePage'
    OBVIOUS
  <2>1. CASE Watch
    BY <2>1, WatchExcludes DEF OneProblemOnePage, NodeDown, CatchingUp
  <2>2. CASE UNCHANGED open
    BY <2>2 DEF OneProblemOnePage, NodeDown, CatchingUp
  <2>3. Watch \/ UNCHANGED open
    BY DEF Next, ProbeStep, PickStart, PickHear, PickNode, ProbeStart, ProbeHear, ProbeNode, Reload,
           Restart, Tick, Change, nodeVars
  <2> QED
    BY <2>1, <2>2, <2>3
<1> QED
  BY <1>1, <1>2, PTL DEF Spec

(* A step leaves a round with answers it had before or hears now.          *)
Shrinks(round, later) ==
  later.heard \subseteq round.heard /\ (later.heard # {} => later.stale = round.stale)

LEMMA ForgetShrinks ==
  ASSUME NEW round \in Rounds, NEW n \in Nodes, NEW answer \in Conditions
  PROVE  Shrinks(round, Forget(round, n, answer)) /\ Shrinks(round, NoRound)
<1> DEFINE rest == [round EXCEPT !.heard = @ \ {<<n, answer>>}]
<1>1. rest.heard \subseteq round.heard /\ rest.stale = round.stale
  BY DEF Rounds
<1>2. NoRound.heard = {}
  BY DEF NoRound
<1>3. Forget(round, n, answer) = rest \/ Forget(round, n, answer) = NoRound
  BY DEF Forget
<1> QED
  BY <1>1, <1>2, <1>3, Zenon DEF Shrinks

LEMMA StartShrinks == ASSUME NEW round PROVE Shrinks(round, NewRound)
  BY DEF Shrinks, NewRound, NoRound

LEMMA SameShrinks == ASSUME NEW round PROVE Shrinks(round, round)
  BY DEF Shrinks

LEMMA OnlyGoneIsKept ==
  ASSUME TypeOK, NEW n \in Nodes, OnlyGone(n), Shrinks(pick, pick'), Shrinks(probe, probe')
  PROVE  OnlyGone(n)'
<1>1. ASSUME NEW answer \in Conditions, NEW round, NEW later, Shrinks(round, later),
             <<n, answer>> \in round.heard /\ ~ round.stale => answer = "gone",
             <<n, answer>> \in later.heard, ~ later.stale
      PROVE  answer = "gone"
  BY <1>1 DEF Shrinks
<1>2. \A answer \in Conditions :
        /\ <<n, answer>> \in pick.heard /\ ~ pick.stale => answer = "gone"
        /\ <<n, answer>> \in probe.heard /\ ~ probe.stale => answer = "gone"
  BY Zenon DEF OnlyGone
<1>3. \A answer \in Conditions :
        /\ <<n, answer>> \in pick'.heard /\ ~ pick'.stale => answer = "gone"
        /\ <<n, answer>> \in probe'.heard /\ ~ probe'.stale => answer = "gone"
  BY <1>1, <1>2, Zenon
<1> QED
  BY <1>3 DEF OnlyGone

(* A node that is unreachable adds no other answer to a round.             *)
LEMMA HearingGone ==
  ASSUME TypeOK, NEW n \in Nodes, NEW m \in Nodes, real[n] = "gone", NEW round \in Rounds,
         NEW answer \in Conditions,
         <<n, answer>> \in round.heard /\ ~ round.stale => answer = "gone",
         <<n, answer>> \in Hear(round, m).heard, ~ Hear(round, m).stale
  PROVE  answer = "gone"
<1>1. /\ Hear(round, m).heard = round.heard \cup {<<m, real[m]>>}
      /\ Hear(round, m).stale = round.stale
  BY DEF Hear, Rounds
<1> QED
  BY <1>1

(* An outage that is known and paged stays paged, for any number of nodes  *)
(* and whatever the loops were doing when it began: property               *)
(* OutageStaysPaged.  What keeps it is that every answer that can still    *)
(* reach the record says gone, and that neither way of writing `gone` down *)
(* takes the record out of the outage.                                     *)
THEOREM OutagesStayPaged == Spec => OutageStaysPaged
<1> DEFINE Stays == \A n \in Nodes :
       Outage(n) /\ real'[n] = "gone" /\ rebuilds' = rebuilds => Outage(n)'
<1>1. TypeOK /\ [Next]_nodeVars => [Stays]_nodeVars
  <2> SUFFICES ASSUME TypeOK, Next,
                      NEW n \in Nodes, Outage(n), real'[n] = "gone", rebuilds' = rebuilds
               PROVE  KnownDown(n)' /\ OnlyGone(n)'
    BY DEF Outage
  <2>1. /\ NodeDown(n) \in open /\ node[n].down /\ ~ node[n].syncing
        /\ real[n] = "gone" /\ OnlyGone(n)
        /\ pick \in Rounds /\ probe \in Rounds /\ node \in [Nodes -> Records]
    BY DEF Outage, KnownDown, TypeOK
  <2>2. \A answer \in Conditions :
          /\ <<n, answer>> \in pick.heard /\ ~ pick.stale => answer = "gone"
          /\ <<n, answer>> \in probe.heard /\ ~ probe.stale => answer = "gone"
    BY <2>1, Zenon DEF OnlyGone
  <2>3. CASE PickStart \/ ProbeStart
    <3>1. Shrinks(pick, pick') /\ Shrinks(probe, probe')
      BY <2>3, StartShrinks, SameShrinks DEF PickStart, ProbeStart
    <3>2. UNCHANGED <<node, open>>
      BY <2>3 DEF PickStart, ProbeStart
    <3> QED
      BY <2>1, <3>1, <3>2, OnlyGoneIsKept DEF KnownDown
  <2>4. ASSUME NEW m \in Nodes, PickHear(m) PROVE KnownDown(n)' /\ OnlyGone(n)'
    <3>1. pick' = Hear(pick, m) /\ probe' = probe /\ UNCHANGED <<node, open>>
      BY <2>4 DEF PickHear
    <3>2. \A answer \in Conditions : <<n, answer>> \in pick'.heard /\ ~ pick'.stale => answer = "gone"
      BY <2>1, <2>2, <3>1, HearingGone, Zenon
    <3> QED
      BY <2>1, <2>2, <3>1, <3>2 DEF OnlyGone, KnownDown
  <2>5. ASSUME NEW m \in Nodes, ProbeHear(m) PROVE KnownDown(n)' /\ OnlyGone(n)'
    <3>1. probe' = Hear(probe, m) /\ pick' = pick /\ UNCHANGED <<node, open>>
      BY <2>5 DEF ProbeHear
    <3>2. \A answer \in Conditions : <<n, answer>> \in probe'.heard /\ ~ probe'.stale => answer = "gone"
      BY <2>1, <2>2, <3>1, HearingGone, Zenon
    <3> QED
      BY <2>1, <2>2, <3>1, <3>2 DEF OnlyGone, KnownDown
  <2>6. ASSUME NEW m \in Nodes, NEW answer \in Conditions,
               PickNode(m, answer) \/ ProbeNode(m, answer)
        PROVE  KnownDown(n)' /\ OnlyGone(n)'
    <3>1. Shrinks(pick, pick') /\ Shrinks(probe, probe')
      BY <2>1, <2>6, ForgetShrinks, SameShrinks DEF PickNode, ProbeNode
    <3>2. open' = open /\ (node'[n] = node[n] \/ node'[n] = Picked(node[n], "gone")
                             \/ node'[n] = Probed(node[n], "gone"))
      BY <2>1, <2>2, <2>6 DEF PickNode, ProbeNode
    <3>3. \A r \in Records : /\ Picked(r, "gone").down /\ Probed(r, "gone").down
                             /\ Picked(r, "gone").syncing = r.syncing
                             /\ ~ Probed(r, "gone").syncing
      BY DEF Picked, Probed, MarkDown, Records
    <3>4. node'[n].down /\ ~ node'[n].syncing
      BY <2>1, <3>2, <3>3
    <3> QED
      BY <2>1, <3>1, <3>2, <3>4, OnlyGoneIsKept DEF KnownDown
  <2>7. CASE Watch
    <3>1. NodeDown(n) \notin Resolved
      BY <2>1 DEF Resolved, NodeDown, CatchingUp
    <3>2. /\ open' = (open \cup Raised) \ Resolved
          /\ UNCHANGED <<node, pick, probe>>
      BY <2>7 DEF Watch
    <3> QED
      BY <2>1, <2>2, <3>1, <3>2 DEF KnownDown, OnlyGone
  <2>8. ~ Reload /\ ~ Restart
    BY NodeAssumption DEF Reload, Restart, TypeOK
  <2>9. CASE Tick
    <3>1. node'[n].down = node[n].down /\ node'[n].syncing = node[n].syncing
      BY <2>1, <2>9 DEF Tick, Aged, Records
    <3>2. UNCHANGED <<open, pick, probe>>
      BY <2>9 DEF Tick
    <3> QED
      BY <2>1, <2>2, <3>1, <3>2 DEF KnownDown, OnlyGone
  <2>10. ASSUME NEW m \in Nodes, NEW c \in Conditions, Change(m, c)
         PROVE  KnownDown(n)' /\ OnlyGone(n)'
    BY <2>1, <2>2, <2>10 DEF Change, KnownDown, OnlyGone
  <2> QED
    BY <2>3, <2>4, <2>5, <2>6, <2>7, <2>8, <2>9, <2>10 DEF Next, ProbeStep
<1> QED
  BY <1>1, NodesTyped, PTL DEF Spec, OutageStaysPaged
=============================================================================
