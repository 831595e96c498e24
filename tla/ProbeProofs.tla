---------------------------- MODULE ProbeProofs ----------------------------
(***************************************************************************)
(* Proofs about what healthLoop learns from an EVM endpoint (EvmHealth)    *)
(* and of a validator (ValidatorInfo), for every threshold, every height   *)
(* of the chain and every number of reloads and restarts, and about the    *)
(* diff of the validator set (SetWatch), for every number of restarts.     *)
(*                                                                         *)
(* Neither of the first two is inductive: both alerts follow an answer     *)
(* that was written down long ago.  What makes them true is what the       *)
(* answers on their way and in the records can be: no record keeps a lag   *)
(* that was not a real distance when it was measured; and while a          *)
(* validator has missed too much all along, no answer still under way says *)
(* otherwise, and the target behind the open alert says so too, however    *)
(* often its record was replaced in between.                               *)
(*                                                                         *)
(* The news of the set needs to know what the rounds hold: a loop has news *)
(* in hand only while it tells it, so a swap drops none, and no answer of  *)
(* a loop lacks a validator that has been in the set all the time.         *)
(***************************************************************************)
EXTENDS EvmHealth, ValidatorInfo, SetWatch, TLAPS

---------------------------------------------------------------------------
(* The EVM endpoint.                                                       *)

(* The history says what it should, and a record invents no lag.           *)
DistanceIsRemembered == ~ lagged => head - executed <= EvmLagBlocks
LagWasReal == ~ lagged => probed.lag <= EvmLagBlocks

LagInv == EvmTypeOK /\ DistanceIsRemembered /\ LagWasReal /\ NoFalseLag

(* Ages and records.                                                       *)
LEMMA OlderIsATime ==
  ASSUME NEW t \in Times
  PROVE  Older(t) \in Times /\ 0 \in Times /\ Never \in Times
  BY AgesAssumption DEF Older, Times, Ages

LEMMA NewRecordIsARecord == NewEvmRecord \in EvmRecords
  BY AgesAssumption, EvmAssumption DEF NewEvmRecord, EvmRecords, Times, EvmHeights

(* The distance a probe measures.                                          *)
LEMMA BehindIsAHeight ==
  ASSUME EvmTypeOK, NEW h \in EvmHeights
  PROVE  /\ Behind(h) \in EvmHeights
         /\ head - h <= EvmLagBlocks => Behind(h) <= EvmLagBlocks
  BY EvmAssumption DEF EvmTypeOK, EvmHeights, Behind

(* Every variable keeps its type.                                          *)
LEMMA EvmTypeIsInductive ==
  ASSUME EvmTypeOK, [EvmNext]_evmVars
  PROVE  EvmTypeOK'
<1> USE EvmAssumption
<1>1. CASE AskHeight
  <2>1. Reached(probed) \in EvmRecords /\ Unreachable(probed) \in EvmRecords
    <3>1. Behind(executed) \in EvmHeights
      BY BehindIsAHeight DEF EvmTypeOK
    <3>2. 0 \in Times /\ Never \in Times
      BY AgesAssumption DEF Times, Ages
    <3> QED
      BY <3>1, <3>2 DEF Reached, Unreachable, EvmTypeOK, EvmRecords
  <2>2. NotAsking \in Asking /\ [asking EXCEPT !.next = "syncing"] \in Asking
    BY DEF EvmTypeOK, Asking, NotAsking
  <2> QED
    BY <1>1, <2>1, <2>2 DEF AskHeight, EvmTypeOK, evmWorld
<1>2. CASE AskSyncing
  <2>1. [probed EXCEPT !.syncing = endpoint.syncing] \in EvmRecords
        /\ [asking EXCEPT !.next = "txpool"] \in Asking
    BY DEF EvmTypeOK, EvmRecords, Asking
  <2> QED
    BY <1>2, <2>1 DEF AskSyncing, EvmTypeOK, evmWorld
<1>3. CASE AskTxpool
  <2>1. PICK full \in BOOLEAN, alarm \in {probed.alarm \cup {Pool}, probed.alarm \ {Pool}},
             opened \in {evmOpen, evmOpen \cup {Pool}, evmOpen \ {Pool}} :
          /\ probed' \in {probed, [probed EXCEPT !.full = full, !.alarm = alarm]}
          /\ evmOpen' = opened
    BY <1>3 DEF AskTxpool, EvmTypeOK, EvmRecords, Asking
  <2>2. [probed EXCEPT !.full = full, !.alarm = alarm] \in EvmRecords
    BY <2>1 DEF EvmTypeOK, EvmRecords, Pool, EvmAlerts
  <2>3. NotAsking \in Asking
    BY DEF Asking, NotAsking
  <2> QED
    BY <1>3, <2>1, <2>2, <2>3 DEF AskTxpool, EvmTypeOK, evmWorld, Pool, EvmAlerts
<1>4. CASE WatchEvm
  <2>1. EvmRaised \subseteq EvmAlerts
    BY DEF EvmRaised, EvmAlerts
  <2>2. [probed EXCEPT !.alarm = (@ \cup EvmRaised) \ EvmCleared] \in EvmRecords
    BY <2>1 DEF EvmTypeOK, EvmRecords
  <2> QED
    BY <1>4, <2>1, <2>2 DEF WatchEvm, EvmTypeOK, evmWorld
<1>5. CASE ReloadEvm
  <2>1. asking' \in Asking
    <3>1. \A next \in {"height", "syncing", "txpool"}, full \in BOOLEAN, alarm \in BOOLEAN :
            [next |-> next, stale |-> TRUE, full |-> full, alarm |-> alarm] \in Asking
      BY DEF Asking
    <3>2. (IF asking.stale THEN asking.full ELSE probed.full) \in BOOLEAN
      BY DEF EvmTypeOK, Asking, EvmRecords
    <3>3. (IF asking.stale THEN asking.alarm ELSE Pool \in probed.alarm) \in BOOLEAN
      <4>1. asking.alarm \in BOOLEAN
        BY DEF EvmTypeOK, Asking
      <4>2. (Pool \in probed.alarm) \in BOOLEAN
        OBVIOUS
      <4>3. CASE asking.stale
        BY <4>1, <4>3
      <4>4. CASE ~ asking.stale
        BY <4>2, <4>4
      <4> QED
        BY <4>3, <4>4
    <3>4. asking \in Asking /\ asking.next \in {"height", "syncing", "txpool"}
      BY DEF EvmTypeOK, Asking
    <3>5. [next |-> asking.next, stale |-> TRUE,
           full |-> IF asking.stale THEN asking.full ELSE probed.full,
           alarm |-> IF asking.stale THEN asking.alarm ELSE Pool \in probed.alarm] \in Asking
      BY <3>1, <3>2, <3>3, <3>4, Zenon
    <3> QED
      BY <1>5, <3>4, <3>5, Zenon DEF ReloadEvm
  <2> QED
    BY <1>5, <2>1, NewRecordIsARecord DEF ReloadEvm, Rebuild, EvmTypeOK, evmWorld
<1>6. CASE RestartEvm
  BY <1>6, NewRecordIsARecord DEF RestartEvm, Rebuild, NotAsking, Asking, EvmTypeOK, evmWorld
<1>7. CASE EvmTick
  <2>1. [probed EXCEPT !.downSince = Older(@)] \in EvmRecords
    BY OlderIsATime DEF EvmTypeOK, EvmRecords
  <2> QED
    BY <1>7, <2>1 DEF EvmTick, EvmTypeOK, evmWorld
<1>8. CASE Block \/ Execute
  <2>1. lagged' \in BOOLEAN
    BY <1>8, Zenon DEF Block, Execute, EvmTypeOK
  <2>2. head' \in EvmHeights /\ executed' \in EvmHeights
    BY <1>8 DEF Block, Execute, EvmTypeOK, EvmHeights
  <2> QED
    BY <1>8, <2>1, <2>2 DEF Block, Execute, EvmTypeOK
<1>9. CASE ChangeEndpoint
  BY <1>9 DEF ChangeEndpoint, EvmTypeOK
<1>10. CASE UNCHANGED evmVars
  BY <1>10 DEF EvmTypeOK, evmVars, evmWorld
<1> QED
  BY <1>1, <1>2, <1>3, <1>4, <1>5, <1>6, <1>7, <1>8, <1>9, <1>10 DEF EvmNext, ProbeEvmStep

LEMMA EvmTypeAtFirst == EvmInit => EvmTypeOK
<1>1. 0 \in EvmHeights /\ 0 \in 0 .. MaxEvmRebuilds
  BY EvmAssumption DEF EvmHeights
<1>2. NotAsking \in Asking
  BY DEF Asking, NotAsking
<1>3. [up |-> TRUE, syncing |-> FALSE, full |-> FALSE]
        \in [up : BOOLEAN, syncing : BOOLEAN, full : BOOLEAN]
  OBVIOUS
<1> QED
  BY <1>1, <1>2, <1>3, NewRecordIsARecord, Zenon DEF EvmInit, EvmTypeOK

THEOREM EvmTyped == EvmSpec => []EvmTypeOK
  BY EvmTypeAtFirst, EvmTypeIsInductive, PTL DEF EvmSpec

(* health.go:197: an EVM endpoint that was never more than evm_lag_blocks  *)
(* behind is never paged for lag, however the stages of a probe, the       *)
(* blocks of the chain, reloads and evaluations interleave.                *)
THEOREM LagIsNeverInvented == EvmSpec => []NoFalseLag
<1>1. EvmInit => LagInv
  BY EvmAssumption, EvmTypeAtFirst
  DEF EvmInit, LagInv, DistanceIsRemembered, LagWasReal, NoFalseLag, NewEvmRecord
<1>2. LagInv /\ [EvmNext]_evmVars => LagInv'
  <2> SUFFICES ASSUME LagInv, [EvmNext]_evmVars PROVE LagInv'
    OBVIOUS
  <2>1. EvmTypeOK /\ EvmTypeOK'
    BY EvmTypeIsInductive DEF LagInv
  <2> USE DEF LagInv, DistanceIsRemembered, LagWasReal, NoFalseLag
  <2>2. CASE AskHeight
    <3>1. ~ lagged => Behind(executed) <= EvmLagBlocks
      BY <2>1, BehindIsAHeight DEF EvmTypeOK
    <3>2. Reached(probed).lag = Behind(executed) /\ Unreachable(probed).lag = probed.lag
      BY <2>1 DEF Reached, Unreachable, EvmTypeOK, EvmRecords
    <3> QED
      BY <2>1, <2>2, <3>1, <3>2 DEF AskHeight, evmWorld
  <2>3. CASE AskSyncing \/ EvmTick
    <3>1. probed'.lag = probed.lag
      BY <2>1, <2>3 DEF AskSyncing, EvmTick, EvmTypeOK, EvmRecords
    <3> QED
      BY <2>1, <2>3, <3>1 DEF AskSyncing, EvmTick, evmWorld
  <2>4. CASE AskTxpool
    <3>1. probed'.lag = probed.lag
      BY <2>1, <2>4 DEF AskTxpool, EvmTypeOK, EvmRecords
    <3>2. "evm-lag" \in evmOpen' => "evm-lag" \in evmOpen
      BY <2>4 DEF AskTxpool, Pool
    <3> QED
      BY <2>1, <2>4, <3>1, <3>2 DEF AskTxpool, evmWorld
  <2>5. CASE WatchEvm
    <3>1. probed'.lag = probed.lag
      BY <2>1, <2>5 DEF WatchEvm, EvmTypeOK, EvmRecords
    <3>2. "evm-lag" \in EvmRaised => probed.lag > EvmLagBlocks
      BY DEF EvmRaised, LagTooLarge
    <3>3. ~ lagged => "evm-lag" \notin EvmRaised
      BY <2>1, <3>2, EvmAssumption DEF EvmTypeOK, EvmRecords, EvmHeights
    <3> QED
      BY <2>1, <2>5, <3>1, <3>3 DEF WatchEvm, evmWorld
  <2>6. CASE ReloadEvm \/ RestartEvm
    <3>1. probed'.lag = 0
      BY <2>6 DEF ReloadEvm, RestartEvm, Rebuild, NewEvmRecord
    <3> QED
      BY <2>1, <2>6, <3>1, EvmAssumption DEF ReloadEvm, RestartEvm, Rebuild, evmWorld
  <2>7. CASE Block
    <3>1. ~ lagged' => ~ lagged /\ ~ (head' - executed > EvmLagBlocks)
      BY <2>7, Zenon DEF Block
    <3>2. head' - executed > EvmLagBlocks \/ head' - executed' <= EvmLagBlocks
      BY <2>1, <2>7, EvmAssumption DEF Block, EvmTypeOK, EvmHeights
    <3>3. probed' = probed /\ evmOpen' = evmOpen
      BY <2>7 DEF Block
    <3> QED
      BY <2>1, <3>1, <3>2, <3>3, Zenon
  <2>8. CASE Execute
    <3>1. ~ lagged' => head' - executed' <= EvmLagBlocks
      BY <2>1, <2>8, EvmAssumption DEF Execute, EvmTypeOK, EvmHeights
    <3> QED
      BY <2>1, <2>8, <3>1 DEF Execute
  <2>9. CASE ChangeEndpoint \/ UNCHANGED evmVars
    BY <2>1, <2>9 DEF ChangeEndpoint, evmVars, evmWorld
  <2> QED
    BY <2>2, <2>3, <2>4, <2>5, <2>6, <2>7, <2>8, <2>9 DEF EvmNext, ProbeEvmStep
<1> QED
  BY <1>1, <1>2, PTL DEF EvmSpec, LagInv
---------------------------------------------------------------------------
(* The validator.                                                          *)

StandsOver == ~ forgiven => standing.over
NoOtherAnswer == ~ forgiven => \A r \in Askers : asker[r].at = "signing" => asker[r].yes
OpenIsOver == ~ forgiven /\ "window-pct" \in standOpen => target.info.over

StandInv == InfoTypeOK /\ StandsOver /\ NoOtherAnswer /\ OpenIsOver

Infos == [known : BOOLEAN, active : BOOLEAN, over : BOOLEAN, window : BOOLEAN]
Targets == [info : Infos, latch : SUBSET StandAlerts]
Refreshes == [at : Steps, yes : BOOLEAN]

(* What a refresh writes down keeps the form of a target.                  *)
LEMMA TargetsStayTargets ==
  ASSUME NEW t \in Targets, NEW yes \in BOOLEAN
  PROVE  /\ [t EXCEPT !.info = WithRecord(@, yes)] \in Targets
         /\ [t EXCEPT !.info.over = yes] \in Targets
         /\ [t EXCEPT !.info.window = yes] \in Targets
         /\ \A latch \in SUBSET StandAlerts : [t EXCEPT !.latch = latch] \in Targets
         /\ NewTarget \in Targets
  BY DEF Targets, Infos, WithRecord, NewTarget, NoInfo

(* Every variable keeps its type.                                          *)
LEMMA InfoTypeIsInductive ==
  ASSUME InfoTypeOK, [InfoNext]_infoVars
  PROVE  InfoTypeOK'
<1>1. /\ target \in Targets /\ standing \in Standings
      /\ asker \in [Askers -> Refreshes]
  BY DEF InfoTypeOK, Targets, Infos, Refreshes
<1>2. \A r \in Askers, at \in Steps, yes \in BOOLEAN :
        [asker EXCEPT ![r] = [at |-> at, yes |-> yes]] \in [Askers -> Refreshes]
  BY <1>1 DEF Refreshes
<1>3. /\ standing.active \in BOOLEAN /\ standing.over \in BOOLEAN
      /\ standing.answers \in BOOLEAN
  BY <1>1 DEF Standings
<1>4. target \in Targets => target \in [info : [known : BOOLEAN, active : BOOLEAN,
        over : BOOLEAN, window : BOOLEAN], latch : SUBSET StandAlerts]
  BY DEF Targets, Infos
<1> DEFINE TypedParts == /\ standing \in Standings /\ target \in Targets
                         /\ asker \in [Askers -> Refreshes]
                         /\ standOpen \subseteq StandAlerts
                         /\ replacements \in 0 .. MaxReplacements /\ forgiven \in BOOLEAN
<1>11. TypedParts' => InfoTypeOK'
  BY DEF InfoTypeOK, Targets, Infos, Refreshes
<1>12. TypedParts
  BY DEF InfoTypeOK, Targets, Infos, Refreshes
<1>5. ASSUME NEW r \in Askers, HearRecord(r) \/ HearSigning(r)
      PROVE  InfoTypeOK'
  <2>1. asker' \in [Askers -> Refreshes]
    <3>1. "record" \in Steps /\ "signing" \in Steps
      BY DEF Steps
    <3>2. [asker EXCEPT ![r] = [at |-> "record", yes |-> standing.active]] \in [Askers -> Refreshes]
      BY <1>2, <1>3, <3>1
    <3>3. [asker EXCEPT ![r] = [at |-> "signing", yes |-> standing.over]] \in [Askers -> Refreshes]
      BY <1>2, <1>3, <3>1
    <3> QED
      BY <1>5, <3>2, <3>3, Zenon DEF HearRecord, HearSigning, Hears
  <2> QED
    BY <1>5, <1>11, <1>12, <2>1, Zenon DEF HearRecord, HearSigning
<1>6. ASSUME NEW r \in Askers, ApplyRecord(r) \/ ApplySigning(r) \/ SigningFails(r) \/ AskWindow(r)
      PROVE  InfoTypeOK'
  <2>1. asker[r].yes \in BOOLEAN
    BY <1>1 DEF Refreshes
  <2>2. target' \in Targets
    <3>1. (target.info.window \/ standing.answers) \in BOOLEAN
      OBVIOUS
    <3>2. AskWindow(r) => target' \in Targets
      <4>1. [target EXCEPT !.info.window = target.info.window \/ standing.answers] \in Targets
        BY <1>1, <3>1, TargetsStayTargets
      <4> QED
        BY <4>1 DEF AskWindow
    <3> QED
      BY <1>1, <1>6, <2>1, <3>2, TargetsStayTargets
      DEF ApplyRecord, ApplySigning, SigningFails
  <2>3. asker' \in [Askers -> Refreshes]
    <3>1. \A at \in Steps : [asker EXCEPT ![r] = AboutToAsk(at)] \in [Askers -> Refreshes]
      BY <1>2 DEF AboutToAsk
    <3>2. [asker EXCEPT ![r] = Idle] \in [Askers -> Refreshes]
      BY <1>2 DEF Idle, Steps
    <3>3. [asker EXCEPT ![r] = AfterSigning] \in [Askers -> Refreshes]
      BY <3>1, <3>2 DEF AfterSigning, Steps
    <3>4. "ask-signing" \in Steps
      BY DEF Steps
    <3> QED
      BY <1>6, <3>1, <3>2, <3>3, <3>4, Zenon
      DEF ApplyRecord, ApplySigning, SigningFails, AskWindow, Continues
  <2> QED
    BY <1>6, <1>11, <1>12, <2>2, <2>3, Zenon
    DEF ApplyRecord, ApplySigning, SigningFails, AskWindow
<1>7. CASE WatchStanding
  <2>1. Wanted \subseteq StandAlerts
    BY DEF Wanted, StandAlerts
  <2>2. (target.latch \cup Wanted) \ StandCleared \in SUBSET StandAlerts
    BY <1>1, <2>1 DEF Targets
  <2>3. target' \in Targets
    BY <1>1, <1>7, <2>2, TargetsStayTargets DEF WatchStanding
  <2> QED
    BY <1>7, <2>1, <2>3 DEF WatchStanding, InfoTypeOK, Targets, Infos
<1>8. CASE ReplaceTarget
  <2>1. NewTarget \in Targets
    BY DEF NewTarget, Targets, Infos, NoInfo
  <2>2. [r \in Askers |-> Idle] \in [Askers -> Refreshes]
    BY DEF Idle, Refreshes, Steps
  <2> QED
    <3>1. replacements' \in 0 .. MaxReplacements
      BY <1>8, <1>12, InfoAssumption DEF ReplaceTarget
    <3> QED
      BY <1>8, <1>11, <1>12, <2>1, <2>2, <3>1, Zenon DEF ReplaceTarget
<1>9. CASE ChangeStanding
  <2>1. forgiven' \in BOOLEAN
    BY <1>9, Zenon DEF ChangeStanding, InfoTypeOK
  <2> QED
    BY <1>9, <2>1 DEF ChangeStanding, InfoTypeOK
<1>10. CASE UNCHANGED infoVars
  BY <1>10 DEF InfoTypeOK, infoVars
<1> QED
  BY <1>5, <1>6, <1>7, <1>8, <1>9, <1>10 DEF InfoNext, RefreshStep

LEMMA InfoTypeAtFirst == InfoInit => InfoTypeOK
<1> SUFFICES ASSUME InfoInit PROVE InfoTypeOK
  OBVIOUS
<1>1. standing \in Standings
  BY DEF InfoInit, Standings
<1>2. forgiven \in BOOLEAN
  BY Zenon DEF InfoInit
<1>3. 0 \in 0 .. MaxReplacements
  BY InfoAssumption
<1> QED
  BY <1>1, <1>2, <1>3 DEF InfoInit, InfoTypeOK, NewTarget, NoInfo, Idle, Steps, StandAlerts

THEOREM InfoTyped == InfoSpec => []InfoTypeOK
  BY InfoTypeAtFirst, InfoTypeIsInductive, PTL DEF InfoSpec

(* While the misses go on, no answer, no replaced record and no evaluation *)
(* makes the target forget them.                                           *)
LEMMA StandIsInductive ==
  ASSUME StandInv, [InfoNext]_infoVars
  PROVE  StandInv'
<1> USE DEF StandInv, StandsOver, NoOtherAnswer, OpenIsOver
<1>1. InfoTypeOK /\ InfoTypeOK'
  BY InfoTypeIsInductive
<1>2. ASSUME NEW r \in Askers, HearRecord(r) \/ HearSigning(r)
      PROVE  StandInv'
  <2>1. \A q \in Askers : asker'[q].at = "signing"
          => asker'[q] = asker[q] \/ asker'[q].yes = standing.over
    BY <1>1, <1>2 DEF HearRecord, HearSigning, Hears, InfoTypeOK
  <2> QED
    BY <1>1, <1>2, <2>1 DEF HearRecord, HearSigning
<1>3. ASSUME NEW r \in Askers, ApplyRecord(r) \/ ApplySigning(r) \/ SigningFails(r) \/ AskWindow(r)
      PROVE  StandInv'
  <2>1. \A q \in Askers : asker'[q].at = "signing" => asker'[q] = asker[q]
    BY <1>1, <1>3
    DEF ApplyRecord, ApplySigning, SigningFails, AskWindow, Continues, AboutToAsk,
        AfterSigning, Idle, InfoTypeOK
  <2>2. target'.info.over = target.info.over
          \/ (asker[r].at = "signing" /\ target'.info.over = asker[r].yes)
    <3>1. target \in Targets
      BY <1>1 DEF InfoTypeOK, Targets, Infos
    <3>2. ApplyRecord(r) => target'.info.over = target.info.over
      <4>1. WithRecord(target.info, asker[r].yes).over = target.info.over
        BY <3>1 DEF WithRecord, Targets, Infos
      <4>2. ApplyRecord(r) => target'.info = WithRecord(target.info, asker[r].yes)
        BY <3>1 DEF ApplyRecord, Targets
      <4> QED
        BY <4>1, <4>2
    <3>3. ApplySigning(r) => asker[r].at = "signing" /\ target'.info.over = asker[r].yes
      BY <3>1 DEF ApplySigning, Targets, Infos
    <3>4. AskWindow(r) => target'.info.over = target.info.over
      BY <3>1 DEF AskWindow, Targets, Infos
    <3> QED
      BY <1>3, <3>2, <3>3, <3>4 DEF SigningFails
  <2> QED
    BY <1>1, <1>3, <2>1, <2>2 DEF ApplyRecord, ApplySigning, SigningFails, AskWindow
<1>4. CASE WatchStanding
  <2>1. target'.info = target.info
    BY <1>1, <1>4 DEF WatchStanding, InfoTypeOK
  <2>2. "window-pct" \in standOpen' => "window-pct" \in standOpen \/ target.info.over
    BY <1>4 DEF WatchStanding, Wanted
  <2> QED
    BY <1>1, <1>4, <2>1, <2>2 DEF WatchStanding
<1>5. CASE ReplaceTarget
  BY <1>1, <1>5 DEF ReplaceTarget
<1>6. CASE ChangeStanding
  <2>1. ~ forgiven' => ~ forgiven /\ standing'.over
    BY <1>6, Zenon DEF ChangeStanding
  <2>2. asker' = asker /\ target' = target /\ standOpen' = standOpen
    BY <1>6 DEF ChangeStanding
  <2> QED
    BY <1>1, <2>1, <2>2, Zenon
<1>7. CASE UNCHANGED infoVars
  BY <1>1, <1>7 DEF infoVars
<1> QED
  BY <1>2, <1>3, <1>4, <1>5, <1>6, <1>7 DEF InfoNext, RefreshStep

LEMMA StandAtFirst == InfoInit => StandInv
<1> SUFFICES ASSUME InfoInit PROVE StandInv
  OBVIOUS
<1>1. ~ forgiven => standing.over
  BY Zenon DEF InfoInit
<1>2. \A r \in Askers : asker[r].at # "signing"
  BY DEF InfoInit, Idle
<1>3. standOpen = {}
  BY DEF InfoInit
<1> QED
  BY <1>1, <1>2, <1>3, InfoTypeAtFirst DEF StandInv, StandsOver, NoOtherAnswer, OpenIsOver

(* chain.go:460: while a validator has missed too much all along, its open *)
(* window-pct is not cleared, however the refreshes of Run and healthLoop  *)
(* overlap, fail and replace its record.                                   *)
THEOREM PagesStandWhileOver == InfoSpec => PageStandsWhileOver
<1>1. StandInv /\ [InfoNext]_infoVars
        => [{"window-pct"} \subseteq standOpen \ standOpen' => forgiven]_infoVars
  <2> SUFFICES ASSUME StandInv, InfoNext, "window-pct" \in standOpen, "window-pct" \notin standOpen'
               PROVE  forgiven
    OBVIOUS
  <2>1. standOpen' # standOpen
    OBVIOUS
  <2>2. WatchStanding
    BY <2>1
    DEF InfoNext, RefreshStep, HearRecord, HearSigning, ApplyRecord, ApplySigning,
        SigningFails, AskWindow, ReplaceTarget, ChangeStanding
  <2>3. ~ target.info.over
    BY <2>2 DEF WatchStanding, StandCleared, Unwanted
  <2> QED
    BY <2>3 DEF StandInv, OpenIsOver
<1> QED
  BY <1>1, StandAtFirst, StandIsInductive, PTL DEF InfoSpec, PageStandsWhileOver

---------------------------------------------------------------------------
(* The validator set.                                                      *)

(* A validator that was in the set all the time was never heard to be out. *)
NeverOut ==
  stayed => member # "out" /\ snapshot # "out" /\ \A l \in Loops : watcher[l].heard # "out"

(* A loop has news in hand only while it tells it, and an answer while it  *)
(* has one.                                                                *)
HandsAreFree ==
  \A l \in Loops : /\ watcher[l].at # "telling" => watcher[l].says = {}
                   /\ watcher[l].at = "heard" => watcher[l].heard \in Members

WatchInv == WatchTypeOK /\ NeverOut /\ HandsAreFree /\ NewsIsPending

(* What a round writes down.                                               *)
LEMMA WatchersAreTyped ==
  /\ Resting \in SetWatchers /\ Resting.says = {} /\ Resting.at = "idle" /\ Resting.heard = Unprimed
  /\ \A m \in Members : LET w == [Resting EXCEPT !.at = "heard", !.heard = m]
                        IN  /\ w \in SetWatchers /\ w.at = "heard" /\ w.heard = m /\ w.says = {}
  /\ \A says \in SUBSET Messages :
       LET w == [at |-> "telling", heard |-> Unprimed, says |-> says]
       IN  w \in SetWatchers /\ w.at = "telling" /\ w.heard = Unprimed /\ w.says = says
  /\ Unprimed \notin Members
  BY DEF Resting, SetWatchers, Members, Unprimed

(* The news there are, and when they are news.                             *)
LEMMA WhatIsNews ==
  /\ {Gone, Jailed, Released} \subseteq Messages
  /\ Gone # Jailed /\ Gone # Released /\ Jailed # Released
  /\ \A prev, now : Difference(prev, now) \subseteq Messages
  /\ \A prev \in {"free", "jailed"} : Gone \in Difference(prev, "out")
  /\ Jailed \in Difference("free", "jailed")
  /\ Released \in Difference("jailed", "free")
<1>1. {Gone, Jailed, Released} \subseteq Messages
  <2>1. Gone \in Messages /\ Jailed \in Messages /\ Released \in Messages
    BY Zenon DEF Gone, Jailed, Released, Messages, News
  <2> QED
    BY <2>1
<1>2. Gone # Jailed /\ Gone # Released /\ Jailed # Released
  BY DEF Gone, Jailed, Released
<1> QED
  BY <1>1, <1>2 DEF Difference, Gone, Jailed, Released

(* News that was in some hand stays there, unless it is told now.          *)
LEMMA StaysPending ==
  ASSUME WatchTypeOK, NEW l \in Loops, NEW w, watcher' = [watcher EXCEPT ![l] = w],
         NEW m, Pending(m), m \in watcher[l].says => m \in w.says
  PROVE  Pending(m)'
<1>1. PICK j \in Loops : m \in watcher[j].says
  BY DEF Pending
<1>2. m \in watcher'[j].says
  BY <1>1 DEF WatchTypeOK
<1> QED
  BY <1>2 DEF Pending

LEMMA SwapKeepsNews ==
  ASSUME WatchInv, NEW l \in Loops, Swap(l)
  PROVE  WatchInv'
<1> DEFINE now == watcher[l].heard
           says == IF snapshot = Unprimed THEN {} ELSE Difference(snapshot, now)
           w == IF says = {} THEN Resting
                ELSE [at |-> "telling", heard |-> Unprimed, says |-> says]
<1>1. /\ now \in Members /\ snapshot' = now /\ watcher[l].says = {}
      /\ watcher' = [watcher EXCEPT ![l] = w]
      /\ due' = NowDue(now) /\ UNCHANGED <<member, told, starts, stayed>>
  BY DEF Swap, WatchInv, HandsAreFree
<1>2. says \in SUBSET Messages
  BY WhatIsNews
<1>3. /\ w \in SetWatchers /\ w.says = says /\ w.heard = Unprimed /\ w.at \in {"idle", "telling"}
      /\ (w.at # "telling" => w.says = {})
  <2> HIDE DEF says
  <2>1. CASE says = {}
    BY <2>1, WatchersAreTyped
  <2>2. CASE says # {}
    BY <1>2, <2>2, WatchersAreTyped
  <2> QED
    BY <2>1, <2>2
<1> HIDE DEF w
<1>4. WatchTypeOK'
  <2>1. due' \subseteq Messages
    BY <1>1, WhatIsNews DEF NowDue, WatchInv, WatchTypeOK, Members
  <2> QED
    BY <1>1, <1>3, <2>1 DEF WatchInv, WatchTypeOK
<1>5. \A j \in Loops : watcher'[j] = IF j = l THEN w ELSE watcher[j]
  BY <1>1 DEF WatchInv, WatchTypeOK
<1>6. NeverOut' /\ HandsAreFree'
  <2>1. stayed => now # "out"
    BY DEF WatchInv, NeverOut
  <2>2. Unprimed # "out"
    BY DEF Unprimed
  <2> QED
    BY <1>1, <1>3, <1>5, <2>1, <2>2 DEF WatchInv, NeverOut, HandsAreFree
<1>7. \A m \in says : Pending(m)'
  BY <1>3, <1>5 DEF Pending
<1>8. \A m : Pending(m) => Pending(m)'
  BY <1>1, StaysPending DEF WatchInv
<1>9. Gone \in due' => snapshot' \in {"free", "jailed"} \/ Pending(Gone)'
  <2>1. CASE now = "out"
    <3>1. due' = due
      BY <1>1, <2>1 DEF NowDue
    <3>2. snapshot \in {"free", "jailed"} => Gone \in says
      BY <2>1, WhatIsNews DEF Unprimed
    <3> QED
      BY <1>7, <1>8, <3>1, <3>2 DEF WatchInv, NewsIsPending
  <2>2. CASE now # "out"
    BY <1>1, <2>2 DEF Members
  <2> QED
    BY <2>1, <2>2
<1>10. stayed /\ Jailed \in due' => snapshot' = "free" \/ Pending(Jailed)'
  <2>1. CASE now = "jailed"
    <3>1. Jailed \in due' => Jailed \in due
      BY <1>1, <2>1, WhatIsNews DEF NowDue
    <3>2. snapshot = "free" => Jailed \in says
      BY <2>1, WhatIsNews DEF Unprimed
    <3> QED
      BY <1>7, <1>8, <3>1, <3>2 DEF WatchInv, NewsIsPending
  <2>2. CASE now # "jailed"
    BY <1>1, <2>2 DEF Members, WatchInv, NeverOut
  <2> QED
    BY <2>1, <2>2
<1>11. stayed /\ Released \in due' => snapshot' = "jailed" \/ Pending(Released)'
  <2>1. CASE now = "free"
    <3>1. Released \in due' => Released \in due
      BY <1>1, <2>1, WhatIsNews DEF NowDue
    <3>2. snapshot = "jailed" => Released \in says
      BY <2>1, WhatIsNews DEF Unprimed
    <3> QED
      BY <1>7, <1>8, <3>1, <3>2 DEF WatchInv, NewsIsPending
  <2>2. CASE now # "free"
    BY <1>1, <2>2 DEF Members, WatchInv, NeverOut
  <2> QED
    BY <2>1, <2>2
<1>12. NewsIsPending'
  BY <1>1, <1>9, <1>10, <1>11 DEF NewsIsPending, Gone, Jailed, Released
<1> QED
  BY <1>4, <1>6, <1>12 DEF WatchInv

LEMMA WatchInvIsInductive == WatchInv /\ [WatchNext]_watchVars => WatchInv'
<1> SUFFICES ASSUME WatchInv, [WatchNext]_watchVars
             PROVE  WatchInv'
  OBVIOUS
<1>1. ASSUME NEW l \in Loops, List(l) PROVE WatchInv'
  <2> DEFINE w == [Resting EXCEPT !.at = "heard", !.heard = member]
  <2>1. /\ watcher' = [watcher EXCEPT ![l] = w] /\ watcher[l].says = {} /\ member \in Members
        /\ UNCHANGED <<member, snapshot, told, starts, stayed, due>>
    BY <1>1 DEF List, WatchInv, HandsAreFree, WatchTypeOK
  <2>2. w \in SetWatchers /\ w.at = "heard" /\ w.heard = member /\ w.says = {}
    BY <2>1, WatchersAreTyped
  <2> HIDE DEF w
  <2>3. \A j \in Loops : watcher'[j] = IF j = l THEN w ELSE watcher[j]
    BY <2>1 DEF WatchInv, WatchTypeOK
  <2>4. WatchTypeOK'
    BY <2>1, <2>2 DEF WatchInv, WatchTypeOK
  <2>5. NeverOut' /\ HandsAreFree'
    BY <2>1, <2>2, <2>3 DEF WatchInv, NeverOut, HandsAreFree
  <2>6. \A m : Pending(m) => Pending(m)'
    BY <2>1, StaysPending DEF WatchInv
  <2>7. NewsIsPending'
    BY <2>1, <2>6 DEF WatchInv, NewsIsPending, Gone, Jailed, Released
  <2> QED
    BY <2>4, <2>5, <2>7 DEF WatchInv
<1>2. ASSUME NEW l \in Loops, Tell(l) PROVE WatchInv'
  <2>1. /\ watcher' = [watcher EXCEPT ![l] = Resting] /\ due' = due \ watcher[l].says
        /\ told' \subseteq News
        /\ UNCHANGED <<member, snapshot, starts, stayed>>
    BY <1>2 DEF Tell, WatchInv, WatchTypeOK
  <2>2. \A j \in Loops : watcher'[j] = IF j = l THEN Resting ELSE watcher[j]
    BY <2>1 DEF WatchInv, WatchTypeOK
  <2>3. WatchTypeOK'
    BY <2>1, WatchersAreTyped DEF WatchInv, WatchTypeOK
  <2>4. NeverOut' /\ HandsAreFree'
    <3>1. /\ Resting.says = {} /\ Resting.at = "idle" /\ Resting.heard # "out"
          /\ Resting.at # "heard"
      BY DEF Resting, Unprimed
    <3>2. NeverOut'
      BY <2>1, <2>2, <3>1 DEF WatchInv, NeverOut
    <3>3. HandsAreFree'
      BY <2>2, <3>1 DEF WatchInv, HandsAreFree
    <3> QED
      BY <3>2, <3>3
  <2>5. \A m : Pending(m) /\ m \notin watcher[l].says => Pending(m)'
    BY <2>1, StaysPending DEF WatchInv
  <2>6. NewsIsPending'
    BY <2>1, <2>5 DEF WatchInv, NewsIsPending, Gone, Jailed, Released
  <2> QED
    BY <2>3, <2>4, <2>6 DEF WatchInv
<1>3. CASE WatchRestart
  <2>1. /\ snapshot' = Unprimed /\ watcher' = [l \in Loops |-> Resting] /\ due' = {}
        /\ starts' \in 0 .. MaxStarts
        /\ UNCHANGED <<member, told, stayed>>
    BY <1>3, WatchAssumption DEF WatchRestart, WatchInv, WatchTypeOK
  <2> QED
    BY <2>1, WatchersAreTyped
       DEF WatchInv, WatchTypeOK, NeverOut, HandsAreFree, NewsIsPending, Unprimed
<1>4. CASE ChangeMember
  <2>1. /\ member' \in Members /\ stayed' \in BOOLEAN /\ (stayed' => stayed /\ member' # "out")
        /\ UNCHANGED <<snapshot, watcher, told, starts, due>>
    BY <1>4 DEF ChangeMember, WatchInv, WatchTypeOK
  <2>2. \A m : Pending(m)' <=> Pending(m)
    BY <2>1 DEF Pending
  <2> QED
    BY <2>1, <2>2 DEF WatchInv, WatchTypeOK, NeverOut, HandsAreFree, NewsIsPending, Gone, Jailed, Released
<1>5. CASE UNCHANGED watchVars
  BY <1>5 DEF watchVars, WatchInv, WatchTypeOK, NeverOut, HandsAreFree, NewsIsPending, Pending,
              Gone, Jailed, Released
<1> QED
  BY <1>1, <1>2, <1>3, <1>4, <1>5, SwapKeepsNews DEF WatchNext, WatchRound

LEMMA WatchInvAtFirst == WatchInit => WatchInv
<1> SUFFICES ASSUME WatchInit
             PROVE  WatchInv
  OBVIOUS
<1>1. WatchTypeOK
  <2>1. (member # "out") \in BOOLEAN /\ 0 \in 0 .. MaxStarts
    BY WatchAssumption
  <2> QED
    BY <2>1, WatchersAreTyped DEF WatchInit, WatchTypeOK
<1> QED
  BY <1>1, WatchersAreTyped
     DEF WatchInit, WatchInv, NeverOut, HandsAreFree, NewsIsPending, Unprimed

(* Type invariant of set-watch.                                            *)
THEOREM WatchTyped == WatchSpec => []WatchTypeOK
<1>1. WatchInv => WatchTypeOK
  BY DEF WatchInv
<1> QED
  BY <1>1, WatchInvAtFirst, WatchInvIsInductive, PTL DEF WatchSpec

(* Two overlapping rounds of set-watch drop no news: property              *)
(* NewsIsPending, for any number of changes and restarts.                  *)
THEOREM NewsIsNeverDropped == WatchSpec => []NewsIsPending
<1>1. WatchInv => NewsIsPending
  BY DEF WatchInv
<1> QED
  BY <1>1, WatchInvAtFirst, WatchInvIsInductive, PTL DEF WatchSpec
=============================================================================
