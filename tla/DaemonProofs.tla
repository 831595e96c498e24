---------------------------- MODULE DaemonProofs ----------------------------
(***************************************************************************)
(* Proofs about Daemon, for any keys, channels, goroutines, styles of      *)
(* alert and number of starts.                                             *)
(*                                                                         *)
(* KnowsOpenIncidents is nearly inductive: it says what the engine must    *)
(* know while it runs and what the file must know while it does not.  What *)
(* it lacks are the types, which say that a time in the file is one of the *)
(* past: an incident that Restore would drop for its age is what a restart *)
(* would forget, so the clock is bounded by MaxAge here.                   *)
(*                                                                         *)
(* From KnowsOpenIncidents follows that the daemon implements              *)
(* DurableLedger: the engine's own refinement of PagerLedger gives the     *)
(* step, and the invariant says that what the engine has open is what the  *)
(* channel was told.                                                       *)
(***************************************************************************)
EXTENDS Daemon, AlertEngineProofs

DiskRecords == [sent : [Dests -> [Keys -> Stamps]], silences : [Silences -> SilenceRecords]]

(* Every variable keeps its type.                                          *)
LEMMA SnapshotTyped == ASSUME TypeOK PROVE Snapshot \in DiskRecords
  BY DEF TypeOK, Snapshot, DiskRecords

LEMMA BootTyped == ASSUME DaemonTypeOK, Boot PROVE TypeOK'
<1>1. sent' \in [Dests -> [Keys -> Stamps]]
  BY DEF Boot, Restored, DaemonTypeOK, Stamps
<1>2. silences' \in [Silences -> SilenceRecords]
  <2>1. NoSilence \in SilenceRecords
    BY EngineAssumption DEF NoSilence, SilenceRecords, Times
  <2> QED
    BY <2>1 DEF Boot, Kept, DaemonTypeOK
<1>3. flapped' \in [Dests -> [Keys -> Stamps]]
  BY DEF Boot, Stamps
<1>4. go' \in [Threads -> Routines]
  BY IdleTyped DEF Boot
<1>5. wire' \in [Messages -> Nat]
  BY DEF Boot, NoMessages
<1> QED
  BY <1>1, <1>2, <1>3, <1>4, <1>5 DEF Boot, DaemonTypeOK, TypeOK

LEMMA EngineStaysTyped == ASSUME DaemonTypeOK, [DaemonNext]_daemonVars PROVE TypeOK'
<1>1. TypeOK
  BY DEF DaemonTypeOK
<1>2. CASE EngineStep
  <2>1. [Next]_vars
    BY <1>2 DEF EngineStep, Next
  <2> QED
    BY <1>1, <2>1, NextTyped
<1>3. ASSUME NEW t \in Monitors, NEW k \in Keys, Evaluate(t, k) PROVE TypeOK'
  <2>1. (~ bad[k]) \in BOOLEAN /\ Submit(t, k, ~ bad[k])
    BY <1>3 DEF Evaluate
  <2>2. Next
    BY <2>1 DEF Next
  <2> QED
    BY <1>1, <2>2, NextTyped
<1>4. ASSUME NEW k \in Keys, NEW ds \in SUBSET Dests, NEW rebuilt \in BOOLEAN,
             Reload(k, ds, rebuilt)
      PROVE  TypeOK'
  <2>1. Next
    BY <1>4 DEF Reload, Next
  <2> QED
    BY <1>1, <2>1, NextTyped
<1>5. CASE TimePasses
  <2>1. Next
    BY <1>5 DEF TimePasses, Next
  <2> QED
    BY <1>1, <2>1, NextTyped
<1>6. CASE Save \/ Stop \/ Crash \/ (\E k \in Keys : Flip(k)) \/ UNCHANGED daemonVars
  <2>1. UNCHANGED vars
    BY <1>6 DEF Save, Stop, Crash, Flip, daemonVars
  <2> QED
    BY <1>1, <2>1, NextTyped
<1>7. CASE Boot
  BY <1>7, BootTyped
<1> QED
  BY <1>2, <1>3, <1>4, <1>5, <1>6, <1>7 DEF DaemonNext

LEMMA DaemonTypeIsInductive == DaemonTypeOK /\ [DaemonNext]_daemonVars => DaemonTypeOK'
<1> SUFFICES ASSUME DaemonTypeOK, [DaemonNext]_daemonVars PROVE DaemonTypeOK'
  OBVIOUS
<1>1. TypeOK /\ TypeOK'
  BY EngineStaysTyped DEF DaemonTypeOK
<1>2. Snapshot \in DiskRecords
  BY <1>1, SnapshotTyped
<1>3. CASE EngineStep
  <2>1. incident' \in [Dests -> [Keys -> BOOLEAN]]
    BY <1>3 DEF EngineStep, Tell, DaemonTypeOK, Open
  <2> QED
    BY <1>1, <1>3, <2>1 DEF EngineStep, worldVars, DaemonTypeOK
<1>4. ASSUME NEW t \in Monitors, NEW k \in Keys, Evaluate(t, k) PROVE DaemonTypeOK'
  BY <1>1, <1>4 DEF Evaluate, DaemonTypeOK
<1>5. ASSUME NEW k \in Keys, NEW ds \in SUBSET Dests, NEW rebuilt \in BOOLEAN,
             Reload(k, ds, rebuilt)
      PROVE  DaemonTypeOK'
  BY <1>1, <1>5 DEF Reload, DaemonTypeOK
<1>6. CASE Save \/ Stop
  BY <1>1, <1>2, <1>6 DEF Save, Stop, DaemonTypeOK, DiskRecords
<1>7. CASE Crash
  <2>1. Unsaved \subseteq Dests \X Keys
    BY DEF Unsaved
  <2> QED
    BY <1>1, <1>7, <2>1 DEF Crash, DaemonTypeOK
<1>8. CASE Boot
  <2>1. starts' \in 1 .. MaxStarts
    BY <1>8, DaemonAssumption DEF Boot, DaemonTypeOK
  <2>2. latch' \in [Keys -> BOOLEAN] /\ phase' \in {"running", "down", "panicked"}
    BY <1>8 DEF Boot
  <2> QED
    BY <1>1, <1>8, <2>1, <2>2 DEF Boot, DaemonTypeOK
<1>9. ASSUME NEW k \in Keys, Flip(k) PROVE DaemonTypeOK'
  BY <1>1, <1>9 DEF Flip, DaemonTypeOK
<1>10. CASE TimePasses
  BY <1>1, <1>10 DEF TimePasses, worldVars, DaemonTypeOK
<1>11. CASE UNCHANGED daemonVars
  BY <1>1, <1>11 DEF daemonVars, worldVars, DaemonTypeOK
<1> QED
  BY <1>3, <1>4, <1>5, <1>6, <1>7, <1>8, <1>9, <1>10, <1>11 DEF DaemonNext

LEMMA DaemonTypeAtFirst == DaemonInit => DaemonTypeOK
<1> SUFFICES ASSUME DaemonInit PROVE DaemonTypeOK
  OBVIOUS
<1>1. TypeOK
  BY InitTyped DEF DaemonInit
<1>2. disk \in DiskRecords
  BY <1>1, SnapshotTyped DEF DaemonInit
<1>3. starts \in 1 .. MaxStarts
  BY DaemonAssumption DEF DaemonInit
<1> QED
  BY <1>1, <1>2, <1>3 DEF DaemonInit, DaemonTypeOK, DiskRecords

THEOREM DaemonTyped == DaemonSpec => []DaemonTypeOK
  BY DaemonTypeAtFirst, DaemonTypeIsInductive, PTL DEF DaemonSpec

(* What a start makes of the file: nothing in it is too old.               *)
LEMMA NothingIsDropped ==
  ASSUME DaemonTypeOK, MaxTime <= MaxAge, NEW d \in Dests, NEW k \in Keys
  PROVE  Restored[d][k] = disk.sent[d][k]
<1>1. Saved(d, k) => ~ Stale(d, k)
  <2>1. disk.sent[d][k] \in Stamps /\ now \in Times
    BY DEF DaemonTypeOK, TypeOK
  <2> QED
    BY <2>1, EngineAssumption, DaemonAssumption DEF Saved, Stale, Stamps, Times
<1> QED
  BY <1>1 DEF Restored, Saved

LEMMA KnowledgeIsInductive ==
  ASSUME MaxTime <= MaxAge
  PROVE  DaemonTypeOK /\ KnowsOpenIncidents /\ [DaemonNext]_daemonVars => KnowsOpenIncidents'
<1> SUFFICES ASSUME DaemonTypeOK, KnowsOpenIncidents, [DaemonNext]_daemonVars,
                    NEW d \in Dests, NEW k \in Keys, <<d, k>> \notin lost'
             PROVE  incident'[d][k] <=> IF phase' = "running" THEN Open(d, k)' ELSE Saved(d, k)'
  BY Zenon DEF KnowsOpenIncidents
<1>1. /\ <<d, k>> \notin lost
         => (incident[d][k] <=> IF phase = "running" THEN Open(d, k) ELSE Saved(d, k))
      /\ incident[d][k] \in BOOLEAN
  BY DEF KnowsOpenIncidents, DaemonTypeOK
<1>2. CASE EngineStep
  <2>1. incident'[d][k] = IF Open(d, k)' = Open(d, k) THEN incident[d][k] ELSE Open(d, k)'
    BY <1>2 DEF EngineStep, Tell
  <2>2. lost' = lost /\ phase' = "running" /\ phase = "running"
    BY <1>2 DEF EngineStep, worldVars
  <2> QED
    BY <1>1, <2>1, <2>2 DEF Open
<1>3. ASSUME NEW t \in Monitors, NEW key \in Keys, Evaluate(t, key)
      PROVE  incident'[d][k] <=> IF phase' = "running" THEN Open(d, k)' ELSE Saved(d, k)'
  BY <1>1, <1>3 DEF Evaluate, Submit, Open, Saved
<1>4. ASSUME NEW key \in Keys, NEW ds \in SUBSET Dests, NEW rebuilt \in BOOLEAN,
             Reload(key, ds, rebuilt)
      PROVE  incident'[d][k] <=> IF phase' = "running" THEN Open(d, k)' ELSE Saved(d, k)'
  BY <1>1, <1>4 DEF Reload, Reroute, Open, Saved
<1>5. CASE Save
  BY <1>1, <1>5 DEF Save, vars, Open, Saved
<1>6. CASE Stop
  <2>1. Saved(d, k)' = Open(d, k)
    BY <1>6 DEF Stop, Snapshot, Saved, Open
  <2> QED
    BY <1>1, <1>6, <2>1 DEF Stop
<1>7. CASE Crash
  <2>1. <<d, k>> \notin lost /\ <<d, k>> \notin Unsaved
    BY <1>7 DEF Crash
  <2>2. Open(d, k) = Saved(d, k)
    BY <2>1 DEF Unsaved, Open, Saved
  <2> QED
    BY <1>1, <1>7, <2>1, <2>2 DEF Crash, Saved
<1>8. CASE Boot
  <2>1. Restored[d][k] = disk.sent[d][k]
    BY NothingIsDropped
  <2>2. Open(d, k)' = Saved(d, k) /\ Saved(d, k)' = Saved(d, k)
    BY <1>8, <2>1 DEF Boot, Open, Saved
  <2> QED
    BY <1>1, <1>8, <2>2 DEF Boot
<1>9. ASSUME NEW key \in Keys, Flip(key)
      PROVE  incident'[d][k] <=> IF phase' = "running" THEN Open(d, k)' ELSE Saved(d, k)'
  BY <1>1, <1>9 DEF Flip, vars, Open, Saved
<1>10. CASE TimePasses
  BY <1>1, <1>10 DEF TimePasses, Tick, worldVars, Open, Saved
<1>11. CASE UNCHANGED daemonVars
  BY <1>1, <1>11 DEF daemonVars, worldVars, vars, Open, Saved
<1> QED
  BY <1>2, <1>3, <1>4, <1>5, <1>6, <1>7, <1>8, <1>9, <1>10, <1>11 DEF DaemonNext

(* README.md:292: open alerts persist across restarts.  Engine and state   *)
(* file know which incidents the channels have open, whatever Dispatch     *)
(* calls, saves, stops, crashes and reloads interleave, as long as no      *)
(* alert is older than the 24 h that Restore keeps one for.                *)
THEOREM IncidentsAreKnown ==
  ASSUME MaxTime <= MaxAge
  PROVE  DaemonSpec => []KnowsOpenIncidents
<1>1. DaemonInit => KnowsOpenIncidents
  <2> SUFFICES ASSUME DaemonInit, NEW d \in Dests, NEW k \in Keys
               PROVE  incident[d][k] <=> IF phase = "running" THEN Open(d, k) ELSE Saved(d, k)
    BY Zenon DEF KnowsOpenIncidents
  <2>1. phase = "running" /\ incident[d][k] = FALSE /\ sent[d][k] = Never
    BY DEF DaemonInit, Init
  <2> QED
    BY <2>1 DEF Open
<1>2. DaemonTypeOK /\ KnowsOpenIncidents /\ [DaemonNext]_daemonVars => KnowsOpenIncidents'
  BY KnowledgeIsInductive
<1> QED
  BY <1>1, <1>2, DaemonTyped, PTL DEF DaemonSpec

(***************************************************************************)
(* The daemon implements the durable ledger.                               *)
(***************************************************************************)
ToldKeys == [d \in Dests |-> {k \in Keys : incident[d][k]}]
SavedKeys == [d \in Dests |-> {k \in Keys : Saved(d, k)}]

LedgerStutters == UNCHANGED <<phase, ToldKeys, SavedKeys, lost, wire>>

(* The ledgers name the same messages as the engine.                       *)
LEMMA SameMessages ==
  /\ Durable!Messages = Messages /\ Ledger!Messages = Messages
  /\ Durable!Contexts = Contexts /\ Ledger!Contexts = Contexts
  /\ Durable!NoMessages = NoMessages
  BY DEF Messages, Durable!Messages, Ledger!Messages, Whats, Durable!Whats, Ledger!Whats,
         Contexts, Durable!Contexts, Ledger!Contexts, NoMessages, Durable!NoMessages

LEMMA SameAdding ==
  ASSUME NEW d \in Dests, NEW k \in Keys, NEW w, NEW c
  PROVE  Durable!Add(wire, {Durable!NewMessage(d, k, w, c)})
           = Ledger!Add(wire, {Ledger!NewMessage(d, k, w, c)})
  BY SameMessages DEF Durable!Add, Ledger!Add, Durable!NewMessage, Ledger!NewMessage

(* The ledger's sets are what the daemon's state says of a key.            *)
LEMMA KeysTold ==
  ASSUME NEW d \in Dests, NEW k \in Keys
  PROVE  /\ k \in ToldKeys[d] <=> incident[d][k]
         /\ k \in SavedKeys[d] <=> Saved(d, k)
         /\ k \in OpenKeys[d] <=> Open(d, k)
  BY DEF ToldKeys, SavedKeys, OpenKeys

LEMMA SameIncidentsSameTold == ASSUME incident' = incident PROVE ToldKeys' = ToldKeys
  BY DEF ToldKeys

LEMMA SameDiskSameSaved == ASSUME disk' = disk PROVE SavedKeys' = SavedKeys
  BY DEF SavedKeys, Saved

(* A running process knows what a channel was told, but for what was lost. *)
LEMMA RunningKnows ==
  ASSUME KnowsOpenIncidents, phase = "running", NEW d \in Dests, NEW k \in Keys
  PROVE  <<d, k>> \in lost \/ (k \in ToldKeys[d] <=> k \in OpenKeys[d])
<1>1. <<d, k>> \in lost \/ (incident[d][k] <=> Open(d, k))
  BY DEF KnowsOpenIncidents
<1> QED
  BY <1>1, KeysTold, Zenon

(* What a channel was told changes as what the engine holds open does.     *)
LEMMA TellFollows ==
  ASSUME DaemonTypeOK, Tell, NEW d \in Dests, NEW k \in Keys
  PROVE  k \in ToldKeys'[d] <=> IF k \in OpenKeys'[d] <=> k \in OpenKeys[d]
                                THEN k \in ToldKeys[d] ELSE k \in OpenKeys'[d]
<1>1. incident'[d][k] = IF Open(d, k)' = Open(d, k) THEN incident[d][k] ELSE Open(d, k)'
  BY DEF Tell
<1>2. k \in ToldKeys'[d] <=> incident'[d][k]
  BY DEF ToldKeys
<1>3. k \in OpenKeys'[d] <=> Open(d, k)'
  BY DEF OpenKeys, Open
<1>4. Open(d, k) \in BOOLEAN /\ Open(d, k)' \in BOOLEAN
  BY DEF Open
<1> QED
  BY <1>1, <1>2, <1>3, <1>4, KeysTold, Zenon

LEMMA EngineStepIsDurable ==
  ASSUME DaemonTypeOK, KnowsOpenIncidents, EngineStep
  PROVE  Durable!Next \/ LedgerStutters
<1>1. /\ phase = "running" /\ Tell /\ UNCHANGED <<phase, lost>>
      /\ UNCHANGED SavedKeys
  BY SameDiskSameSaved DEF EngineStep, worldVars
<1>2. TypeOK /\ [Next]_vars
  BY DEF EngineStep, Next, DaemonTypeOK
<1>3. Ledger!Next \/ (OpenKeys' = OpenKeys /\ wire' = wire)
  BY <1>2, NextIsALedgerStep
<1>4. ASSUME OpenKeys' = OpenKeys PROVE ToldKeys' = ToldKeys
  <2>1. \A d \in Dests, k \in Keys : k \in ToldKeys'[d] <=> k \in ToldKeys[d]
    BY <1>1, <1>4, TellFollows
  <2> QED
    BY <2>1 DEF ToldKeys
<1>5. CASE OpenKeys' = OpenKeys /\ wire' = wire
  BY <1>1, <1>4, <1>5 DEF LedgerStutters
<1>6. ASSUME NEW d \in Dests, NEW k \in Keys, NEW c \in Contexts,
             Ledger!Page(d, k, c) \/ Ledger!Clear(d, k, c)
      PROVE  Durable!Page(d, k, c) \/ Durable!Clear(d, k, c)
  <2>1. <<d, k>> \in lost \/ (k \in ToldKeys[d] <=> k \in OpenKeys[d])
    BY <1>1, RunningKnows
  <2>2. CASE Ledger!Page(d, k, c)
    <3>1. /\ k \notin OpenKeys[d] /\ OpenKeys' = [OpenKeys EXCEPT ![d] = @ \cup {k}]
          /\ wire' = Ledger!Add(wire, {Ledger!NewMessage(d, k, "raise", c)})
      BY <2>2 DEF Ledger!Page, OpenKeys
    <3>2. \A e \in Dests, j \in Keys :
            j \in OpenKeys'[e] <=> j \in OpenKeys[e] \/ (e = d /\ j = k)
      BY <3>1 DEF OpenKeys
    <3>3. \A e \in Dests, j \in Keys :
            j \in ToldKeys'[e] <=> j \in ToldKeys[e] \/ (e = d /\ j = k)
      BY <1>1, <3>1, <3>2, TellFollows, Zenon
    <3>4. ToldKeys' = [ToldKeys EXCEPT ![d] = @ \cup {k}]
      BY <3>3 DEF ToldKeys
    <3>5. wire' = Durable!Add(wire, {Durable!NewMessage(d, k, "raise", c)})
      BY <3>1, SameAdding
    <3> QED
      BY <1>1, <2>1, <3>1, <3>4, <3>5 DEF Durable!Page, Durable!Lost, ToldKeys, SavedKeys
  <2>3. CASE Ledger!Clear(d, k, c)
    <3>1. /\ k \in OpenKeys[d] /\ OpenKeys' = [OpenKeys EXCEPT ![d] = @ \ {k}]
          /\ wire' = Ledger!Add(wire, {Ledger!NewMessage(d, k, "resolve", c)})
      BY <2>3 DEF Ledger!Clear, OpenKeys
    <3>2. \A e \in Dests, j \in Keys :
            j \in OpenKeys'[e] <=> j \in OpenKeys[e] /\ ~ (e = d /\ j = k)
      BY <3>1 DEF OpenKeys
    <3>3. \A e \in Dests, j \in Keys :
            j \in ToldKeys'[e] <=> j \in ToldKeys[e] /\ ~ (e = d /\ j = k)
      BY <1>1, <3>1, <3>2, TellFollows, Zenon
    <3>4. ToldKeys' = [ToldKeys EXCEPT ![d] = @ \ {k}]
      BY <3>3 DEF ToldKeys
    <3>5. wire' = Durable!Add(wire, {Durable!NewMessage(d, k, "resolve", c)})
      BY <3>1, SameAdding
    <3> QED
      BY <1>1, <2>1, <3>1, <3>4, <3>5 DEF Durable!Clear, Durable!Lost, ToldKeys, SavedKeys
  <2> QED
    BY <1>6, <2>2, <2>3
<1>7. CASE Ledger!Remind
  <2>1. OpenKeys' = OpenKeys
    BY <1>7 DEF Ledger!Remind, OpenKeys
  <2>2. ToldKeys' = ToldKeys
    BY <1>4, <2>1
  <2>3. ASSUME NEW m \in Messages, Ledger!IsReminder(m) PROVE Durable!IsReminder(m)
    <3>1. m.dest \in Dests /\ m.key \in Keys /\ m.key \in OpenKeys[m.dest]
      BY <2>3 DEF Messages, Ledger!IsReminder, OpenKeys
    <3>2. <<m.dest, m.key>> \in lost \/ m.key \in ToldKeys[m.dest]
      BY <1>1, <3>1, RunningKnows
    <3> QED
      BY <2>3, <3>2 DEF Ledger!IsReminder, Durable!IsReminder, Durable!Lost, ToldKeys
  <2>4. /\ wire' = [m \in Messages |-> wire'[m]]
        /\ \A m \in Messages : wire'[m] = wire[m] \/ (Ledger!IsReminder(m) /\ wire'[m] = wire[m] + 1)
    BY <1>7, SameMessages DEF Ledger!Remind
  <2>5. \A m \in Messages : wire'[m] = wire[m] \/ (Durable!IsReminder(m) /\ wire'[m] = wire[m] + 1)
    BY <2>3, <2>4, Zenon
  <2>6. Durable!Remind
    BY <1>1, <2>2, <2>4, <2>5, SameMessages DEF Durable!Remind, ToldKeys, SavedKeys
  <2> QED
    BY <2>6 DEF Durable!Next
<1>8. ASSUME NEW m \in Messages, Ledger!Attempt(m) PROVE Durable!Attempt(m)
  <2>1. OpenKeys' = OpenKeys
    BY <1>8 DEF Ledger!Attempt, OpenKeys
  <2>2. ToldKeys' = ToldKeys
    BY <1>4, <2>1
  <2> QED
    BY <1>1, <1>8, <2>2
       DEF Ledger!Attempt, Durable!Attempt, Ledger!Retried, Durable!Retried, ToldKeys, SavedKeys
<1> QED
  BY <1>3, <1>5, <1>6, <1>7, <1>8, SameMessages DEF Ledger!Next, Durable!Next

LEMMA SaveIsDurable ==
  ASSUME DaemonTypeOK, KnowsOpenIncidents, Save \/ Stop
  PROVE  Durable!Save
<1>1. /\ phase = "running" /\ UNCHANGED <<incident, lost, wire>>
      /\ disk'.sent = sent
  BY DEF Save, Stop, Snapshot, vars
<1>2. \A d \in Dests, k \in Keys : k \in SavedKeys'[d] <=> k \in OpenKeys[d]
  BY <1>1 DEF SavedKeys, OpenKeys, Saved, Open
<1>3. \A d \in Dests, k \in Keys : <<d, k>> \in lost \/ (k \in SavedKeys'[d] <=> k \in ToldKeys[d])
  BY <1>1, <1>2, RunningKnows, Zenon
<1>4. SavedKeys' \in [Dests -> SUBSET Keys]
  BY DEF SavedKeys
<1>5. ToldKeys' = ToldKeys
  BY <1>1, SameIncidentsSameTold
<1> QED
  BY <1>1, <1>3, <1>4, <1>5 DEF Durable!Save, Durable!Lost, ToldKeys, SavedKeys

LEMMA CrashIsDurable ==
  ASSUME DaemonTypeOK, KnowsOpenIncidents, Crash
  PROVE  Durable!Die
<1> DEFINE behind == {p \in Dests \X Keys : ~ (p[2] \in ToldKeys[p[1]] <=> p[2] \in SavedKeys[p[1]])}
<1>1. /\ phase = "running" /\ phase' = "down" /\ UNCHANGED <<incident, disk, wire>>
      /\ lost' = lost \cup Unsaved
  BY DEF Crash, vars
<1>2. ASSUME NEW p \in Dests \X Keys, p \notin lost
      PROVE  p \in Unsaved <=> p \in behind
  <2>1. PICK d \in Dests, k \in Keys : p = <<d, k>>
    BY <1>2
  <2>2. k \in ToldKeys[d] <=> k \in OpenKeys[d]
    BY <1>1, <1>2, <2>1, RunningKnows
  <2>3. p \in Unsaved <=> ~ (Open(d, k) <=> Saved(d, k))
    BY <2>1 DEF Unsaved, Open, Saved
  <2>4. p \in behind <=> ~ (k \in ToldKeys[d] <=> k \in SavedKeys[d])
    BY <2>1
  <2> QED
    BY <2>2, <2>3, <2>4, KeysTold, Zenon
<1>3. Unsaved \subseteq Dests \X Keys /\ behind \subseteq Dests \X Keys
  BY DEF Unsaved
<1>4. lost' = lost \cup behind
  <2> HIDE DEF behind
  <2> QED
    BY <1>1, <1>2, <1>3
<1>5. ToldKeys' = ToldKeys /\ SavedKeys' = SavedKeys
  BY <1>1, SameIncidentsSameTold, SameDiskSameSaved
<1> QED
  BY <1>1, <1>4, <1>5 DEF Durable!Die, ToldKeys, SavedKeys

LEMMA DaemonStepIsDurable ==
  ASSUME DaemonTypeOK, KnowsOpenIncidents, [DaemonNext]_daemonVars
  PROVE  Durable!Next \/ LedgerStutters
<1>1. CASE EngineStep
  BY <1>1, EngineStepIsDurable
<1>2. CASE Save \/ Stop
  BY <1>2, SaveIsDurable DEF Durable!Next
<1>3. CASE Crash
  BY <1>3, CrashIsDurable DEF Durable!Next
<1>4. CASE Boot
  <2>1. /\ phase # "running" /\ UNCHANGED <<incident, disk, lost>>
        /\ wire' = Durable!NoMessages
    BY <1>4, SameMessages DEF Boot
  <2>2. ToldKeys' = ToldKeys /\ SavedKeys' = SavedKeys
    BY <2>1, SameIncidentsSameTold, SameDiskSameSaved
  <2>3. Durable!Start
    BY <2>1, <2>2 DEF Durable!Start, ToldKeys, SavedKeys
  <2> QED
    BY <2>3 DEF Durable!Next
<1>5. CASE \/ \E t \in Monitors, k \in Keys : Evaluate(t, k)
           \/ \E k \in Keys, ds \in SUBSET Dests, rebuilt \in BOOLEAN : Reload(k, ds, rebuilt)
           \/ \E k \in Keys : Flip(k)
           \/ TimePasses
           \/ UNCHANGED daemonVars
  <2>1. UNCHANGED <<phase, incident, disk, lost, wire>>
    BY <1>5 DEF Evaluate, Submit, Reload, Reroute, Flip, TimePasses, Tick, daemonVars,
                worldVars, vars
  <2> QED
    BY <2>1, SameIncidentsSameTold, SameDiskSameSaved DEF LedgerStutters
<1> QED
  BY <1>1, <1>2, <1>3, <1>4, <1>5 DEF DaemonNext

(* README.md:292: "a reboot neither double-pages nor forgets to resolve":  *)
(* property ImplementsDurableLedger.  Every step of the daemon is a step   *)
(* of the durable ledger, because a process knows what each channel was    *)
(* told (KnowsOpenIncidents) when it decides to send.                      *)
THEOREM DaemonImplementsDurableLedger ==
  ASSUME MaxTime <= MaxAge
  PROVE  DaemonSpec => ImplementsDurableLedger
<1>1. DaemonInit => Durable!Init
  <2> SUFFICES ASSUME DaemonInit
               PROVE  Durable!Init
    OBVIOUS
  <2>1. /\ phase = "running" /\ lost = {} /\ wire = NoMessages
        /\ \A d \in Dests, k \in Keys : ~ incident[d][k] /\ ~ Saved(d, k)
    BY DEF DaemonInit, Init, Snapshot, Saved
  <2>2. ToldKeys = [d \in Dests |-> {}] /\ SavedKeys = [d \in Dests |-> {}]
    BY <2>1 DEF ToldKeys, SavedKeys
  <2> QED
    BY <2>1, <2>2, SameMessages DEF Durable!Init, ToldKeys, SavedKeys
<1>2. DaemonTypeOK /\ KnowsOpenIncidents /\ [DaemonNext]_daemonVars
        => [Durable!Next]_(Durable!durableVars)
  <2> SUFFICES ASSUME DaemonTypeOK, KnowsOpenIncidents, [DaemonNext]_daemonVars
               PROVE  Durable!Next \/ UNCHANGED Durable!durableVars
    BY Zenon
  <2> QED
    BY DaemonStepIsDurable DEF LedgerStutters, Durable!durableVars, ToldKeys, SavedKeys
<1> QED
  BY <1>1, <1>2, DaemonTyped, IncidentsAreKnown, PTL DEF DaemonSpec, Durable!Spec, ImplementsDurableLedger
=============================================================================
