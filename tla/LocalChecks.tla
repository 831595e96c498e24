---------------------------- MODULE LocalChecks ----------------------------
(***************************************************************************)
(* internal/monitor/local.go: what a sidecar sees of its node's home       *)
(* directory, and the alerts about its disk and its signer state file.     *)
(*                                                                         *)
(* A round of probeLocal asks the disk, then reads the file; each sees     *)
(* the world of its own moment.  A reload may replace the node's record    *)
(* during the round: it goes on with the old one, and what it raises or    *)
(* resolves still reaches the engine.  Nodes share nothing; one is         *)
(* modelled.  An alert opens and closes at the engine at once (see         *)
(* Daemon).                                                                *)
(*                                                                         *)
(* disk-low, disk-inodes, disk-filling and disk-readonly compare a         *)
(* measurement with one threshold to raise and one to resolve; `Levels`    *)
(* names them, and a level is bad, good or neither (between the            *)
(* thresholds, or not known).  Whether the height has stood still for      *)
(* signer_stall_minutes while the chain went on is drawn anew at each read.*)
(***************************************************************************)
EXTENDS Naturals

CONSTANTS
  Levels,          (* the alerts that compare a measurement                *)
  MaxHeight,       (* bound on the height in the state file                *)
  MaxRebuilds      (* bound on reloads and restarts                        *)

FileAlerts == {"signer-state", "signer-corrupt", "signer-regressed", "signer-stalled"}

ASSUME LocalAssumption ==
  /\ Levels \cap (FileAlerts \cup {"disk-error"}) = {}
  /\ MaxHeight \in Nat /\ MaxRebuilds \in Nat

VARIABLES
  statfs,    (* does the filesystem answer?                                *)
  level,     (* what each measurement says                                 *)
  file,      (* what a read of the state file gives                        *)
  height,    (* the height in it, if it is good                            *)
  rec,       (* the node's record                                          *)
  round,     (* which check comes next, and on which record                *)
  open,      (* the alerts the engine holds open                           *)
  rebuilds   (* how often the record was replaced                          *)

homeVars == <<statfs, level, file, height>>
localVars == <<homeVars, rec, round, open, rebuilds>>

Heights == 0 .. MaxHeight
Alerts == Levels \cup FileAlerts \cup {"disk-error"}

(* The counts of failures in a row are only compared with 2.               *)
Counts == 0 .. 2

Records == [diskErrs : Counts, signBad : Counts, signerMax : Heights,
            signerHeight : Heights, alarm : SUBSET Alerts]

Fresh == [diskErrs |-> 0, signBad |-> 0, signerMax |-> 0,
          signerHeight |-> 0, alarm |-> {}]

(* The record of a round is the node's, or the one a reload took away      *)
(* after the round took the list of nodes.                                 *)
Rounds == [next : {"disk", "file"}, stale : BOOLEAN, old : Records]
NoRound == [next |-> "disk", stale |-> FALSE, old |-> Fresh]

TypeOK ==
  /\ statfs \in BOOLEAN
  /\ level \in [Levels -> {"bad", "between", "good"}]
  /\ file \in {"good", "corrupt", "missing", "io-error"}
  /\ height \in Heights
  /\ rec \in Records
  /\ round \in Rounds
  /\ open \subseteq Alerts
  /\ rebuilds \in 0 .. MaxRebuilds

---------------------------------------------------------------------------
(* Raising and resolving                                                   *)

(* Variant: the count is set, not raised.                                  *)
CountedOnce(n) == 1

Counted(n) == IF n = 2 THEN 2 ELSE n + 1

Highest(g, h) == IF g < h THEN h ELSE g

(* An alert is raised unless the latch or the engine remembers it.         *)
New(r, raise) == raise \ (r.alarm \cup open)

(* Variant: only the latch remembers what to clear.                        *)
DoneOfLatch(r, clear) == clear \cap r.alarm

(* An alert is cleared if the latch or the engine remembers it; for        *)
(* signer-stalled only the latch does.                                     *)
Done(r, clear) == clear \cap (r.alarm \cup (open \ {"signer-stalled"}))

Latched(r, raise, clear) ==
  [r EXCEPT !.alarm = (@ \cup New(r, raise)) \ Done(r, clear)]
Opened(r, raise, clear) == (open \cup New(r, raise)) \ Done(r, clear)

(* The record this round works on.                                         *)
Mine == IF round.stale THEN round.old ELSE rec

---------------------------------------------------------------------------
(* probeDisk                                                               *)

Learn(r, raise, clear) ==
  LET learnt == Latched(r, raise, clear)
  IN  /\ rec' = IF round.stale THEN rec ELSE learnt
      /\ round' = [round EXCEPT !.next = "file",
                                !.old = IF round.stale THEN learnt ELSE @]
      /\ open' = Opened(r, raise, clear)

DiskFails ==
  LET r == [Mine EXCEPT !.diskErrs = Counted(@)]
  IN  /\ ~ statfs
      /\ Learn(r, {a \in {"disk-error"} : r.diskErrs = 2}, {})

Measured(says) == {l \in Levels : level[l] = says}

DiskAnswers ==
  /\ statfs
  /\ Learn([Mine EXCEPT !.diskErrs = 0],
           Measured("bad"), Measured("good") \cup {"disk-error"})

ProbeDisk ==
  /\ round.next = "disk"
  /\ DiskFails \/ DiskAnswers
  /\ UNCHANGED <<homeVars, rebuilds>>

---------------------------------------------------------------------------
(* probeSignerFile                                                         *)

(* The round ends.  What a stale one learned is lost with its record.      *)
Leave(r, raise, clear) ==
  /\ rec' = IF round.stale THEN rec ELSE Latched(r, raise, clear)
  /\ open' = Opened(r, raise, clear)
  /\ round' = NoRound

(* An I/O error is the disk's, at once; a missing file is an alert of its  *)
(* own.                                                                    *)
ReadFails ==
  /\ file \in {"io-error", "missing"}
  /\ Leave(Mine, IF file = "missing" THEN {"signer-state"} ELSE {"disk-error"}, {})

ReadIsCorrupt ==
  LET r == [Mine EXCEPT !.signBad = Counted(@)]
  IN  /\ file = "corrupt"
      /\ Leave(r, {a \in {"signer-corrupt"} : r.signBad = 2}, {})

(* Variant: back is whatever is not below the last height.                 *)
BackAtLast(r, h) == r.signerMax > 0 /\ h >= r.signerHeight

(* The height is not below any the record has seen.                        *)
Back(r, h) == r.signerMax > 0 /\ h >= r.signerMax

Regressed(r, h) == r.signerMax > 0 /\ h < r.signerMax

(* updateSigner: the record's heights.                                     *)
Seen(r, h) ==
  [r EXCEPT !.signerMax = Highest(@, h), !.signerHeight = h, !.signBad = 0]

(* A change of the height restarts the clock, and a node that never signed *)
(* has nothing to stall.                                                   *)
MayStall(r, h) == h = r.signerHeight /\ r.signerMax > 0

ReadIsGood ==
  /\ file = "good"
  /\ \E stalled \in {FALSE, MayStall(Mine, height)} :
       Leave(Seen(Mine, height),
             {a \in {"signer-regressed"} : Regressed(Mine, height)}
               \cup {a \in {"signer-stalled"} : stalled},
             {"signer-corrupt", "signer-state"}
               \cup {a \in {"signer-regressed"} : Back(Mine, height)}
               \cup {a \in {"signer-stalled"} : ~ stalled})

ProbeSignerFile ==
  /\ round.next = "file"
  /\ ReadFails \/ ReadIsCorrupt \/ ReadIsGood
  /\ UNCHANGED <<homeVars, rebuilds>>

---------------------------------------------------------------------------
(* Reloads, restarts and the world                                         *)

(* Chain.Update.  A round that has not asked the disk may have taken the   *)
(* list of nodes already: it probes the node over the network first.       *)
Reload ==
  /\ rebuilds < MaxRebuilds
  /\ rebuilds' = rebuilds + 1
  /\ rec' = Fresh
  /\ \E begun \in {TRUE, round.next = "file" \/ round.stale} :
       round' = IF begun THEN [round EXCEPT !.stale = TRUE, !.old = Mine] ELSE round
  /\ UNCHANGED <<homeVars, open>>

(* A new process starts with the open alerts the state file kept.          *)
Restart ==
  /\ rebuilds < MaxRebuilds
  /\ rebuilds' = rebuilds + 1
  /\ rec' = Fresh /\ round' = NoRound
  /\ UNCHANGED <<homeVars, open>>

ChangeDisk ==
  /\ statfs' \in BOOLEAN
  /\ level' \in [Levels -> {"bad", "between", "good"}]
  /\ UNCHANGED <<file, height, rec, round, open, rebuilds>>

(* The node signs, or somebody copies, restores, damages or removes the    *)
(* file.                                                                   *)
ChangeFile ==
  /\ file' \in {"good", "corrupt", "missing", "io-error"}
  /\ height' \in IF file' = "good" THEN Heights ELSE {0}
  /\ UNCHANGED <<statfs, level, rec, round, open, rebuilds>>

Init ==
  /\ statfs = TRUE /\ level = [l \in Levels |-> "between"]
  /\ file = "good" /\ height = 0
  /\ rec = Fresh /\ round = NoRound
  /\ open = {}
  /\ rebuilds = 0

Next ==
  \/ ProbeDisk
  \/ ProbeSignerFile
  \/ Reload
  \/ Restart
  \/ ChangeDisk
  \/ ChangeFile

Spec == Init /\ [][Next]_localVars

(* healthLoop calls probeLocal at every tick of its ticker.                *)
FairSpec == Spec /\ WF_localVars(ProbeDisk \/ ProbeSignerFile)

---------------------------------------------------------------------------
(* Properties                                                              *)

(* The double-sign tripwire: while the height last read from the state     *)
(* file is below one read before, signer-regressed is open, whatever was   *)
(* unreadable, reloaded or resolved by an older round in between.          *)
RegressionIsOpen ==
  rec.signerHeight < rec.signerMax => "signer-regressed" \in open

(* A failure that lasts ends up open at the engine, although two in a row  *)
(* are needed for some, and reloads and restarts forget the first.         *)
FailureIsPaged ==
  /\ <>[](~ statfs) => <>[]("disk-error" \in open)
  /\ <>[](file = "missing") => <>[]("signer-state" \in open)
  /\ <>[](file = "corrupt") => <>[]("signer-corrupt" \in open)
  /\ \A l \in Levels : <>[](statfs /\ level[l] = "bad") => <>[](l \in open)

(* A failure that is over for good ends up closed, also after a restart    *)
(* that forgot the latch.                                                  *)
RecoveryResolves ==
  /\ <>[](file = "good") => <>[](open \cap {"signer-state", "signer-corrupt"} = {})
  /\ <>[](statfs /\ file # "io-error") => <>[]("disk-error" \notin open)
  /\ \A l \in Levels : <>[](statfs /\ level[l] = "good") => <>[](l \notin open)
=============================================================================
