------------------------------- MODULE Signing -------------------------------
(***************************************************************************)
(* internal/monitor: how one validator's signature is followed block by    *)
(* block, and the alert about consecutive misses.                          *)
(*                                                                         *)
(* The websocket delivers NewBlock and Vote events in the order its node   *)
(* produced them.  Block h carries the commit of height h - 1; a vote may  *)
(* come before or after the block that settles its height.  When the       *)
(* session breaks, the next one may be to a node that is behind (heights   *)
(* come again) or ahead (heights are skipped).  refreshValInfo runs beside *)
(* it without the chain's mutex for most of its way, so a reload may       *)
(* replace the target under its feet.                                      *)
(*                                                                         *)
(* What a block says of the validator is drawn when the chain commits it.  *)
(* An alert opens and closes at the engine at once (see Daemon).           *)
(***************************************************************************)
EXTENDS Integers

CONSTANTS
  ConsecutiveMissed,  (* consecutive_missed                                *)
  MaxHeight,          (* bound on the chain                                *)
  MaxLag,             (* how far behind a node may be that wsLoop dials    *)
  MaxSessions,        (* bound on websocket sessions                       *)
  MaxRebuilds         (* bound on reloads and restarts                     *)

ASSUME SigningAssumption ==
  /\ ConsecutiveMissed \in Nat \ {0}
  /\ MaxHeight \in Nat /\ MaxLag \in Nat /\ MaxSessions \in Nat /\ MaxRebuilds \in Nat

VARIABLES
  blocks,    (* what each committed block says of the validator            *)
  head,      (* height of the chain                                        *)
  at,        (* height of the session's node                               *)
  sessions,  (* how many sessions there were                               *)
  info,      (* has the target been resolved (t.info)?                     *)
  bonded,    (* is the validator in the active set?                        *)
  byAddr,    (* which target the validator's votes go to                   *)
  refresh,   (* the target a refreshValInfo under way will write to        *)
  pending,   (* the target's voteTracker                                   *)
  consec,    (* the target's count of consecutive misses                   *)
  alarm,     (* missedAlarm                                                *)
  open,      (* does the engine hold the alert open?                       *)
  rebuilds,  (* how often the target was replaced                          *)
  seen,      (* highest vote delivered for each height (a history)         *)
  verdict,   (* the last classification (a history)                        *)
  excused    (* may the open alert be cleared? (a history)                 *)

chainVars == <<blocks, head>>
targetVars == <<info, bonded, byAddr, refresh>>
alarmVars == <<alarm, open>>
signVars == <<chainVars, at, sessions, targetVars, pending, consec, alarmVars,
              rebuilds, seen, verdict, excused>>

(* SignState, "ordered by how far the validator got".                      *)
Unknown == -1
Missed == 0
Prevote == 1
Precommit == 2
Signed == 3
Proposed == 4

Heights == 0 .. MaxHeight
Commits == {Missed, Signed, Proposed}
Targets == {"none", "current", "replaced"}

TypeOK ==
  /\ blocks \in [Heights -> Commits]
  /\ head \in Heights /\ at \in Heights
  /\ sessions \in 0 .. MaxSessions
  /\ info \in BOOLEAN /\ bonded \in BOOLEAN
  /\ byAddr \in Targets /\ refresh \in Targets
  /\ pending \in [Heights -> Missed .. Precommit]
  /\ consec \in Nat
  /\ alarm \in BOOLEAN /\ open \in BOOLEAN
  /\ rebuilds \in 0 .. MaxRebuilds
  /\ seen \in [Heights -> Missed .. Precommit]
  /\ verdict \in [height : Heights, state : Unknown .. Proposed]
  /\ excused \in BOOLEAN

---------------------------------------------------------------------------
(* Events                                                                  *)

Highest(s, t) == IF s < t THEN t ELSE s

NoVotes == [h \in Heights |-> Missed]

(* Variant: late votes and early ones of the next height are merged.       *)
BestOfBoth(h, blockSays) == Highest(blockSays, Highest(pending[h], pending[h + 1]))

(* resolve: the better of what the block says and what was observed for    *)
(* the height it settles.                                                  *)
Best(h, blockSays) == Highest(blockSays, pending[h])

Pruned(h) == [g \in Heights |-> IF g <= h THEN Missed ELSE pending[g]]

(* handleVote: a node gossips votes of the height it works on and late     *)
(* ones of the height it committed last.                                   *)
HandleVote(h, s) ==
  /\ h \in {at, at + 1} \cap Heights
  /\ seen' = [seen EXCEPT ![h] = Highest(@, s)]
  /\ pending' = IF byAddr = "current" THEN [pending EXCEPT ![h] = Highest(@, s)]
                                      ELSE pending
  /\ UNCHANGED <<chainVars, at, sessions, targetVars, consec, alarmVars, rebuilds, verdict, excused>>

(* handleBlock for block at + 1: classify, then count.  A validator that   *)
(* is not bonded is graded unknown, which leaves the count alone.          *)
HandleBlock ==
  LET best == Best(at, blocks[at + 1])
      st == IF bonded THEN best ELSE Unknown IN
  /\ at < head
  /\ at' = at + 1
  /\ IF info
       THEN /\ pending' = Pruned(at)
            /\ consec' = CASE st = Unknown -> consec
                           [] st \in Missed .. Precommit -> consec + 1
                           [] st \in {Signed, Proposed} -> 0
            /\ verdict' = [height |-> at, state |-> best]
            /\ excused' = (excused \/ st >= Signed)
       ELSE UNCHANGED <<pending, consec, verdict, excused>>
  /\ UNCHANGED <<chainVars, sessions, targetVars, alarmVars, rebuilds, seen>>

(* wsLoop ends and dials again, perhaps another node.                      *)
Redial(h) ==
  /\ sessions < MaxSessions
  /\ h \in Heights /\ at - MaxLag <= h /\ h <= head
  /\ at' = h
  /\ sessions' = sessions + 1
  /\ UNCHANGED <<chainVars, targetVars, pending, consec, alarmVars, rebuilds, seen, verdict, excused>>

---------------------------------------------------------------------------
(* refreshValInfo walks the targets it found when it started.              *)

RefreshStart ==
  /\ refresh = "none"
  /\ refresh' = "current"
  /\ UNCHANGED <<chainVars, at, sessions, info, bonded, byAddr, pending, consec, alarmVars,
                 rebuilds, seen, verdict, excused>>

(* Its answer: whether the validator is bonded.  One about a target that   *)
(* was replaced meanwhile still redirects the votes to it.                 *)
RefreshApply(b) ==
  /\ refresh # "none"
  /\ byAddr' = refresh
  /\ IF refresh = "current" THEN info' = TRUE /\ bonded' = b
                            ELSE UNCHANGED <<info, bonded>>
  /\ refresh' = "none"
  /\ UNCHANGED <<chainVars, at, sessions, pending, consec, alarmVars, rebuilds, seen, verdict, excused>>

---------------------------------------------------------------------------
(* watchLoop: the alarm about consecutive misses                           *)

Raises == info /\ ~ alarm /\ consec >= ConsecutiveMissed

(* Variant: off by one.                                                    *)
ResolvesEarly == info /\ consec <= ConsecutiveMissed /\ (alarm \/ open)

Resolves == info /\ consec < ConsecutiveMissed /\ (alarm \/ open)

WatchRaise ==
  /\ Raises
  /\ alarm' = TRUE /\ open' = TRUE
  /\ excused' = IF open THEN excused ELSE FALSE
  /\ UNCHANGED <<chainVars, at, sessions, targetVars, pending, consec, rebuilds, seen, verdict>>

WatchResolve ==
  /\ Resolves
  /\ alarm' = FALSE /\ open' = FALSE
  /\ UNCHANGED <<chainVars, at, sessions, targetVars, pending, consec, rebuilds, seen, verdict, excused>>

---------------------------------------------------------------------------
(* Reloads and restarts replace the target, and with it the count: they    *)
(* excuse an all-clear that nothing earned.                                *)

FreshTarget ==
  /\ rebuilds < MaxRebuilds
  /\ rebuilds' = rebuilds + 1
  /\ info' = FALSE /\ bonded' = FALSE /\ byAddr' = "none"
  /\ pending' = NoVotes /\ consec' = 0 /\ alarm' = FALSE
  /\ excused' = TRUE

Reload ==
  /\ FreshTarget
  /\ refresh' = IF refresh = "none" THEN "none" ELSE "replaced"
  /\ UNCHANGED <<chainVars, at, sessions, open, seen, verdict>>

Restart ==
  /\ FreshTarget
  /\ refresh' = "none"
  /\ UNCHANGED <<chainVars, at, sessions, open, seen, verdict>>

(* The chain commits a block.                                              *)
Commit(c) ==
  /\ head < MaxHeight
  /\ head' = head + 1
  /\ blocks' = [blocks EXCEPT ![head + 1] = c]
  /\ UNCHANGED <<at, sessions, targetVars, pending, consec, alarmVars, rebuilds, seen, verdict, excused>>

Init ==
  /\ blocks = [h \in Heights |-> Missed]
  /\ head = 0 /\ at = 0 /\ sessions = 0
  /\ info = FALSE /\ bonded = FALSE /\ byAddr = "none" /\ refresh = "none"
  /\ pending = NoVotes /\ consec = 0
  /\ alarm = FALSE /\ open = FALSE
  /\ rebuilds = 0
  /\ seen = NoVotes
  /\ verdict = [height |-> 0, state |-> Unknown]
  /\ excused = FALSE

Next ==
  \/ \E h \in Heights, s \in {Prevote, Precommit} : HandleVote(h, s)
  \/ HandleBlock
  \/ \E h \in Heights : Redial(h)
  \/ RefreshStart
  \/ \E b \in BOOLEAN : RefreshApply(b)
  \/ WatchRaise
  \/ WatchResolve
  \/ Reload
  \/ Restart
  \/ \E c \in Commits : Commit(c)

Spec == Init /\ [][Next]_signVars

---------------------------------------------------------------------------
(* Properties                                                              *)

(* sign.go:157: votes "can arrive before OR after the block they belong    *)
(* to; we merge them by height so a late vote can never contaminate the    *)
(* next block's classification".  A height is graded by the vote of that   *)
(* very height, whatever was redialled, reloaded or late in between.       *)
NoContamination ==
  verdict.state \in {Prevote, Precommit} => seen[verdict.height] >= verdict.state

(* An open alert is cleared only after a block credited the validator, or  *)
(* by a reload or a restart, which forgets the count.                      *)
AllClearIsEarned == [][open /\ ~ open' => excused]_signVars
=============================================================================
