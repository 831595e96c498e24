------------------------------ MODULE SetWatch ------------------------------
(***************************************************************************)
(* internal/monitor: set-watch, the diff of the whole validator set        *)
(* against its last snapshot, which tells of validators nobody monitors.   *)
(*                                                                         *)
(* Run and healthLoop both refresh, so two rounds may overlap: setWatch    *)
(* asks for the list without Chain.mu, swaps the snapshot under it, and    *)
(* hands the differences to the engine after letting it go.  The snapshot  *)
(* outlives a reload, but not the process.                                 *)
(*                                                                         *)
(* Validators share nothing; one is modelled.  An alert opens and closes   *)
(* at the engine at once (see Daemon).                                     *)
(***************************************************************************)
EXTENDS Naturals

CONSTANT MaxStarts  (* bound on restarts                                   *)

ASSUME WatchAssumption == MaxStarts \in Nat

VARIABLES
  member,    (* what the validator really is                               *)
  snapshot,  (* what c.setSnapshot says of it                              *)
  watcher,   (* where the setWatch of each loop is                         *)
  told,      (* the alerts about it that the engine holds open             *)
  starts,    (* how often the daemon was restarted                         *)
  stayed,    (* was it in the set all the time? (a history)                *)
  due        (* what a change to come would be news of (a history)         *)

watchVars == <<member, snapshot, watcher, told, starts, stayed, due>>

Loops == {"run", "health"}
Members == {"free", "jailed", "out"}
Unprimed == "unprimed"

(* An alert and whether it is resolved.                                    *)
News == {"validator-new", "validator-gone", "validator-jailed"}
Messages == News \X BOOLEAN

Resting == [at |-> "idle", heard |-> Unprimed, says |-> {}]
SetWatchers == [at : {"idle", "heard", "telling"}, heard : Members \cup {Unprimed},
             says : SUBSET Messages]

WatchTypeOK ==
  /\ member \in Members
  /\ snapshot \in Members \cup {Unprimed}
  /\ watcher \in [Loops -> SetWatchers]
  /\ told \subseteq News
  /\ starts \in 0 .. MaxStarts
  /\ stayed \in BOOLEAN
  /\ due \subseteq Messages

---------------------------------------------------------------------------
(* setWatch                                                                *)

(* Variant: a failed query counts as an empty list.                        *)
ListOrNothing(l) ==
  /\ watcher[l].at = "idle"
  /\ \E heard \in {member, "out"} :
       watcher' = [watcher EXCEPT ![l] = [Resting EXCEPT !.at = "heard", !.heard = heard]]
  /\ UNCHANGED <<member, snapshot, told, starts, stayed, due>>

(* listValidators.  A failed query ends the round, as if there were none.  *)
List(l) ==
  /\ watcher[l].at = "idle"
  /\ watcher' = [watcher EXCEPT ![l] = [Resting EXCEPT !.at = "heard", !.heard = member]]
  /\ UNCHANGED <<member, snapshot, told, starts, stayed, due>>

(* What the difference between two snapshots is worth.                     *)
Difference(prev, now) ==
  {m \in Messages :
     \/ m = <<"validator-new", FALSE>>    /\ prev = "out" /\ now # "out"
     \/ m = <<"validator-gone", FALSE>>   /\ prev # "out" /\ now = "out"
     \/ m = <<"validator-jailed", FALSE>> /\ prev = "free" /\ now = "jailed"
     \/ m = <<"validator-jailed", TRUE>>  /\ prev = "jailed" /\ now = "free"}

Gone == <<"validator-gone", FALSE>>
Jailed == <<"validator-jailed", FALSE>>
Released == <<"validator-jailed", TRUE>>

NowDue(now) ==
  CASE now = "free"   -> due \cup {Gone, Jailed}
    [] now = "jailed" -> due \cup {Gone, Released}
    [] now = "out"    -> due

(* The first snapshot is the baseline: nothing in it is news.              *)
Swap(l) ==
  /\ watcher[l].at = "heard"
  /\ LET now == watcher[l].heard
         says == IF snapshot = Unprimed THEN {} ELSE Difference(snapshot, now)
     IN  /\ snapshot' = now
         /\ watcher' = [watcher EXCEPT ![l] =
                          IF says = {} THEN Resting
                          ELSE [at |-> "telling", heard |-> Unprimed, says |-> says]]
         /\ due' = NowDue(now)
  /\ UNCHANGED <<member, told, starts, stayed>>

Tell(l) ==
  /\ watcher[l].at = "telling"
  /\ told' = (told \cup {a \in News : <<a, FALSE>> \in watcher[l].says})
               \ {a \in News : <<a, TRUE>> \in watcher[l].says}
  /\ due' = due \ watcher[l].says
  /\ watcher' = [watcher EXCEPT ![l] = Resting]
  /\ UNCHANGED <<member, snapshot, starts, stayed>>

---------------------------------------------------------------------------
(* Restarts and the world                                                  *)

WatchRestart ==
  /\ starts < MaxStarts
  /\ starts' = starts + 1
  /\ snapshot' = Unprimed
  /\ watcher' = [l \in Loops |-> Resting]
  /\ due' = {}
  /\ UNCHANGED <<member, told, stayed>>

ChangeMember ==
  /\ member' \in Members
  /\ stayed' = (stayed /\ member' # "out")
  /\ UNCHANGED <<snapshot, watcher, told, starts, due>>

WatchInit ==
  /\ member \in Members
  /\ snapshot = Unprimed
  /\ watcher = [l \in Loops |-> Resting]
  /\ told = {}
  /\ starts = 0
  /\ stayed = (member # "out")
  /\ due = {}

WatchRound(l) == Swap(l) \/ Tell(l)

WatchNext ==
  \/ \E l \in Loops : List(l) \/ WatchRound(l)
  \/ WatchRestart
  \/ ChangeMember

WatchSpec == WatchInit /\ [][WatchNext]_watchVars

---------------------------------------------------------------------------
(* Properties                                                              *)

(* chain.go:545: set-watch catches "validators joining, leaving, or        *)
(* jailing".  News that is due is never dropped between two overlapping    *)
(* rounds: either the snapshot still is what the next list will differ     *)
(* from, or the loop that swapped it has the news in hand.                 *)
Pending(m) == \E l \in Loops : m \in watcher[l].says

NewsIsPending ==
  /\ Gone \in due => snapshot \in {"free", "jailed"} \/ Pending(Gone)
  /\ stayed => /\ Jailed \in due => snapshot = "free" \/ Pending(Jailed)
               /\ Released \in due => snapshot = "jailed" \/ Pending(Released)

(* README.md:166: validator-jailed is raised when "any validator jails".   *)
(* However the rounds of the two loops overlap and however late they are   *)
(* applied, no change that lasts goes untold once a snapshot since the     *)
(* start had the validator: not its leaving, and, unless it had left in    *)
(* between and is news itself, not its jailing nor its release.            *)
ChangesAreTold ==
  /\ []<> ~ (stayed /\ member = "jailed" /\ Jailed \in due)
  /\ []<> ~ (stayed /\ member = "free" /\ Released \in due)
  /\ []<> ~ (member = "out" /\ Gone \in due)
=============================================================================
