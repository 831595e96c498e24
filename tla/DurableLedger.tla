---------------------------- MODULE DurableLedger ----------------------------
(***************************************************************************)
(* What the daemon promises to every notification channel over restarts,   *)
(* said without monitors, goroutines, clocks or the state file's records.  *)
(* A channel is paged only when it was not told of the incident, and gets  *)
(* an all-clear or a reminder only when it was, also by a process that was *)
(* started after the one that told it.  The promise is off for an incident *)
(* whose page or all-clear was not saved when a process died: `lost` has   *)
(* these, and nothing else.                                                *)
(***************************************************************************)
EXTENDS Wire

VARIABLES
  up,      (* is a process running?                                        *)
  told,    (* per channel, the keys of the incidents it was told of        *)
  saved,   (* the incidents in the state file                              *)
  lost,    (* the channels and keys a process died without having saved    *)
  wire     (* how many copies of each message are in flight                *)

durableVars == <<up, told, saved, lost, wire>>

Lost(d, k) == <<d, k>> \in lost

Init ==
  /\ up = TRUE
  /\ told = [d \in Dests |-> {}]
  /\ saved = [d \in Dests |-> {}]
  /\ lost = {}
  /\ wire = NoMessages

Page(d, k, c) ==
  /\ up
  /\ k \notin told[d] \/ Lost(d, k)
  /\ told' = [told EXCEPT ![d] = @ \cup {k}]
  /\ wire' = Add(wire, {NewMessage(d, k, "raise", c)})
  /\ UNCHANGED <<up, saved, lost>>

Clear(d, k, c) ==
  /\ up
  /\ k \in told[d] \/ Lost(d, k)
  /\ told' = [told EXCEPT ![d] = @ \ {k}]
  /\ wire' = Add(wire, {NewMessage(d, k, "resolve", c)})
  /\ UNCHANGED <<up, saved, lost>>

IsReminder(m) ==
  /\ m.what = "remind" /\ m.tries = 0
  /\ m.key \in told[m.dest] \/ Lost(m.dest, m.key)

Remind ==
  /\ up
  /\ wire' = [m \in Messages |-> wire'[m]]
  /\ \A m \in Messages : wire'[m] = wire[m] \/ (IsReminder(m) /\ wire'[m] = wire[m] + 1)
  /\ UNCHANGED <<up, told, saved, lost>>

Attempt(m) ==
  /\ up
  /\ wire[m] > 0
  /\ \/ wire' = [wire EXCEPT ![m] = @ - 1]
     \/ /\ m.tries = 0
        /\ wire' = [wire EXCEPT ![m] = @ - 1, ![Retried(m)] = @ + 1]
  /\ UNCHANGED <<up, told, saved, lost>>

(* The file has what the channels were told of; the process may end here.  *)
Save ==
  /\ up
  /\ saved' \in [Dests -> SUBSET Keys]
  /\ \A d \in Dests, k \in Keys : Lost(d, k) \/ (k \in saved'[d] <=> k \in told[d])
  /\ up' \in BOOLEAN
  /\ UNCHANGED <<told, lost, wire>>

Die ==
  /\ up
  /\ up' = FALSE
  /\ lost' = lost \cup {p \in Dests \X Keys : ~ (p[2] \in told[p[1]] <=> p[2] \in saved[p[1]])}
  /\ UNCHANGED <<told, saved, wire>>

(* What was in flight died with the last process.                          *)
Start ==
  /\ ~ up
  /\ up' \in BOOLEAN
  /\ wire' = NoMessages
  /\ UNCHANGED <<told, saved, lost>>

Next ==
  \/ \E d \in Dests, k \in Keys, c \in Contexts : Page(d, k, c) \/ Clear(d, k, c)
  \/ Remind
  \/ \E m \in Messages : Attempt(m)
  \/ Save
  \/ Die
  \/ Start

Spec == Init /\ [][Next]_durableVars
=============================================================================
