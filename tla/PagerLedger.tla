---------------------------- MODULE PagerLedger ----------------------------
(***************************************************************************)
(* What the alert engine promises to every notification channel, said      *)
(* without goroutines, silences or flap windows: for a channel d and an    *)
(* alert key k there is at most one open incident.  A page is sent only    *)
(* when none is open, an all-clear or a reminder only when one is, and     *)
(* every message gets at most two delivery attempts.                       *)
(***************************************************************************)
EXTENDS Wire

VARIABLES open,   (* per channel, the keys of the incidents it was told of *)
          wire    (* how many copies of each message are in flight         *)

ledgerVars == <<open, wire>>

Init ==
  /\ open = [d \in Dests |-> {}]
  /\ wire = NoMessages

Page(d, k, c) ==
  /\ k \notin open[d]
  /\ open' = [open EXCEPT ![d] = @ \cup {k}]
  /\ wire' = Add(wire, {NewMessage(d, k, "raise", c)})

Clear(d, k, c) ==
  /\ k \in open[d]
  /\ open' = [open EXCEPT ![d] = @ \ {k}]
  /\ wire' = Add(wire, {NewMessage(d, k, "resolve", c)})

IsReminder(m) == m.what = "remind" /\ m.tries = 0 /\ m.key \in open[m.dest]

(* Any set of open incidents may be reminded of at once.                   *)
Remind ==
  /\ wire' = [m \in Messages |-> wire'[m]]
  /\ \A m \in Messages : wire'[m] = wire[m] \/ (IsReminder(m) /\ wire'[m] = wire[m] + 1)
  /\ UNCHANGED open

(* A first attempt that fails is tried once more; anything else ends it.   *)
Attempt(m) ==
  /\ wire[m] > 0
  /\ \/ wire' = [wire EXCEPT ![m] = @ - 1]
     \/ /\ m.tries = 0
        /\ wire' = [wire EXCEPT ![m] = @ - 1, ![Retried(m)] = @ + 1]
  /\ UNCHANGED open

Next ==
  \/ \E d \in Dests, k \in Keys, c \in Contexts : Page(d, k, c) \/ Clear(d, k, c)
  \/ Remind
  \/ \E m \in Messages : Attempt(m)

Spec == Init /\ [][Next]_ledgerVars
=============================================================================
