-------------------------------- MODULE Wire --------------------------------
(***************************************************************************)
(* Messages on their way to notification channels.  Engine.fire starts one *)
(* goroutine per message; a bag counts the goroutines that are running.    *)
(***************************************************************************)
EXTENDS Integers

CONSTANTS
  Keys,    (* dedup keys of alerts                                         *)
  Dests    (* kinds of notification channel                                *)

Whats == {"raise", "resolve", "remind"}

(* What can cancel a delivery: the daemon, or the HTTP request that        *)
(* started it.                                                             *)
Contexts == {"app", "request"}

(* tries counts the attempts that failed.                                  *)
Messages == [dest : Dests, key : Keys, what : Whats, ctx : Contexts, tries : 0..1]

NewMessage(d, k, w, c) == [dest |-> d, key |-> k, what |-> w, ctx |-> c, tries |-> 0]

Retried(m) == [m EXCEPT !.tries = 1]

Add(bag, S) == [m \in Messages |-> IF m \in S THEN bag[m] + 1 ELSE bag[m]]

NoMessages == [m \in Messages |-> 0]
=============================================================================
