-------------------------------- MODULE Ages --------------------------------
(***************************************************************************)
(* Times as the monitor uses them.  The code keeps the time of an event    *)
(* and compares time.Since with a threshold, so an event is represented by *)
(* its age in minutes, which stops growing at Old, above every threshold.  *)
(***************************************************************************)
EXTENDS Integers

CONSTANTS
  Old,    (* the age at which ages stop growing                            *)
  Never   (* the zero time.Time: the event did not happen                  *)

ASSUME AgesAssumption == Old \in Nat /\ Never \notin Nat

Ages == 0 .. Old
Times == Ages \cup {Never}

Older(t) == IF t = Never \/ t = Old THEN t ELSE t + 1

(* time.Since the zero time is longer than any threshold.                  *)
Since(t) == IF t = Never THEN Old ELSE t
=============================================================================
