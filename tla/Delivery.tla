------------------------------ MODULE Delivery ------------------------------
(***************************************************************************)
(* What the outbox promises its producers and consumers, without claims,   *)
(* leases, workers or time: at-least-once delivery.  A published event     *)
(* stays pending until it is completed, which takes an effect of its       *)
(* handler, or buried as a dead letter; the effect may come more than once *)
(* and even after the event is settled (a handler that outlives its        *)
(* timeout); a settled event never changes again, except that a completed  *)
(* one is eventually forgotten.                                            *)
(***************************************************************************)
CONSTANT Events
VARIABLES status, applied

Publish(e) ==
  /\ status[e] = "none"
  /\ status' = [status EXCEPT ![e] = "pending"]
  /\ UNCHANGED applied

Apply(e) ==
  /\ status[e] # "none"
  /\ applied' = [applied EXCEPT ![e] = TRUE]
  /\ UNCHANGED status

Complete(e) ==
  /\ status[e] = "pending" /\ applied[e]
  /\ status' = [status EXCEPT ![e] = "processed"]
  /\ UNCHANGED applied

(* Dead letters and deletions may come in chunks.                          *)
Bury(S) ==
  /\ \A e \in S : status[e] = "pending"
  /\ status' = [e \in Events |-> IF e \in S THEN "dead" ELSE status[e]]
  /\ UNCHANGED applied

Forget(S) ==
  /\ \A e \in S : status[e] = "processed"
  /\ status' = [e \in Events |-> IF e \in S THEN "gone" ELSE status[e]]
  /\ UNCHANGED applied

Init ==
  /\ status  = [e \in Events |-> "none"]
  /\ applied = [e \in Events |-> FALSE]

Next ==
  \/ \E e \in Events : Publish(e) \/ Apply(e) \/ Complete(e)
  \/ \E S \in SUBSET Events : Bury(S) \/ Forget(S)

Spec == Init /\ [][Next]_<<status, applied>>
=============================================================================
