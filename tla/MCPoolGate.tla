----------------------------- MODULE MCPoolGate -----------------------------
(***************************************************************************)
(* Small instances of the two places where a process hands out slots and   *)
(* lets others wait for them: the background gate and the semaphores of    *)
(* the language models.  They share no state; in a behaviour one of them   *)
(* moves, so that one run explores the sum of the two.                     *)
(***************************************************************************)
EXTENDS PoolGate, LlmChain

CONSTANTS l1, l2, l3, r1, r2, k1, k2, p1, p2

ThreeLanes   == {l1, l2, l3}
MCRequests   == {r1, r2}
TwoCalls     == {k1, k2}
TwoProviders == {p1, p2}
TwoInOrder   == <<p1, p2>>

VARIABLE part

slotVars == <<part, vars, chainVars>>

Gate(A)  == part = "gate"  /\ A /\ UNCHANGED <<part, chainVars>>
Model(A) == part = "model" /\ A /\ UNCHANGED <<part, vars>>

SlotsInit == part \in {"gate", "model"} /\ Init /\ ChainInit
SlotsNext == Gate(Next) \/ Model(ChainNext)

\* The fairness of PoolGate, for the part that moves.
SlotsFairness ==
  \A l \in Lanes : /\ WF_vars(part = "gate" /\ Deadline(l))
                   /\ WF_vars(part = "gate" /\ lane[l] = "failing" /\ Release(l))

SlotsSpec == SlotsInit /\ [][SlotsNext]_slotVars /\ SlotsFairness
=============================================================================
