------------------------------ MODULE MCOutbox ------------------------------
(* Instances of Outbox for TLC.                                            *)
EXTENDS Outbox, TLC

CONSTANTS e1, e2, w1, w2, audit, retired

OneEvent   == {e1}
TwoEvents  == {e1, e2}
OneWorker  == {w1}
TwoWorkers == {w1, w2}

TwoTopics    == {audit, retired}
OneTopic     == {audit}
Retired      == {retired}

AllAudit   == [e \in Events |-> audit]
Mixed      == [e \in Events |-> IF e = e1 THEN audit ELSE retired]

TwoTries   == [t \in Topics |-> 2]

TwoTokens   == 1 .. 2
ThreeTokens == 1 .. 3

WorkerSymmetry == Permutations(Workers)
=============================================================================
