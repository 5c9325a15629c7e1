---------------------------- MODULE MCBatchQueue ----------------------------
(* Small instances of the batch_remember queue.                            *)
EXTENDS BatchQueue

CONSTANTS p1, p2, j1, j2

OneProcess   == {p1}
TwoProcesses == {p1, p2}
OneJob       == {j1}
TwoJobs      == {j1, j2}
=============================================================================
