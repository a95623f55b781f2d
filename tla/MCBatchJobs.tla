----------------------------- MODULE MCBatchJobs -----------------------------
(* Instances of BatchJobs for TLC. *)
EXTENDS BatchJobs

CONSTANTS j1, j2, n1, a1

\* An id alone, before and after an anonymous transaction, and twice in one
\* batch.
RaceBatches == {<<n1>>, <<n1, a1>>, <<a1, n1>>, <<n1, n1>>}
==============================================================================
