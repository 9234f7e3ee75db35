---------------------------- MODULE MCAsyncLogger ----------------------------
(* Three messages, two days and two failures: enough for a batch of two    *)
(* that fails after its first message while the third is being queued, and *)
(* for a failure met again by the retry.                                   *)
EXTENDS AsyncLogger
=============================================================================
