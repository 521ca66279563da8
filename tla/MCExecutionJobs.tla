-------------------------- MODULE MCExecutionJobs --------------------------
(* Small instances of ExecutionJobs for TLC.                               *)
EXTENDS ExecutionJobs

CONSTANTS j1, w1, w2, p1

NoJobs == {}
SameObject == [j \in Job |-> "mailbox"]
=============================================================================
