--------------------------- MODULE MCExecutionJobs ---------------------------
(* The model-checking instance of ExecutionJobs. *)
EXTENDS ExecutionJobs, TLC

\* Two cases: one that may lose its login or fail, one with a restricted step.
TwoCases == << <<"navigate", "act">>, <<"restricted">> >>
=============================================================================
