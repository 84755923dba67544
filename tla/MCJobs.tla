------------------------------- MODULE MCJobs -------------------------------
(* Model-checking instance of Jobs.                                        *)
EXTENDS Jobs
=============================================================================
