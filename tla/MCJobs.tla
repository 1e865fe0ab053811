------------------------------ MODULE MCJobs -------------------------------
(***************************************************************************)
(* Small instances of Jobs for TLC, which need nothing besides: the jobs,  *)
(* workers and runners are model values.                                   *)
(***************************************************************************)
EXTENDS Jobs
=============================================================================
