------------------------------- MODULE MCJobs --------------------------------
(* The instance of Jobs for TLC.                                           *)
EXTENDS Jobs
=============================================================================
