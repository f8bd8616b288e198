------------------------------- MODULE MCGuiJobs -------------------------------
(* Two windows and three jobs.                                               *)
EXTENDS GuiJobs
CONSTANTS a1, a2, j1, j2, j3
================================================================================
