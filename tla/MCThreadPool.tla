---------------------------- MODULE MCThreadPool ----------------------------
(* ThreadPool for TLC.  The run has temporal properties, so workers,       *)
(* submitters and tasks are plain model values without symmetry.           *)
EXTENDS ThreadPool

=============================================================================
