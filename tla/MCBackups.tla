------------------------------ MODULE MCBackups ------------------------------
(* The scheduler and a request run cycles that overlap.                    *)
EXTENDS Backups

(* Bounds: one thing goes wrong, a statement or the process, and a restore *)
(* is one of a complete set, and not followed across a signal.             *)
Small == /\ faults + crashes <= 1
         /\ restore.at = "copying" => restore.whole /\ crashes = 0
=============================================================================
