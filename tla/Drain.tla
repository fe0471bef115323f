------------------------------- MODULE Drain -------------------------------
(***************************************************************************)
(* The drain switch of a worker process (worker/app/drain.py): a flag of   *)
(* the process and a file, whose path is the same for every worker process *)
(* of a host unless DRAIN_FILE says otherwise.  Writing or removing the    *)
(* file may fail, which goes unnoticed.                                    *)
(***************************************************************************)

VARIABLES
  draining,     \* _draining
  file          \* whether the drain file exists

drainVars == <<draining, file>>

DrainTypeOK == draining \in BOOLEAN /\ file \in BOOLEAN

DrainInit == draining = FALSE /\ file = FALSE

is_draining == draining \/ file

set_drain == draining' = TRUE /\ file' \in {file, TRUE}

clear_drain == draining' = FALSE /\ file' \in {file, FALSE}

\* Another worker process of the host is told to drain, or to stop draining.
SiblingSwitches == file' = ~file /\ UNCHANGED draining

\* A new process: the flag is gone, the file is not.
DrainRestart == draining' = FALSE /\ UNCHANGED file
=============================================================================
