------------------------------- MODULE Fleet -------------------------------
(***************************************************************************)
(* The inference workers, as the gateway and the control plane name them:  *)
(* the ids "worker-1", "worker-2", ... of controlplane/settings.py.        *)
(***************************************************************************)
CONSTANTS
  Workers,     \* worker ids
  NoWorker     \* Go's nil *router.Worker, and the empty id

ASSUME FleetAssumption == NoWorker \notin Workers
=============================================================================
