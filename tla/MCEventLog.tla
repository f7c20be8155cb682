------------------------------ MODULE MCEventLog ------------------------------
(* One worker, one dashboard: the heartbeat, the webhook and the web API are  *)
(* writers of their own beside the worker.                                    *)
EXTENDS EventLog

CONSTANTS w1, c1

===============================================================================
