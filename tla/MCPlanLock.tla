----------------------------- MODULE MCPlanLock ------------------------------
(* The plan lock for TLC.                                                  *)
EXTENDS PlanLock, TLC
=============================================================================
