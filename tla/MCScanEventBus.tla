--------------------------- MODULE MCScanEventBus ---------------------------
(* The model-checking instance of ScanEventBus: one id for the run and its *)
(* scan, as the frontend uses it.                                          *)
EXTENDS ScanEventBus, TLC

TheRun == "run"
=============================================================================
