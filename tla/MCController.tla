----------------------------- MODULE MCController -----------------------------
(* Instances of Controller checked by TLC: MCController.cfg (safety and        *)
(* liveness), IntentController.cfg (the promise that does not hold).           *)
EXTENDS Controller, TLC
===============================================================================
