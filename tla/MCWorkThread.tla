---------------------------- MODULE MCWorkThread ----------------------------
(* The instances of WorkThread that TLC checks: worker.cfg and             *)
(* worker_clear.cfg give the constants their values.                       *)
EXTENDS WorkThread
=============================================================================
