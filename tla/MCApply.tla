------------------------------ MODULE MCApply ------------------------------
(* The instance of Apply for TLC is in Apply.cfg: two writers contend for  *)
(* the lock with two attempts each, beside the applier of the timer and    *)
(* another one that is started by hand, or never.                          *)
EXTENDS Apply
=============================================================================
