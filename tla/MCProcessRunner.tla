-------------------------- MODULE MCProcessRunner --------------------------
(* A small instance of ProcessRunner.                                      *)
EXTENDS ProcessRunner, TLC

ZeroOnly == {0}
SigKill == -9
None == -1000
=============================================================================
