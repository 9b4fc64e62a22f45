------------------------------ MODULE MCLaunch ------------------------------
(* One launch, with and without signals from outside.                      *)
EXTENDS Launch
=============================================================================
