------------------------------ MODULE MCServing ------------------------------
(* The runs of ServingStack: start.sh and stop.sh may be killed anywhere. *)
EXTENDS ServingStack

Anywhere == Steps
=============================================================================
