--------------------------------- MODULE MCViews ---------------------------------
(* A small instance of Views for TLC: three deployments on pages of two, and *)
(* two threads that write.                                                   *)
EXTENDS Views
MCDeployment == 1 .. 3
==================================================================================
