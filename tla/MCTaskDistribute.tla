-------------------------- MODULE MCTaskDistribute --------------------------
(* The dispatcher alone, its FIFOs free to be empty or not and to hold any *)
(* mix of push, pop and push-and-pop tasks.                                *)
EXTENDS TaskDistribute
=============================================================================
