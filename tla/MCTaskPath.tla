----------------------------- MODULE MCTaskPath -----------------------------
(* Three lists with small FIFOs; MaxTasks words, each a push, a pop or both *)
(* at once, arrive in any cycles and on any lists.                          *)
EXTENDS TaskPath
=============================================================================
