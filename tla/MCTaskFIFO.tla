----------------------------- MODULE MCTaskFIFO -----------------------------
(* The FIFO alone, with any writer and the dispatcher's reading discipline. *)
EXTENDS TaskFIFO
=============================================================================
