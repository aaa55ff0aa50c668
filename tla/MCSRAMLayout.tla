---------------------------- MODULE MCSRAMLayout ----------------------------
(* Four SRAMs, as in the engine by default, and every forest of up to       *)
(* five trees of depth 0 to 4, gaps and shallow trees included.             *)
EXTENDS SRAMTable

MCForests == [Tree -> 0 .. SRAM_NUM]
=============================================================================
