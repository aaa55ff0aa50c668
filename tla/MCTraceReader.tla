---------------------------- MODULE MCTraceReader ----------------------------
(* Every trace of up to three lines and the end line: two trees, the       *)
(* metadata in Metas, and ranks at the root of which one looks like the    *)
(* end line in its low IDLECYCLE_BITS bits and the other does not.         *)
EXTENDS TraceReader

CONSTANT Metas   \* values of the field meta

LeafRanks == {2 ^ PTW - 1}
RootRanks == {2 ^ IDLECYCLE_BITS + 1, 2 ^ PTW - 1}

Lines == {IdleLine(n) : n \in 0 .. 1} \cup {PopLine}
           \cup {PushLine(t, m, p, q) : t \in {1, 2}, m \in Metas, p \in LeafRanks, q \in RootRanks}

MCTraces == UNION {{Append(f, EndLine) : f \in [1 .. n -> Lines]} : n \in 0 .. 3}

\* These are traces as the proofs take them.
ASSUME MCTracesAssumption == TracesFit
=============================================================================
