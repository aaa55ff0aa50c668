---------------------------- MODULE MCEngineSim ----------------------------
(* Captures of NumPackets packets: of two flows with a tree each, of which  *)
(* one has the double weight, and of a flow that is not mapped, with and    *)
(* without idle times between them.  A long packet ranks before the short   *)
(* ones of its flow.                                                        *)
EXTENDS EngineSim

CONSTANTS NumPackets, Times

Weights == (1 :> 1) @@ (2 :> 2)
OwnTree == (0 :> 1) @@ (1 :> 2)

Kind == [flow : Flows, len : {1}, rank : {1}] \cup [flow : Flows, len : {3}, rank : {0}]
          \cup {[flow |-> FLOW_NUM, len |-> 1, rank |-> 0]}

AllCaptures ==
  {[i \in 1 .. NumPackets |-> p[i] @@ ("cycle" :> c[i])] :
     p \in [1 .. NumPackets -> Kind],
     c \in {t \in [1 .. NumPackets -> Times] : \A i \in 2 .. NumPackets : t[i] >= t[i - 1]}}
=============================================================================
