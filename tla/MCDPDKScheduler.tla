-------------------------- MODULE MCDPDKScheduler --------------------------
(***************************************************************************)
(* One node with two flows, merged by WFQ.  Flows are numbered and given   *)
(* priorities, weights and sizes as in switch.conf.example.  Packets of    *)
(* both flows come in, those of flow 0 longer than the others, and answers *)
(* at the other port.                                                      *)
(***************************************************************************)
EXTENDS DPDKScheduler

Conf(node, flow) == [r \in Merged |-> IF r[1] = "node" THEN node[r[2] + 1] ELSE flow[(r[2] % FLOWS) + 1]]

MCPriority == Conf(<<1, 2>>, <<1, 2, 3>>)
MCWeight   == Conf(<<1, 1>>, <<1, 1, 2>>)
MCSize     == [f \in Flow |-> 15]

FlowTraffic == {[port |-> 0, flow |-> f, len |-> IF f = 0 THEN 3 ELSE 1] : f \in Flow}
                 \cup {[port |-> 1, flow |-> NoFlow, len |-> 1]}
=============================================================================
