--------------------------- MODULE MCPIFO_SRAM_TOP ---------------------------
(***************************************************************************)
(* A ring of three RPUs; the trees 0 and 3 begin on RPU 0 and tree 1 on    *)
(* RPU 1, and all share every SRAM.  Ranks are 0..2 (3 marks an empty      *)
(* slot), one bit of metadata tells words of equal rank apart.  The        *)
(* writers start from reset, or fill tree 0 past its second level first;   *)
(* then they write MaxTasks tasks, on any lists and in any cycles.         *)
(***************************************************************************)
EXTENDS PIFO_SRAM_TOP

VARIABLE script   \* what is left of the tasks the writers begin with

mcVars == <<topVars, written, script>>

PushTask(t, w) == [NoTask EXCEPT !.push = TRUE, !.push_tree = t, !.data = w]
PopTask(t)     == [NoTask EXCEPT !.pop = TRUE, !.pop_tree = t]
BothTask(t, w) == [PushTask(t, w) EXCEPT !.pop = TRUE, !.pop_tree = t]

Fill == [k \in 1 .. 7 |-> PushTask(0, <<2, 6, 1, 2, 0, 1, 5>>[k])]

FreeTasks == {PushTask(0, 4), PopTask(0),
              PushTask(1, 1), PopTask(1), BothTask(3, 1)}

MCWords == 0 .. 7

-----------------------------------------------------------------------------
NoInput == [i \in RPU |-> NoTask]

Home(w) == (IF w.push THEN w.push_tree ELSE w.pop_tree) % LEVEL

FreeInputs == {in \in [RPU -> {NoTask} \cup FreeTasks] :
                 \A i \in RPU : in[i] # NoTask => Home(in[i]) = i}

MCInit == TopInit /\ written = 0 /\ script \in {<< >>, Fill}

RunScript ==
  /\ script # << >>
  /\ UNCHANGED written
  /\ LET w == Head(script) IN FIFOClock([NoInput EXCEPT ![Home(w)] = w])
  /\ script' = Tail(script)

RunFree ==
  /\ script = << >> /\ UNCHANGED script
  /\ \E in \in FreeInputs : Write(in) /\ FIFOClock(in)

\* TopClock of the inputs chosen.
MCNext == DispatcherClock /\ RPUClock /\ (RunScript \/ RunFree) /\ History

MCSpec == MCInit /\ [][MCNext]_mcVars
=============================================================================
