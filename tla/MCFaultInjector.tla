--------------------------- MODULE MCFaultInjector ---------------------------
(* FaultInjector on two fault lists, for TLC.                              *)
EXTENDS FaultInjector

Fault(kind, trigger, depends_on, onset, ramp_up, hold, ramp_down, step) ==
  [kind |-> kind, key |-> "robot/laser", trigger |-> trigger, depends_on |-> depends_on,
   onset |-> onset, ramp_up |-> ramp_up, hold |-> hold, ramp_down |-> ramp_down,
   step |-> step, model |-> "crate", loads |-> TRUE, despawn_on_end |-> TRUE,
   spawn_if_absent |-> TRUE]

\* Two effects on one component; an obstacle chained to the spill after it in
\* the list; a spill that follows an effect; furniture that is not there.
MCFaults ==
  << Fault("effect", "time", 0, 1, 1, 0, 1, FALSE),
     Fault("effect", "condition", 0, 0, 0, 1, 0, FALSE),
     Fault("dynamic_obstacle", "time", 4, 1, 0, 3, 1, TRUE),
     Fault("spill", "after_fault", 2, 0, 1, 0, 1, FALSE),
     Fault("moved_furniture", "condition", 1, 0, 0, -1, 0, TRUE),
     [Fault("dynamic_obstacle", "condition", 0, 0, 0, 0, 1, TRUE) EXCEPT !.loads = FALSE] >>

MCUserNames == {<<"crate", 0>>, <<"crate", 1>>}
=============================================================================
