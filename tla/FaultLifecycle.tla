---------------------------- MODULE FaultLifecycle ----------------------------
(***************************************************************************)
(* What the sealed ground truth tells of a set of faults: each begins at   *)
(* most once, never before the fault it is chained to, and ends at most    *)
(* once, for good.  FaultInjector implements it.                           *)
(***************************************************************************)
CONSTANTS
  FaultId,   \* the faults
  After      \* After[f]: the faults that must have begun before f does

VARIABLE phase

Init == phase = [f \in FaultId |-> "idle"]

Begin(f) ==
  /\ phase[f] = "idle"
  /\ \A g \in After[f] : phase[g] # "idle"
  /\ phase' = [phase EXCEPT ![f] = "active"]

End(f) ==
  /\ phase[f] = "active"
  /\ phase' = [phase EXCEPT ![f] = "ended"]

Next == \E f \in FaultId : Begin(f) \/ End(f)

Spec == Init /\ [][Next]_phase
=============================================================================
