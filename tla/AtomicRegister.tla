--------------------------- MODULE AtomicRegister ---------------------------
(***************************************************************************)
(* What the callers of _write_workflow_task_status may take a status file  *)
(* to be: a register that is absent until it is first written, and that    *)
(* every write replaces as a whole, in one step.  Writes that overlap may  *)
(* garble it, which readers notice; the next one that does not overlap     *)
(* with another makes it whole again.                                      *)
(***************************************************************************)
CONSTANTS Values, Garbled, NoValue

VARIABLES
    reg,
    contended   \* an input: whether writes overlap

Init == reg = NoValue

Write == reg' \in Values

Garble == contended /\ reg' \in Garbled

Next == Write \/ Garble

Spec == Init /\ [][Next]_reg
=============================================================================
