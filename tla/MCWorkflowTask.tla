--------------------------- MODULE MCWorkflowTask ---------------------------
EXTENDS WorkflowTask, TLC

RunSymmetry == Permutations(Runs)
=============================================================================
