------------------------ MODULE WorkflowTaskContract ------------------------
(***************************************************************************)
(* What the workflow-task layer promises about the runs of a task while    *)
(* the server stays up and nobody asks for a restart: at most one open run *)
(* per task, a run that reaches exactly the verdicts its history allows,   *)
(* and a cancel that binds every run it was addressed to in time.          *)
(***************************************************************************)
CONSTANTS Tasks, Runs, None

VARIABLES
    phase,      \* where each run stands
    task,       \* the task it belongs to
    asked       \* runs whose cancellation has been asked for

vars == <<phase, task, asked>>

Verdicts == {"succeeded", "failed", "cancelled"}
Open == {"accepted", "working"}

Init ==
    /\ phase = [r \in Runs |-> "none"]
    /\ task = [r \in Runs |-> None]
    /\ asked = {}

Accept(r, t) ==
    /\ phase[r] = "none"
    /\ \A q \in Runs : task[q] = t => phase[q] \notin Open
    /\ phase' = [phase EXCEPT ![r] = "accepted"]
    /\ task' = [task EXCEPT ![r] = t]
    /\ UNCHANGED asked

StartWork(r) ==
    /\ phase[r] = "accepted"
    /\ phase' = [phase EXCEPT ![r] = "working"]
    /\ UNCHANGED <<task, asked>>

Ask(r) ==
    /\ phase[r] # "none"
    /\ asked' = asked \cup {r}
    /\ UNCHANGED <<phase, task>>

\* A run nobody has taken up is dropped when it is cancelled.
Withdraw(r) ==
    /\ phase[r] = "accepted" /\ r \in asked
    /\ phase' = [phase EXCEPT ![r] = "over"]
    /\ UNCHANGED <<task, asked>>

\* Success needs a run that nobody asked to stop, cancellation one that
\* somebody did.
Decide(r, v) ==
    /\ phase[r] = "working"
    /\ v = "succeeded" => r \notin asked
    /\ v = "cancelled" => r \in asked
    /\ phase' = [phase EXCEPT ![r] = v]
    /\ UNCHANGED <<task, asked>>

\* A verdict that could not be persisted may turn into a failure.
Fail(r) ==
    /\ phase[r] \in {"succeeded", "cancelled"}
    /\ phase' = [phase EXCEPT ![r] = "failed"]
    /\ UNCHANGED <<task, asked>>

\* The thread is done with the run, after its verdict or because persisting
\* the run's start or its verdict failed.
Close(r) ==
    /\ phase[r] \in Verdicts \cup {"working"}
    /\ phase' = [phase EXCEPT ![r] = "over"]
    /\ UNCHANGED <<task, asked>>

Next ==
    \/ \E r \in Runs, t \in Tasks : Accept(r, t)
    \/ \E r \in Runs : StartWork(r) \/ Ask(r) \/ Withdraw(r) \/ Fail(r) \/ Close(r)
    \/ \E r \in Runs, v \in Verdicts : Decide(r, v)

Spec == Init /\ [][Next]_vars
=============================================================================
