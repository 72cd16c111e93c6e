---------------------------- MODULE WorkflowTask ----------------------------
(***************************************************************************)
(* Asynchronous workflow tasks of src/source/server.py: the event loop,    *)
(* which runs every client call (workflow_task start/status/cancel and     *)
(* task_status) to its end before the next one, the two executor threads   *)
(* that run the workflows, and the state they share without holding a lock *)
(* over it: the persisted status records, the cancel events, the futures   *)
(* and the subprocesses, all keyed by TASK although a task may have several*)
(* RUNS.  A step below touches one shared item, so everything the threads  *)
(* can interleave is a behaviour here.                                     *)
(*                                                                         *)
(* Persisting a record is three steps: opening the temporary file, which   *)
(* truncates it, filling it, and renaming it.  All writers of a task share *)
(* the temporary file's NAME, so one may rename what another has open;     *)
(* module StatusFile opens up the system calls below these steps.          *)
(***************************************************************************)
EXTENDS Naturals, FiniteSets

CONSTANTS
    Tasks,          \* task ids
    Mutating,       \* those whose workflow is vscode_task_run; the others report
    Runs,           \* submissions; each is used once (the bound on starts)
    Workers,        \* max_workers of the executor
    MaxAttempts,    \* 1 + max_retries
    ClientOps,      \* calls the clients make
    MaxAge,         \* 0: no record expires, 1: records expire, 2: and are pruned
    MaxCrashes,     \* bound on server crashes
    None, Orphan,   \* no value; the event a cancel makes when it finds none
    Loop            \* the event loop, as a writer of files

ASSUME TasksAssumption == Mutating \subseteq Tasks
ASSUME WorkersAssumption == Workers \in Nat \ {0}
ASSUME AttemptsAssumption == MaxAttempts \in 1..4
ASSUME OpsAssumption == ClientOps \subseteq {"start", "restart", "status", "cancel"}
ASSUME AgeAssumption == MaxAge \in 0..2
ASSUME CrashAssumption == MaxCrashes \in Nat
ASSUME NoneAssumption == None \notin Runs \cup Tasks /\ Orphan \notin Runs /\ Orphan # None
ASSUME LoopAssumption == Loop \notin Runs

VARIABLES
    record,     \* the published status record of each task
    staged,     \* the temporary file of each task
    handle,     \* of each writer: which of its task's files it has open
    events,     \* _WORKFLOW_TASK_CANCEL_EVENTS: the event a task id leads to
    fired,      \* the events that are set
    futures,    \* _WORKFLOW_TASK_FUTURES
    procs,      \* _WORKFLOW_TASK_PROCESSES: whose subprocess a task id leads to
    alive,      \* runs whose subprocess exists
    run,        \* each run: its thread's next step and local variables
    client,     \* the event loop's current call
    age,        \* of the record a run created: 0, past expires_at, past retention
    crashes

vars == <<record, staged, handle, events, fired, futures, procs, alive, run, client, age, crashes>>
registry == <<events, futures, procs>>

-----------------------------------------------------------------------------
Final == {"succeeded", "failed", "expired", "cancelled"}
Statuses == Final \cup {"pending", "running", "cancel_requested"}

NoRec == [owner |-> None, status |-> "none", cancel |-> FALSE, resultExpired |-> FALSE]
Rec == [owner : Runs, status : Statuses, cancel : BOOLEAN, resultExpired : BOOLEAN]
MaybeRec == Rec \cup {NoRec}

\* A file may also hold what no reader can parse: nothing, or not all of a
\* document yet; or pieces of two documents.  It keeps its last writer's age.
Unreadable(p) == p.status \in {"empty", "torn"}
Readable(p) == p.status \in Statuses
Scrap(p, s) == [owner |-> p.owner, status |-> s, cancel |-> FALSE, resultExpired |-> FALSE]
FileState == MaybeRec \cup
    [owner : Runs, status : {"empty", "torn"}, cancel : {FALSE}, resultExpired : {FALSE}]

Writers == Runs \cup {Loop}

Idle == [pc |-> "idle", then |-> "idle", task |-> None, run |-> None,
         doc |-> NoRec, settled |-> FALSE]
Fresh == [pc |-> "unused", then |-> "ended", fail |-> "ended", task |-> None,
          payload |-> NoRec, doc |-> NoRec, attempt |-> 0, result |-> "none",
          watch |-> None]

\* A run that holds an executor thread, and one whose future is done.
Threaded == {"check", "stage", "fill", "publish", "work", "reread", "recheck", "failed",
             "attempt", "launch", "popen", "subprocess", "reap", "judge", "finish", "clean"}
Done == {"withdrawn", "ended", "lost"}
RunPCs == Threaded \cup Done \cup {"unused", "starting", "queued"}
ClientPCs == {"idle", "stage", "fill", "publish", "submit", "store", "read", "result",
              "ignore", "signal", "withdraw", "kill", "settle", "clean"}

RunState ==
    [pc : RunPCs, then : {"work", "attempt", "clean", "ended"}, fail : {"failed", "ended"},
     task : Tasks \cup {None}, payload : MaybeRec, doc : MaybeRec, attempt : 0..MaxAttempts,
     result : {"none", "ok", "failed", "transient", "cancelled"},
     watch : Runs \cup {Orphan, None}]
ClientState ==
    [pc : ClientPCs, then : ClientPCs, task : Tasks \cup {None}, run : Runs \cup {None},
     doc : MaybeRec, settled : BOOLEAN]

TypeOK ==
    /\ record \in [Tasks -> FileState]
    /\ staged \in [Tasks -> FileState]
    /\ handle \in [Writers -> {"none", "tmp", "record", "gone"}]
    /\ events \in [Tasks -> Runs \cup {Orphan, None}]
    /\ fired \subseteq Runs \cup {Orphan}
    /\ futures \in [Tasks -> Runs \cup {None}]
    /\ procs \in [Tasks -> Runs \cup {None}]
    /\ alive \subseteq Runs
    /\ run \in [Runs -> RunState]
    /\ client \in ClientState
    /\ age \in [Runs -> 0..2]
    /\ crashes \in 0..MaxCrashes

Init ==
    /\ record = [t \in Tasks |-> NoRec]
    /\ staged = [t \in Tasks |-> NoRec]
    /\ handle = [w \in Writers |-> "none"]
    /\ events = [t \in Tasks |-> None]
    /\ fired = {}
    /\ futures = [t \in Tasks |-> None]
    /\ procs = [t \in Tasks |-> None]
    /\ alive = {}
    /\ run = [r \in Runs |-> Fresh]
    /\ client = Idle
    /\ age = [r \in Runs |-> 0]
    /\ crashes = 0

-----------------------------------------------------------------------------
\* Documents.

Pending(r) == [owner |-> r, status |-> "pending", cancel |-> FALSE, resultExpired |-> FALSE]
Marked(p, s) == [p EXCEPT !.status = s]
Cancelled(p) == [p EXCEPT !.status = "cancelled", !.cancel = TRUE]
CancelRequested(p) == [p EXCEPT !.status = "cancel_requested", !.cancel = TRUE]

\* _workflow_task_payload_cancel_requested
CancelAsked(p) == p.cancel \/ p.status \in {"cancel_requested", "cancelled"}

\* expires_at and retention_expires_at of a record are those of its creation.
Aged(p) == p.owner \in Runs /\ age[p.owner] >= 1
Retired(p) == p.owner \in Runs /\ age[p.owner] = 2

\* The look-up every check makes: by task id, at the time of the check.
CancelSeen(t) == events[t] # None /\ events[t] \in fired

\* The task whose files a writer writes.
TaskOf(w) == IF w = Loop THEN client.task ELSE run[w].task

\* _workflow_task_cleanup_runtime
CleanupRuntime(t) ==
    /\ events' = [events EXCEPT ![t] = None]
    /\ futures' = [futures EXCEPT ![t] = None]
    /\ procs' = [procs EXCEPT ![t] = None]

\* _prune_workflow_task_statuses.  A file that is unlinked stays with whoever
\* has it open.
Pruned == [t \in Tasks |-> IF Retired(record[t]) THEN NoRec ELSE record[t]]
Prune ==
    /\ record' = Pruned
    /\ handle' = [w \in Writers |->
          IF handle[w] = "record" /\ TaskOf(w) \in Tasks /\ Retired(record[TaskOf(w)])
          THEN "gone" ELSE handle[w]]

-----------------------------------------------------------------------------
\* The system calls under _write_workflow_task_status, by writer w of task t.

\* open(..., "w") creates or truncates the temporary file.
Truncates(w, t, doc) ==
    /\ staged' = [staged EXCEPT ![t] = Scrap(doc, "empty")]
    /\ handle' = [handle EXCEPT ![w] = "tmp"]

\* The document goes to the file that was opened, whatever its name is by now.
\* Beside another writer, or over what another has written, it may be spliced.
Shared(w, t) == \E v \in Writers \ {w} : TaskOf(v) = t /\ handle[v] = handle[w]
Written(w, t, old, doc) ==
    {doc} \cup IF old.status = "empty" /\ ~Shared(w, t) THEN {} ELSE {Scrap(doc, "torn")}
Fills(w, t, doc) ==
    /\ handle' = [handle EXCEPT ![w] = "none"]
    /\ \/ /\ handle[w] = "tmp"
          /\ \E new \in Written(w, t, staged[t], doc) : staged' = [staged EXCEPT ![t] = new]
          /\ UNCHANGED record
       \/ /\ handle[w] = "record"
          /\ \E new \in Written(w, t, record[t], doc) : record' = [record EXCEPT ![t] = new]
          /\ UNCHANGED staged
       \/ handle[w] \notin {"tmp", "record"} /\ UNCHANGED <<record, staged>>

\* rename: an open file follows its new name, the file it replaces has none.
Renames(t) ==
    /\ record' = [record EXCEPT ![t] = staged[t]]
    /\ staged' = [staged EXCEPT ![t] = NoRec]
    /\ handle' = [w \in Writers |->
          IF TaskOf(w) # t \/ handle[w] \notin {"tmp", "record"} THEN handle[w]
          ELSE IF handle[w] = "tmp" THEN "record" ELSE "gone"]

-----------------------------------------------------------------------------
\* The event loop.  One call runs to its end before the next one starts, but
\* executor threads run between its steps.

ClientIs(pc) == client.pc = pc
ClientGoes(pc) == client' = [client EXCEPT !.pc = pc]
ClientReads(t) == client' = [Idle EXCEPT !.pc = "read", !.task = t]

\* Persist doc, then continue at pc.
ClientPersists(doc, pc) ==
    client' = [client EXCEPT !.pc = "stage", !.doc = doc, !.then = pc]

ClientStage ==
    /\ ClientIs("stage")
    /\ Truncates(Loop, client.task, client.doc)
    /\ ClientGoes("fill")
    /\ UNCHANGED <<record, registry, fired, alive, run, age, crashes>>

ClientFill ==
    /\ ClientIs("fill")
    /\ Fills(Loop, client.task, client.doc)
    /\ ClientGoes("publish")
    /\ UNCHANGED <<registry, fired, alive, run, age, crashes>>

\* When another thread has renamed the temporary file away, replace() raises
\* and the call ends with FileNotFoundError.
ClientPublish ==
    /\ ClientIs("publish")
    /\ IF staged[client.task] = NoRec
       THEN /\ client' = Idle
            /\ run' = IF client.then = "submit"
                      THEN [run EXCEPT ![client.run].pc = "lost"] ELSE run
            /\ UNCHANGED <<record, staged, handle>>
       ELSE /\ Renames(client.task)
            /\ client' = IF client.then = "idle" THEN Idle
                         ELSE [client EXCEPT !.pc = client.then, !.then = "idle"]
            /\ UNCHANGED run
    /\ UNCHANGED <<registry, fired, alive, age, crashes>>

\* _start_workflow_task where the status file exists: prune, report it.
StartExisting(t) ==
    /\ ClientIs("idle") /\ "start" \in ClientOps
    /\ Pruned[t] # NoRec
    /\ Prune
    /\ ClientReads(t)
    /\ UNCHANGED <<staged, registry, fired, alive, run, age, crashes>>

\* Broken variant: the status file is not looked for.
StartUnchecked(t, r) ==
    /\ ClientIs("idle") /\ run[r].pc = "unused"
    /\ UNCHANGED registry
    /\ Prune
    /\ run' = [run EXCEPT ![r].pc = "starting", ![r].task = t]
    /\ client' = [Idle EXCEPT !.pc = "stage", !.then = "submit", !.task = t,
                              !.run = r, !.doc = Pending(r)]
    /\ UNCHANGED <<staged, fired, alive, age, crashes>>

\* _start_workflow_task of a new run: prune, forget the task's previous run
\* when restarting (without stopping it), persist the pending record.
StartNew(t, r) ==
    /\ ClientIs("idle") /\ run[r].pc = "unused"
    /\ \/ "start" \in ClientOps /\ Pruned[t] = NoRec /\ UNCHANGED registry
       \/ "restart" \in ClientOps /\ CleanupRuntime(t)
    /\ Prune
    /\ run' = [run EXCEPT ![r].pc = "starting", ![r].task = t]
    /\ client' = [Idle EXCEPT !.pc = "stage", !.then = "submit", !.task = t,
                              !.run = r, !.doc = Pending(r)]
    /\ UNCHANGED <<staged, fired, alive, age, crashes>>

\* A fresh cancel event, then executor.submit: a thread may pick the run up
\* at once, before the future is stored.
Submit ==
    /\ ClientIs("submit")
    /\ events' = [events EXCEPT ![client.task] = client.run]
    /\ run' = [run EXCEPT ![client.run].pc = "queued"]
    /\ ClientGoes("store")
    /\ UNCHANGED <<record, staged, handle, futures, procs, fired, alive, age, crashes>>

StoreFuture ==
    /\ ClientIs("store")
    /\ futures' = [futures EXCEPT ![client.task] = client.run]
    /\ ClientReads(client.task)
    /\ UNCHANGED <<record, staged, handle, events, procs, fired, alive, run, age, crashes>>

\* task_status, and the same code at the end of every other call.
StatusOp(t) ==
    /\ ClientIs("idle") /\ "status" \in ClientOps
    /\ ClientReads(t)
    /\ UNCHANGED <<record, staged, handle, registry, fired, alive, run, age, crashes>>

\* Broken variant: only running records expire.
ReadExpiresRunning ==
    /\ ClientIs("read")
    /\ LET p == record[client.task] IN
       CASE ~Readable(p) -> client' = Idle
         [] Readable(p) /\ p.status = "running" /\ Aged(p) ->
                ClientPersists(Marked(p, "expired"), "result")
         [] OTHER -> client' = [client EXCEPT !.pc = "result", !.doc = p]
    /\ UNCHANGED <<record, staged, handle, registry, fired, alive, run, age, crashes>>

\* _expire_workflow_task_if_needed on what was read; a file that is missing or
\* cannot be parsed raises.
ReadStatus ==
    /\ ClientIs("read")
    /\ LET p == record[client.task] IN
       CASE ~Readable(p) -> client' = Idle
         [] Readable(p) /\ p.status \notin Final /\ Aged(p) ->
                ClientPersists(Marked(p, "expired"), "result")
         [] OTHER -> client' = [client EXCEPT !.pc = "result", !.doc = p]
    /\ UNCHANGED <<record, staged, handle, registry, fired, alive, run, age, crashes>>

\* _workflow_task_status_payload records once that a result has expired.
ResultExpiry ==
    /\ ClientIs("result")
    /\ LET p == client.doc IN
       IF p.status \in Final /\ Aged(p) /\ ~p.resultExpired
       THEN ClientPersists([p EXCEPT !.resultExpired = TRUE], "idle")
       ELSE client' = Idle
    /\ UNCHANGED <<record, staged, handle, registry, fired, alive, run, age, crashes>>

\* _cancel_workflow_task: read the record, expire it if needed, decide.
CancelOp(t) ==
    /\ ClientIs("idle") /\ "cancel" \in ClientOps
    /\ Readable(record[t])
    /\ LET p == record[t]
           c == [Idle EXCEPT !.task = t, !.doc = p]
       IN client' =
            CASE p.status \notin Final /\ Aged(p) ->
                    [c EXCEPT !.pc = "stage", !.doc = Marked(p, "expired"), !.then = "ignore"]
              [] p.status \notin Final /\ ~Aged(p) -> [c EXCEPT !.pc = "signal"]
              [] p.status = "cancelled" -> [c EXCEPT !.pc = "read"]
              [] p.status \in Final \ {"cancelled"} -> [c EXCEPT !.pc = "ignore"]
    /\ UNCHANGED <<record, staged, handle, registry, fired, alive, run, age, crashes>>

\* Too late: the request is recorded as ignored in the final record.
IgnoreCancel ==
    /\ ClientIs("ignore")
    /\ ClientPersists([client.doc EXCEPT !.cancel = TRUE], "read")
    /\ UNCHANGED <<record, staged, handle, registry, fired, alive, run, age, crashes>>

\* The event is looked up or made, the future is looked up, the event is set.
Signal ==
    /\ ClientIs("signal")
    /\ LET t == client.task
           e == IF events[t] = None THEN Orphan ELSE events[t]
       IN /\ events' = [events EXCEPT ![t] = e]
          /\ fired' = fired \cup {e}
          /\ client' = [client EXCEPT !.pc = "withdraw", !.run = futures[t]]
    /\ UNCHANGED <<record, staged, handle, futures, procs, alive, run, age, crashes>>

\* future.cancel() succeeds only while no thread has picked the run up.
WithdrawFuture ==
    /\ ClientIs("withdraw")
    /\ LET f == client.run
           taken == f # None /\ run[f].pc \in {"queued", "withdrawn"}
       IN /\ run' = IF taken THEN [run EXCEPT ![f].pc = "withdrawn"] ELSE run
          /\ client' = [client EXCEPT !.pc = "kill", !.settled = taken \/ f = None]
    /\ UNCHANGED <<record, staged, handle, registry, fired, alive, age, crashes>>

\* SIGTERM to the task's subprocess, which may not heed it; then the record
\* READ AT THE BEGINNING of the call is persisted as cancel_requested.
SignalProcess ==
    /\ ClientIs("kill")
    /\ LET p == procs[client.task] IN
       \/ alive' = alive \ {p}
       \/ p \in alive /\ UNCHANGED alive
    /\ ClientPersists(CancelRequested(client.doc), "settle")
    /\ UNCHANGED <<record, staged, handle, registry, fired, run, age, crashes>>

\* Broken variant: the loop marks the record without asking whether the run is done.
SettleAlways ==
    /\ ClientIs("settle")
    /\ LET p == record[client.task]
       IN CASE ~Readable(p) -> client' = Idle
            [] Readable(p) /\ p.status \in Final -> ClientReads(client.task)
            [] OTHER -> ClientPersists(Cancelled(p), "clean")
    /\ UNCHANGED <<record, staged, handle, registry, fired, alive, run, age, crashes>>

\* Nothing will run any more: the loop itself marks the latest record.
Settle ==
    /\ ClientIs("settle")
    /\ LET p == record[client.task]
           over == client.settled \/ run[client.run].pc \in Done
       IN CASE ~over -> ClientReads(client.task)
            [] over /\ ~Readable(p) -> client' = Idle
            [] over /\ Readable(p) /\ p.status \in Final -> ClientReads(client.task)
            [] OTHER -> ClientPersists(Cancelled(p), "clean")
    /\ UNCHANGED <<record, staged, handle, registry, fired, alive, run, age, crashes>>

ClientClean ==
    /\ ClientIs("clean")
    /\ CleanupRuntime(client.task)
    /\ ClientReads(client.task)
    /\ UNCHANGED <<record, staged, handle, fired, alive, run, age, crashes>>

\* The rest of the call the event loop is in.
ClientStep ==
    \/ ClientStage \/ ClientFill \/ ClientPublish
    \/ Submit \/ StoreFuture
    \/ ReadStatus \/ ResultExpiry
    \/ IgnoreCancel \/ Signal \/ WithdrawFuture \/ SignalProcess \/ Settle \/ ClientClean

-----------------------------------------------------------------------------
\* The executor threads.

RunIs(r, pc) == run[r].pc = pc
RunBecomes(r, new) == run' = [run EXCEPT ![r] = new]
RunGoes(r, pc) == RunBecomes(r, [run[r] EXCEPT !.pc = pc])

\* Local variables no later step reads are dropped, in a run that is over and
\* after a document has been persisted.
Over(r, pc) == [Fresh EXCEPT !.pc = pc, !.task = run[r].task,
                             !.attempt = run[r].attempt, !.result = run[r].result]
Resumed(r, pc) ==
    IF pc \in {"clean", "ended"} THEN Over(r, pc)
    ELSE [run[r] EXCEPT !.pc = pc, !.doc = NoRec, !.then = "ended", !.fail = "ended"]

\* Persist doc, then continue at pc, or at err if persisting raises.
Persisting(r, doc, pc, err) ==
    [run[r] EXCEPT !.pc = "stage", !.doc = doc, !.then = pc, !.fail = err]

RunStage(r) ==
    /\ RunIs(r, "stage")
    /\ Truncates(r, run[r].task, run[r].doc)
    /\ RunGoes(r, "fill")
    /\ UNCHANGED <<record, registry, fired, alive, client, age, crashes>>

RunFill(r) ==
    /\ RunIs(r, "fill")
    /\ Fills(r, run[r].task, run[r].doc)
    /\ RunGoes(r, "publish")
    /\ UNCHANGED <<registry, fired, alive, client, age, crashes>>

\* Broken variant: waits for the temporary file instead of failing.
RunPublishWaits(r) ==
    /\ RunIs(r, "publish")
    /\ LET t == run[r].task IN
       /\ staged[t] # NoRec
       /\ Renames(t)
       /\ RunBecomes(r, Resumed(r, run[r].then))
    /\ UNCHANGED <<registry, fired, alive, client, age, crashes>>

RunPublish(r) ==
    /\ RunIs(r, "publish")
    /\ LET t == run[r].task IN
       IF staged[t] = NoRec
       THEN RunBecomes(r, Resumed(r, run[r].fail)) /\ UNCHANGED <<record, staged, handle>>
       ELSE /\ Renames(t)
            /\ RunBecomes(r, Resumed(r, run[r].then))
    /\ UNCHANGED <<registry, fired, alive, client, age, crashes>>

\* A free thread takes the run and reads the task's record.
Begin(r) ==
    /\ RunIs(r, "queued")
    /\ Cardinality({q \in Runs : run[q].pc \in Threaded}) < Workers
    /\ LET p == record[run[r].task] IN
       IF ~Readable(p) THEN RunBecomes(r, Over(r, "ended"))
       ELSE RunBecomes(r, [run[r] EXCEPT !.pc = "check", !.payload = p])
    /\ UNCHANGED <<record, staged, handle, registry, fired, alive, client, age, crashes>>

\* Cancelled before start, or running.
Check(r) ==
    /\ RunIs(r, "check")
    /\ LET me == run[r]
           p == me.payload
       IN IF CancelAsked(p) \/ CancelSeen(me.task)
          THEN RunBecomes(r, Persisting(r, Cancelled(p), "clean", "ended"))
          ELSE RunBecomes(r, [Persisting(r, Marked(p, "running"),
                                         IF me.task \in Mutating THEN "attempt" ELSE "work",
                                         "ended")
                              EXCEPT !.payload = Marked(p, "running")])
    /\ UNCHANGED <<record, staged, handle, registry, fired, alive, client, age, crashes>>

\* governance_report(**args) returns or raises; it cannot be interrupted.
Report(r) ==
    /\ RunIs(r, "work")
    /\ \/ RunBecomes(r, [run[r] EXCEPT !.pc = "reread", !.result = "ok"])
       \/ RunBecomes(r, [run[r] EXCEPT !.pc = "failed", !.result = "failed"])
    /\ UNCHANGED <<record, staged, handle, registry, fired, alive, client, age, crashes>>

\* The latest record, read back to see whether a cancel was recorded.
Reread(r) ==
    /\ RunIs(r, "reread")
    /\ LET p == record[run[r].task] IN
       IF ~Readable(p) THEN RunGoes(r, "failed")
       ELSE RunBecomes(r, [run[r] EXCEPT !.pc = "recheck", !.doc = p])
    /\ UNCHANGED <<record, staged, handle, registry, fired, alive, client, age, crashes>>

\* Broken variant: trusts the record alone, which may have lost the request.
RecheckRecordOnly(r) ==
    /\ RunIs(r, "recheck")
    /\ LET me == run[r]
           done == Marked(me.payload, "succeeded")
       IN RunBecomes(r,
            IF CancelAsked(me.doc) THEN Persisting(r, Cancelled(me.doc), "clean", "failed")
            ELSE [Persisting(r, done, "clean", "failed") EXCEPT !.payload = done])
    /\ UNCHANGED <<record, staged, handle, registry, fired, alive, client, age, crashes>>

\* Cancelled on top of the latest record, succeeded on top of the FIRST one.
Recheck(r) ==
    /\ RunIs(r, "recheck")
    /\ LET me == run[r]
           done == Marked(me.payload, "succeeded")
       IN RunBecomes(r,
            IF CancelAsked(me.doc) \/ CancelSeen(me.task)
            THEN Persisting(r, Cancelled(me.doc), "clean", "failed")
            ELSE [Persisting(r, done, "clean", "failed") EXCEPT !.payload = done])
    /\ UNCHANGED <<record, staged, handle, registry, fired, alive, client, age, crashes>>

\* The except clause; an exception raised in it escapes into the future.
ReportFailed(r) ==
    /\ RunIs(r, "failed")
    /\ RunBecomes(r, Persisting(r, Marked(run[r].payload, "failed"), "clean", "ended"))
    /\ UNCHANGED <<record, staged, handle, registry, fired, alive, client, age, crashes>>

\* The head of the retry loop of _run_vscode_task_inner.
Attempt(r) ==
    /\ RunIs(r, "attempt")
    /\ RunBecomes(r, IF CancelSeen(run[r].task)
                     THEN [run[r] EXCEPT !.pc = "finish", !.result = "cancelled"]
                     ELSE [run[r] EXCEPT !.pc = "launch", !.attempt = @ + 1])
    /\ UNCHANGED <<record, staged, handle, registry, fired, alive, client, age, crashes>>

\* vscode_task_run raises before it starts a subprocess, or looks up the
\* cancel event it will watch.
Launch(r) ==
    /\ RunIs(r, "launch")
    /\ \/ \E res \in {"failed", "transient"} :
            RunBecomes(r, [run[r] EXCEPT !.pc = "judge", !.result = res])
       \/ RunBecomes(r, [run[r] EXCEPT !.pc = "popen", !.watch = events[run[r].task]])
    /\ UNCHANGED <<record, staged, handle, registry, fired, alive, client, age, crashes>>

\* Without an event to watch the subprocess is not registered either.
Popen(r) ==
    /\ RunIs(r, "popen")
    /\ alive' = alive \cup {r}
    /\ procs' = IF run[r].watch = None THEN procs ELSE [procs EXCEPT ![run[r].task] = r]
    /\ RunGoes(r, "subprocess")
    /\ UNCHANGED <<record, staged, handle, events, futures, fired, client, age, crashes>>

\* The finally clause.
Unregistered(r) ==
    LET t == run[r].task IN IF procs[t] = r THEN [procs EXCEPT ![t] = None] ELSE procs

\* Broken variant: a subprocess that takes too long is given up, not killed.
SubprocessAbandoned(r) ==
    /\ RunIs(r, "subprocess")
    /\ LET me == run[r] IN
       /\ \E res \in {"ok", "failed", "transient", "cancelled"} :
            /\ res = "cancelled" => me.watch \in fired
            /\ alive' = IF res = "transient" THEN alive ELSE alive \ {r}
            /\ RunBecomes(r, [me EXCEPT !.pc = "judge", !.result = res, !.watch = None])
       /\ procs' = Unregistered(r)
    /\ UNCHANGED <<record, staged, handle, events, futures, fired, client, age, crashes>>

\* The polling loop: the watched event is seen and the subprocess is killed;
\* the time is up and it is killed; it has exited, with 0 or not, of itself
\* or on a SIGTERM.  The registration is withdrawn if it is still this
\* subprocess.  _terminate_subprocess however reads the output to its end,
\* and a grandchild that has left the session may still hold the pipe.
Subprocess(r) ==
    /\ RunIs(r, "subprocess")
    /\ LET me == run[r] IN
       \E res \in {"ok", "failed", "transient", "cancelled"}, pc \in {"judge", "reap"} :
          /\ res = "cancelled" => me.watch \in fired
          /\ pc = "reap" => me.watch # None /\ res \in {"transient", "cancelled"}
          /\ RunBecomes(r, [me EXCEPT !.pc = pc, !.result = res, !.watch = None])
          /\ procs' = IF pc = "judge" THEN Unregistered(r) ELSE procs
    /\ alive' = alive \ {r}
    /\ UNCHANGED <<record, staged, handle, events, futures, fired, client, age, crashes>>

\* Whoever held the pipe lets go of it, which nothing makes it do:
\* communicate() returns.
PipeCloses(r) ==
    /\ RunIs(r, "reap")
    /\ RunGoes(r, "judge")
    /\ procs' = Unregistered(r)
    /\ UNCHANGED <<record, staged, handle, events, futures, fired, alive, client, age, crashes>>

\* After an attempt: stop when cancelled, ok, out of attempts or not transient.
Judge(r) ==
    /\ RunIs(r, "judge")
    /\ LET me == run[r] IN
       RunBecomes(r,
         IF CancelSeen(me.task) THEN [me EXCEPT !.pc = "finish", !.result = "cancelled"]
         ELSE IF me.result # "transient" \/ me.attempt >= MaxAttempts
              THEN [me EXCEPT !.pc = "finish"]
              ELSE [me EXCEPT !.pc = "attempt"])
    /\ UNCHANGED <<record, staged, handle, registry, fired, alive, client, age, crashes>>

\* Broken variants: no last look at the event; success unless known to have failed.
FinishUnchecked(r) ==
    /\ RunIs(r, "finish")
    /\ LET me == run[r]
           doc == IF me.result = "cancelled" THEN Cancelled(me.payload)
                  ELSE Marked(me.payload, IF me.result = "ok" THEN "succeeded" ELSE "failed")
       IN RunBecomes(r, Persisting(r, doc, "clean", "ended"))
    /\ UNCHANGED <<record, staged, handle, registry, fired, alive, client, age, crashes>>

FinishOptimistic(r) ==
    /\ RunIs(r, "finish")
    /\ LET me == run[r]
           doc == IF me.result = "cancelled" \/ CancelSeen(me.task) THEN Cancelled(me.payload)
                  ELSE Marked(me.payload, IF me.result = "failed" THEN "failed" ELSE "succeeded")
       IN RunBecomes(r, Persisting(r, doc, "clean", "ended"))
    /\ UNCHANGED <<record, staged, handle, registry, fired, alive, client, age, crashes>>

\* The last look at the event decides the final record, which is built on the
\* record read when the run began.
Finish(r) ==
    /\ RunIs(r, "finish")
    /\ LET me == run[r]
           doc == IF me.result = "cancelled" \/ CancelSeen(me.task) THEN Cancelled(me.payload)
                  ELSE Marked(me.payload, IF me.result = "ok" THEN "succeeded" ELSE "failed")
       IN RunBecomes(r, Persisting(r, doc, "clean", "ended"))
    /\ UNCHANGED <<record, staged, handle, registry, fired, alive, client, age, crashes>>

\* Pops whatever the task id leads to by now.
RunClean(r) ==
    /\ RunIs(r, "clean")
    /\ CleanupRuntime(run[r].task)
    /\ RunBecomes(r, Over(r, "ended"))
    /\ UNCHANGED <<record, staged, handle, fired, alive, client, age, crashes>>

\* What a thread does of itself, and what it waits for.
ThreadStep(r) ==
    \/ RunStage(r) \/ RunFill(r) \/ RunPublish(r) \/ Begin(r) \/ Check(r)
    \/ Report(r) \/ Reread(r) \/ Recheck(r) \/ ReportFailed(r)
    \/ Attempt(r) \/ Launch(r) \/ Popen(r) \/ Subprocess(r) \/ Judge(r) \/ Finish(r)
    \/ RunClean(r)
RunStep(r) == ThreadStep(r) \/ PipeCloses(r)

-----------------------------------------------------------------------------
\* Time passes for the records a run created.
Tick(r) ==
    /\ run[r].pc # "unused" /\ age[r] < MaxAge
    /\ age' = [age EXCEPT ![r] = @ + 1]
    /\ UNCHANGED <<record, staged, handle, registry, fired, alive, run, client, crashes>>

\* The server dies and comes back: threads and dictionaries are gone, files
\* stay, and subprocesses, being in sessions of their own, live on.
Crash ==
    /\ crashes < MaxCrashes
    /\ crashes' = crashes + 1
    /\ run' = [r \in Runs |-> IF run[r].pc \in {"unused", "ended", "withdrawn"} THEN run[r]
                              ELSE Over(r, "lost")]
    /\ client' = Idle
    /\ events' = [t \in Tasks |-> None]
    /\ futures' = [t \in Tasks |-> None]
    /\ procs' = [t \in Tasks |-> None]
    /\ fired' = {}
    /\ handle' = [w \in Writers |-> "none"]
    /\ UNCHANGED <<record, staged, alive, age>>

\* A subprocess nobody waits for any more exits.
OrphanExits(r) ==
    /\ run[r].pc = "lost" /\ r \in alive
    /\ alive' = alive \ {r}
    /\ UNCHANGED <<record, staged, handle, registry, fired, run, client, age, crashes>>

Next ==
    \/ \E t \in Tasks : StartExisting(t) \/ StatusOp(t) \/ CancelOp(t)
    \/ \E t \in Tasks, r \in Runs : StartNew(t, r)
    \/ ClientStep
    \/ \E r \in Runs : RunStep(r) \/ Tick(r) \/ OrphanExits(r)
    \/ Crash

Spec == Init /\ [][Next]_vars

\* The event loop goes on with the call it is in, threads are scheduled, and
\* every subprocess ends or is killed when its time is up.  Nothing is said of
\* the processes it leaves behind.
FairSpec ==
    /\ Spec
    /\ WF_vars(ClientStep)
    /\ \A r \in Runs : WF_vars(ThreadStep(r))

-----------------------------------------------------------------------------
\* Properties.

\* A task id never has two runs that could both still do work, so a plain
\* start of a task that is known returns its record instead of a second run.
Live(r) == run[r].pc \in Threaded \cup {"starting", "queued"}
OneRunPerTask ==
    \A q, r \in Runs : Live(q) /\ Live(r) /\ run[q].task = run[r].task => q = r

\* A run that has not yet decided how it ends.
Undecided == {"queued", "check", "work", "reread", "recheck", "attempt", "launch",
              "popen", "subprocess", "reap", "judge", "finish"}
Deciding(r) == run[r].pc \in Undecided
Signalled(r) == r \in fired

\* A cancel whose event was set while the run had not made its last check is
\* honoured: whatever the thread does in between, and although it persists
\* records that have forgotten the request, it does not end as succeeded.
CancelHonoured ==
    [][\A r \in Runs :
         Signalled(r) /\ Deciding(r) =>
            ~(run'[r].pc = "stage" /\ run'[r].doc.status = "succeeded")]_vars

\* No subprocess outlives the verdict: while one exists and the server that
\* started it runs, its task's record does not say that the work is over.
NoStrayProcess ==
    \A r \in Runs :
        r \in alive /\ run[r].pc # "lost" =>
            record[run[r].task].status \notin {"succeeded", "failed", "cancelled"}

\* "succeeded" is only ever shown for a task some run of which did succeed.
SuccessIsReal ==
    \A t \in Tasks :
        record[t].status = "succeeded" =>
            \E r \in Runs : run[r].task = t /\ run[r].result = "ok"

\* Every run that was submitted ends, cancelled or not, whatever happens to
\* the files it persists to: no thread is lost to the executor, unless to a
\* process that its subprocess left behind and that never closes the pipe.
PipesClose == \A r \in Runs : []<>(run[r].pc # "reap")
RunsEnd == PipesClose => \A r \in Runs : run[r].pc = "queued" ~> run[r].pc \in Done

\* While the server stays up without restarts, a cancel reaches the thread
\* that waits for the subprocess: it watches the very event that was set, so
\* the subprocess is killed even when it ignores SIGTERM.
CancelReachesWatcher ==
    \A r \in Runs :
        r \in alive /\ Signalled(r) /\ run[r].pc # "lost" => run[r].watch = r

\* As long as clients poll a task and its expiry time passes, its record
\* becomes final, also when the server died under it or a pipe is held; only
\* a record that two writers have spoilt together may stay as it is for ever.
Polled == /\ \A t \in Tasks : SF_vars(StatusOp(t))
          /\ \A r \in Runs : WF_vars(Tick(r))
EventuallyFinal ==
    Polled => \A t \in Tasks :
        [](record[t] # NoRec => \/ <>(record[t] = NoRec \/ record[t].status \in Final)
                                \/ <>[]Unreadable(record[t]))

\* docs/workflow-tasks.md: "if the workflow already reached a terminal state,
\* the status remains terminal and the cancel request is recorded as ignored".
TerminalStaysTerminal ==
    [][\A t \in Tasks :
         record[t].status \in Final /\ record'[t].owner = record[t].owner
         => record'[t].status \in Final]_vars

-----------------------------------------------------------------------------
\* The promise to clients, as an abstract specification of the runs.

Phase(r) ==
    LET me == run[r] IN
    CASE me.pc \in {"unused", "starting"} -> "none"
      [] me.pc = "queued" -> "accepted"
      [] me.pc \in {"stage", "fill", "publish"} /\ me.doc.status # "running" -> me.doc.status
      [] me.pc = "failed" -> "failed"
      [] me.pc \in Done \cup {"clean"} -> "over"
      [] OTHER -> "working"

Contract == INSTANCE WorkflowTaskContract WITH
    phase <- [r \in Runs |-> Phase(r)],
    task <- [r \in Runs |-> IF Phase(r) = "none" THEN None ELSE run[r].task],
    asked <- fired \cap Runs
ContractSpec == Contract!Spec

-----------------------------------------------------------------------------
\* What makes SuccessIsReal inductive.

\* A run whose outcome is ok for good: nothing it does from here on changes that.
Sealed(me) ==
    /\ me.result = "ok"
    /\ \/ me.pc \in {"reread", "recheck", "failed", "finish", "clean"} \cup Done
       \/ me.pc \in {"stage", "fill", "publish"} /\ me.then = "clean"
Proven(t) == \E r \in Runs : run[r].task = t /\ Sealed(run[r])

\* A success is in a task's files, or on its way there.
Claims(me) == me.pc \in {"stage", "fill", "publish"} /\ me.doc.status = "succeeded"
Claimed(t) ==
    \/ record[t].status = "succeeded" \/ staged[t].status = "succeeded"
    \/ client.task = t /\ client.doc.status = "succeeded"
    \/ \E r \in Runs : run[r].task = t /\ Claims(run[r])

\* The report's thread reads its record back only after the report has returned.
ReadsBack(me) == me.pc \in {"reread", "recheck"} => me.result = "ok"

RealInv ==
    /\ \A t \in Tasks : Claimed(t) => Proven(t)
    /\ \A r \in Runs : ReadsBack(run[r])

-----------------------------------------------------------------------------
\* What makes NoStrayProcess inductive where clients do not restart and no
\* record is pruned.

Verdicts == {"succeeded", "failed", "cancelled"}

\* A run that has a subprocess, or may still start one.
AtWork(me) ==
    \/ me.pc \in {"starting", "queued", "check", "work", "reread", "recheck", "attempt",
                 "launch", "popen", "subprocess", "reap", "judge", "finish"}
    \/ me.pc \in {"stage", "fill", "publish"} /\ me.then \in {"work", "attempt"}

\* A verdict is in a task's files or in the hands of the loop.
Told(t) ==
    \/ record[t].status \in Verdicts \/ staged[t].status \in Verdicts
    \/ client.task = t /\ client.doc.status \in Verdicts

\* What a thread persists before its work is no verdict.
ToldLast(me) ==
    me.pc \in {"stage", "fill", "publish"} /\ me.then \in {"work", "attempt"} =>
        me.doc.status \notin Verdicts

StrayInv ==
    /\ \A r \in Runs : AtWork(run[r]) => ~Told(run[r].task)
    /\ \A t \in Tasks : Told(t) => record[t] # NoRec
    /\ \A r \in Runs : ToldLast(run[r])

-----------------------------------------------------------------------------
(***************************************************************************)
(* The promise to clients.  Where nobody restarts, nothing expires and the *)
(* server stays up, the runs implement WorkflowTaskContract.  A step of a  *)
(* run maps to a step of the contract by what the run has learned: a run   *)
(* that ends as cancelled was asked to, though it may know so from the     *)
(* record, from a document someone else wrote, from its subprocess or from *)
(* the event; and a run that ends as succeeded was not.                    *)
(***************************************************************************)

Calm == "restart" \notin ClientOps /\ MaxAge = 0 /\ MaxCrashes = 0

\* A request to cancel is in a task's files or in the hands of the loop.
Heard(t) ==
    \/ CancelAsked(record[t]) \/ CancelAsked(staged[t])
    \/ client.task = t /\ CancelAsked(client.doc)

\* Whoever reads it there, its event was set before.
HeardFires == \A r \in Runs : AtWork(run[r]) /\ Heard(run[r].task) => r \in fired
HeardRecorded == \A t \in Tasks : Heard(t) => record[t] # NoRec

\* A run that no thread has taken up knows nothing yet.
Untouched(me) ==
    me.pc \in {"unused", "starting", "queued"} => me.payload = NoRec /\ me.result = "none"

\* What a run at work has read or was told of a cancel is true of its event.
Knows(me, r) ==
    AtWork(me) =>
        /\ CancelAsked(me.payload) => r \in fired
        /\ me.pc = "recheck" /\ CancelAsked(me.doc) => r \in fired
        /\ me.result = "cancelled" => r \in fired

\* A document that is being persisted fits where the thread goes on.
DocFits(me) ==
    me.pc \in {"stage", "fill", "publish"} =>
        /\ me.then \in {"work", "attempt"} => me.doc.status = "running" /\ ~me.doc.cancel
        /\ me.then \notin {"work", "attempt"} => me.then = "clean" /\ me.doc.status \in Verdicts
        /\ me.fail = "failed" => me.doc.status \in {"succeeded", "cancelled"}
RunsFit == \A r \in Runs : Untouched(run[r]) /\ Knows(run[r], r) /\ DocFits(run[r])

\* Events and futures are of runs that were submitted.
Submitted(r) == run[r].pc \notin {"unused", "starting"}
Registered ==
    /\ \A r \in Runs : r \in fired => Submitted(r)
    /\ \A t \in Tasks : events[t] \in Runs => Submitted(events[t])
    /\ \A t \in Tasks : futures[t] \in Runs =>
          Submitted(futures[t]) /\ run[futures[t]].task = t

NeverExpired == \A t \in Tasks : record[t].status # "expired" /\ staged[t].status # "expired"

\* The loop's next step fits what it holds.
LoopFits ==
    /\ client.doc.status # "expired"
    /\ client.pc \in {"store", "withdraw"} /\ client.run \in Runs =>
          Submitted(client.run) /\ run[client.run].task = client.task
    /\ client.pc \in {"signal", "withdraw", "kill"} => record[client.task] # NoRec
    /\ client.pc \in {"withdraw", "kill"} =>
          \A r \in Runs : AtWork(run[r]) /\ run[r].task = client.task => r \in fired
    /\ client.pc = "ignore" => client.doc.status \in Verdicts
    /\ client.pc \in {"stage", "fill", "publish"} => client.then # "ignore"

\* A run has a file open only while it fills it, so the loop is alone with the
\* files of a task whose run no thread has taken up, and they are whole.
HandlesHeld == \A r \in Runs : handle[r] # "none" => run[r].pc = "fill"
Untorn ==
    \A r \in Runs : run[r].pc \in {"starting", "queued"} =>
        /\ ~Unreadable(record[run[r].task])
        /\ client.task = run[r].task =>
              /\ client.pc = "fill" =>
                    handle[Loop] = "tmp" /\ staged[client.task].status = "empty"
              /\ client.pc = "publish" => Readable(staged[client.task])

AskInv ==
    /\ HeardFires /\ HeardRecorded /\ RunsFit /\ Registered
    /\ NeverExpired /\ LoopFits /\ HandlesHeld /\ Untorn
=============================================================================
