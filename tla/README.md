# TLA+ models of codebase-tooling-mcp

The server (`src/source/server.py`) exposes repository tools to coding agents
over MCP and HTTP.  Most of its tools are single-shot and read-only; what can go
wrong in a way no unit test shows is in the parts that keep state between calls
or between threads.  This directory models those parts in TLA+, checks them with
TLC and proves the most important facts for every instance size with TLAPS.

Line numbers below refer to `src/source/server.py` unless another file is named.

## The system

One Python process runs one asyncio event loop (FastMCP over streamable HTTP).
Synchronous tools run *inside* the event loop, one at a time and to their end,
so two tool calls never interleave; what does interleave with them are
threads (the two-worker executor of asynchronous tasks, the reader threads of
observed subprocesses), editors, git and commands that change the same files, the
server process that a restart brings up on them, and the bodies of tools that call
other tools.

| component | state | operations | where |
|---|---|---|---|
| task status files | `.codebase-tooling-mcp/tasks/<id>.json`, `.json.tmp` | write (temporary file, rename), read | 17743-17770 |
| asynchronous tasks | status records; `_WORKFLOW_TASK_FUTURES`, `_CANCEL_EVENTS`, `_PROCESSES`; two executor threads | start, restart, status, result, cancel, expiry, prune, run | 16881-18460, 38200-38330 |
| mutation replay guard | journal `.codebase-tooling-mcp/audit/mutation_replay_journal.json` | begin, finish, around every mutating tool | 14900-15420 |
| edit transactions | `transactions/<id>.json`, the files they touch | begin, apply, validate, rollback, commit | 22684-22704, 43020-43152, 40598-40815 |
| state snapshots | git stashes, snapshot index, work tree | create, restore | 40478-40595 |
| progress bridge | request-to-task mappings, last progress | register, publish, clean up | 17173-17331 |
| stream replay | bounded event log per stream | store, replay after | 1416-1544 |
| SSE hub | event history, subscriber queues | publish, connect, replay, serve, leave | 1567-1574, 15625-15645, 46646-46685 |
| observed subprocess | process, two reader threads | start, read, wait or kill, join | 15654-15774 |
| HTTP gate, rate limit | per-address deques | admit | 2033-2050 |
| result references | in-memory handles with a time to live | create, resolve, expire | 16428-16878 |
| memory store | one JSON file of entries, summaries, decisions; statistics | upsert, decide, get, validate, compact, capture | 21264-21433, 21509-21557, 44288-44620 |
| repository index and tool cache | `tool_cache.json`, `repo_index.json` | analyse, look up, store, prune, refresh | 21765-21915, 22624-22644, 27413-27600, 43754-43878 |
| terminal sessions | table of sessions with a process, a pty or pipes, a log file | start, send, poll, stop | 22073-22103, 28067-28327 |
| security gate, auth, audit | configuration, audit file | check, append | 2498-2529, 15273-15595 |
| task router | none of its own (calls other tools) | route | 33131-33680 |
| agent proxy | disclosure file; one streamed answer's buffer | anonymise, call, restore, audit | 2974-3205, 4094-4226, 45794-45822 |

Interactions: every mutating tool that arrives over HTTP runs inside the replay
guard when the guard is switched on; `workspace_transaction` calls the snapshot,
transaction and patch tools, some of which are guarded themselves, so that guards
nest; asynchronous runs call `governance_report` or `vscode_task_run` on an
executor thread and publish progress through the bridge to the request that
started them; tools that observe a subprocess publish its output to the SSE hub
from its reader threads; the stream replay store keeps the events a reconnecting
client asks for.

## What is hard, and the properties that answer it

The full list, with lines, is `hazards` in `PROJECT.json`.  In short:

* **stale records**: cancel, expiry and the run itself all build the record they
  write on a record they read earlier.  `CancelHonoured` says the request
  survives nevertheless; `TerminalStaysTerminal` is what the documentation
  promises and the code does not keep.
* **state keyed by task, used by runs**: a task id may have several runs, one of
  them forgotten.  `OneRunPerTask`, `CancelReachesWatcher`, `SuccessIsReal`.
* **subprocesses** that ignore SIGTERM and outlive the server: `NoStrayProcess`.
* **several writers through one temporary name**, failing writes and a crash in the
  middle of one: `RegisterSpec`, `WholeReads` for the status files;
  `BackupIsOriginal` for transactions, whose metadata is written in place.
* **a thread that never comes back to the executor**, its file gone or a pipe held:
  `RunsEnd`; a record that stays `running` after a crash, or that nobody can parse:
  `EventuallyFinal`.
* **a mutation that is repeated**, under another key, from inside another tool,
  after a crash or after a save that failed: `AtMostOnce`, `WriteAhead`.  The
  journal is bounded and pruned at different moments by nested calls:
  `KeyBindsOne`, `SettledStays`.  What a repetition is told:
  `PlainOkIsReal`; what a reused key is: `ConflictMeansReuse`.
* **a rollback that cannot undo**: apply keeps its backups in memory until its
  batch is done.  `RollbackRestores` says what a rollback does put back,
  `RollbackUndoesAll` what its callers expect.
* **progress by two threads** over a bridge without a lock: `MonotonicAlone`.
  **A client that reconnects** to a store that forgets by age and by count: `NoGap`,
  `ReplayAvailable`; request ids that two sessions share: `ReplayUnmixed`.
* **work that a snapshot takes off the tree** and puts back, with failing git
  commands, deaths and a developer in between: `NoWorkLost`, `RestoreExact`.
* **a file rewritten in place** whose unreadable form counts as empty: `MemKept`.
  **Decisions** that are only ever appended: `MemHumanWins`.
* **a stream cut anywhere** with names to be put back: `PxRestored`,
  `PxSplitRestored`; **an audit line that must come first**: `PxDisclosed`.
* **a sliding window at its edges**: `WithinBudget`, `WaitSuffices`.
* **a cache keyed by part of what it depends on**, and an index taken over by looking at
  sizes and times: `AnswerIsCurrent`, `IndexIsCurrent`.
* **a command that writes while it is being stopped**, calls that raise half-way:
  `TermReachable`, `TermLogged`, `TermLastWords`.
* **publishers that put events into queues without the lock** they numbered them
  under, while subscribers come and go: `SourceOrder`, `NothingLost`,
  `SeamlessReplay`; a reader thread that outlives its join:
  `FinishLast`; a full queue or a pipe held open by a grandchild:
  `LoopReturns`.

## Modules

| module | models | with |
|---|---|---|
| `StatusFile` | the system calls behind one task status file | `AtomicRegister`, the abstract specification it implements; `StorageProofs` |
| `WorkflowTask` | asynchronous tasks: event loop, executor threads, records, registries, subprocesses | `WorkflowTaskContract`, what clients are promised; `WorkflowTaskProofs` |
| `MutationReplayGuard` | the journal and the nested guarded calls | `MutationReplayGuardProofs` |
| `EditTransaction` | begin, apply, rollback, commit over files that others write too | `WorkTreeProofs` |
| `SseHub` | the event hub, its subscribers and an observed subprocess | `SseHubProofs` |
| `TaskProgress` | progress bridge, request mappings and replay store: how a client learns of its task | `TaskProgressProofs` |
| `MemoryStore` | the context memory and the priority of decisions | `StorageProofs` |
| `WorkSnapshot` | state_snapshot and state_restore, command by command | `WorkTreeProofs` |
| `AgentProxyStream` | one streamed answer through the agent proxy | `ServicesProofs` |
| `HttpRateLimit` | the request budget per address | `ServicesProofs` |
| `AnalysisIndex` | fingerprinted analyses, their cache, the repository index | `StorageProofs` |
| `TerminalSession` | support sessions around a command that writes and exits when it likes | `ServicesProofs` |
| `Subsequences` | `Only`, what a list comprehension with a condition keeps | `SubsequenceProofs` |
| `MCServices` | eight of these side by side, for one run | `ServicesProofs` |

Modules named `MC...` hold the definitions TLC's configurations need (symmetry
sets, functions over model values).  In each module, operators such as
`StartUnchecked` or `KeyConcerns`, introduced by a comment "Broken variant",
are what a plausible bug would make of a definition; nothing uses them.  They
are listed under `mutants` in `PROJECT.json` with the property that notices:
substituting one for the definition it varies makes TLC report that property.

### StatusFile

`dir` maps the two names (`<id>.json`, `<id>.json.tmp`) to inodes, `data` holds
what is in each inode; `OpenTmp`, `WriteTmp` (or `WriteFails`), `Replace` are the three calls of
`_write_workflow_task_status`, `OpenStatus` and `ReadStatus` the two of the
reader.  The temporary name depends on the task only (17753), so the event loop and
the task's workers share it: an inode may have two writers, `WriteTmp` over a file
that is no longer empty may splice two documents (`Mixed`), and a rename may publish what
another writer has only truncated (`Empty`).  `contended` records that writes overlap,
from the second open until the last of the writers has finished.  `WholeReads` says
that a reader gets a whole document from a file that was whole, and not contended, when it
opened it, whatever happens until it reads; `RegisterSpec` that the pair of files is a
register which only overlapping writes can garble, which a later write replaces
by a whole document, and which is never absent again.  `Crash` is the death of the process: the page
cache survives, power loss is not modelled (the code does not call `fsync`).  Pruning,
which unlinks retired records, is in `WorkflowTask`.

### WorkflowTask

One step touches one shared item.  `run[r]` is an executor thread's program
counter and locals for one submission, `client` the event loop's.  The event loop
runs one call at a time, so there is one `client`.  Correspondence and
abstractions:

* `StartExisting`/`StartNew` are `_start_workflow_task` up to the record it
  decides on, pruning included; `StatusOp` and `CancelOp` begin the other calls;
  what follows is in `ClientStep`.  A start with `retry_of` is a status call followed
  by a start and has no action of its own.
* `RunStep` goes through `_run_governance_report_task_inner` or
  `_run_vscode_task_inner`: mark running, work, reread, judge, publish, clean up,
  with the error path of each persist.
* The executor's FIFO is "any queued run, if a worker is free"; this only adds
  behaviours.  The polling loop around a subprocess is one step per outcome.
  SIGTERM may be ignored; SIGKILL is not.
* `_terminate_subprocess` reads the output to its end, in 17477 and 17497 without a time
  limit.  A process that left the killed session and inherited the pipe keeps it
  open, so `Subprocess` may end in `reap`, where the thread holds its place in the
  executor until `PipeCloses`, for which nothing is assumed.  `RunsEnd` is therefore
  stated for behaviours in which every pipe is closed some time (`PipesClose`):
  without that, threads are lost to the executor, and with all of them every queued run.
  `NoStrayProcess` is about the subprocess itself, not about what it detached.
* `registry` is the three dictionaries.  `setdefault` and `set` on an event are one
  step; the clean-up of the three is a step of its own.
* A record keeps owner, status, the cancel mark and the mark of an expired result.
  Payload, artifacts, timestamps, progress, audit and spans are left out;
  `Tick` ages records past `expires_at` and past retention.
* Persisting is three steps: truncate the temporary file `staged` (`ClientStage`,
  `RunStage`), fill it (`ClientFill`, `RunFill`; the document is one `write`), rename it
  (`ClientPublish`, `RunPublish`).  `handle` says which of its task's files a writer has
  open, since an open file follows its name when it is renamed or unlinked: a writer whose
  truncated file another one has published fills the published record.  Whatever is filled
  beside another writer may be spliced (`torn`), which no reader can parse.  An unreadable
  record keeps the age of its last writer's run.
* When the server dies while such a record is published, or two writers splice it as
  their last act, every later poll, cancel and start of the task raises (17767), and nothing
  turns the record into a final one until it is pruned.  `EventuallyFinal` therefore exempts a record that stays
  unreadable for ever.  A read is one step: what a reader gets of a file that is
  written meanwhile is in `StatusFile`.

### MutationReplayGuard

`journal` is the file, `stack` the guarded calls in progress, outermost first;
only the top one can move.  `Begin...`, `Execute`/`Reject`/`Invoke`, `Finish` are the parts of
`_run_with_mutation_replay_guard` before, during and after the tool.  A digest is
a body and the HEAD it was computed at, which is by design (15100-15119): after
HEAD has moved the same call is another mutation.  `SaveFails` may hit each save.
`Execute` may take the journal with it, because a restore may clean ignored
files.  The only guarded tool that calls a guarded tool in this configuration is
`workspace_transaction(mode="apply_diff")`; `Wraps` names such pairs.  Reading an
unreadable journal (counts as empty, 14970) and the audit events are left out.

### EditTransaction

An operation is a sequence of steps on the files: `BackUp`, `Write` (truncate, then
fill: a file may be left `Torn`), `Applied`, `Restore`, `SaveOpen`, `SaveFill`.
`Breaks` ends it anywhere: an exception and a crash leave the same state, files as
they are and memory gone.  The batch of an apply and the order of a rollback are
chosen step by step; `Edit` is any other tool writing a path in between.
`Decoded` is `read_text(errors="replace")` with universal newlines: it is not the identity, so
a rollback gives back a *reading* of the original, and the properties say so.

### SseHub

`Publish` is the critical section of `_sse_publish` (number, history, copy of the
table), `Deliver` one `put_nowait` after it.  `loop` is what the event loop's
thread has begun; while it is not `Idle` no subscriber is served.  `Connect`,
`Register`, `Announce` are `sse_events`; `SendReplay`, `Serve`, `Leave`, `Goodbye` its
generator; `Abandon` is a client that is gone before the generator was started, so that its
`finally` never runs.  `RunStart` to `Finish` are `_run_observed_subprocess`, which
is called on the event loop (no executor thread reaches it) by `_run_reuse` alone, always with a
number of seconds (22975-22986); its waits have a time limit, so `Waited` and `Join` may happen at any time.  `EndOfFile`
may never happen: a grandchild may hold the pipe.  A line longer than one event
is several outputs, and `command_runner` and the terminal tools publish from the
event loop in the same way as `RunStart` and `Finish` and add nothing.

### TaskProgress

A call is one request of one session; request ids are chosen by clients and the code
keys its mappings by them alone, so the model lets two sessions use the same one.
`Start`, `Register`, `Submit` are the three parts of `_start_workflow_task` that matter to
a client: record, bridge, run.  A notification (`_workflow_task_emit_progress`) is a
sequence of steps of the thread that sends it: `Read` the bridge and the last value,
`Send`, and at the end of the task `Clean`.  The executor thread and the event loop each
have one notification under way (`job`).  `Route`, `Post`, `Deliver`, `Disconnect` are the MCP
SDK's transport, external, as the code's event store sees it: every message is given to
`store_event`, then to the connected client; a reconnecting client names the last event it
has.  `Stored`, `Adopted`, `Accepts`, `Scoped` are the methods of the store.
A replay is a sequence of steps of the event loop: under the lock the list of what was missed
is made (`Reconnect`, 1497-1523); its rows are awaited one by one (`SendMissed`, 1524-1528);
then the SDK connects the stream (`Reopen`, after 1529).  What is routed to the call
in between is stored, but it is neither in the list nor sent live: the client
never gets it unless it loses its connection once more before the next event.  The history
`late` has those events, and `NoGap` says that nothing else is missing.  How long the window lasts
beyond the awaits of this code is up to the SDK.
`MaxMappings`, which the code derives from the store's size, is a constant of its own.  `restart`'s removal of the bridge is left out.
`ProgressMonotonic` states docs/workflow-tasks.md:27; it does not hold once a second call
starts the same task or a cancellation reports on an older record, and is in no run: `MonotonicAlone`
says where it does hold.

### MemoryStore

`memFile` is the whole file, a sequence of rows per list; an operation computes the new content,
truncates (`MemOpen`) and fills (`MemWrite`); `MemCrash` in between leaves the file torn, and a
torn file counts as empty (21278).  `memTold` is what clients were told is stored.  What
`memory_validate` does beyond its name is modelled as it is: it looks at the first
`max_entries` rows of each list, and with `drop_expired` writes back only those (44556,
44604), so that the rows after them are gone; `MemKept` excludes exactly those rows.
`EffectiveDecision` is the code's single pass, `MemHumanWins` compares it with the definition.

### WorkSnapshot

Every git command of the two tools is a step that may fail, and `SnapStops` a death or
exception between two; the tree is one tracked and one untracked file, the stash a
sequence of commits.  `Developer` edits and commits at any moment; that another process
pushes to the stash between the server's `push` and `drop` is excluded, the code has no
defence and `stash@{0}` would be the other's.  A failing push is taken for a tree without
changes, as in the code (40496), and noted in `snapBlind`.  The index file is written in place.
`state_restore` with `clean` also removes ignored files, its own index among them; the
refs survive, and the model keeps the index readable or torn only.

### AgentProxyStream

Text is a sequence of symbols; placeholders share their opening and closing, as in the
code, since that is what makes a whole placeholder look like the beginning of
another (`Placeholders` is the shape that `_agent_proxy_new_placeholder` gives them).  A
name is one symbol.  The request has a placeholder at least; without one the code passes every
chunk on.  The code replaces the reversible ones first, then the others, each from the longest
to the shortest; `PxOrder` is that order in the run and any order in the proofs.
`PxPiece` is one chunk with the flush `_agent_proxy_prepare_stream_flush`
decides on, `Deanonymized` the three replacements in their order.  `PxFail` drops the
buffer; a cancelled stream (`PxCancelled`) leaves no outcome in the disclosure file.  Outcomes are
written without insisting (3908) and may be missing at any stream's end; no property is about them.  `pxSevered` marks the
cuts at which the flush goes wrong; `PxRestored` says that every other cut is harmless,
`PxSplitRestored` is the documented promise without exception.

### HttpRateLimit

`Request` pops what is older than a window (strictly), refuses or appends.  Time is
integer, `Second` ticks long, and taken to go forward although the code uses the wall
clock.  A client that waits exactly its `Retry-After` may be refused once more: the
comparison is strict, and `WaitSuffices` says "longer than".  Requests count before they are
authenticated.  Buckets are never removed.

### AnalysisIndex

A call takes a fingerprint and looks it up (`StartCall`), reads the files (`Analyse`),
stores (`CacheFill`), answers; edits fall in between.  Hashes are taken for contents, and a file
stands for one symbol and one dependency.  `symbol_index` hashes
at most `PrintMax` files (3000), `dependency_map` `max_files` (`DepsMax`, for clients and for a
refresh).  A refresh takes the old
index over when no listed Python file changed size or time (`Reusable`); otherwise it asks for
the compact analyses, whose rows are cut (`SymMax` for the 2000 symbols of 27474, `EdgeMax` for the 500
edges of 27607), while the cache keeps them whole.  Symbols and dependencies are only kept in a verbose
index (`Indexed`, 43840), and a compact one lists the first `CompactMax` files (300).  The properties name
what the code does not notice: files beyond the hashed ones; an edit between
fingerprint and reading, which stays in the cache under the old key (`idxRaced`); a
deleted Python file, an index of another path, an index that had dropped its symbols and
dependencies when it was taken over (`why`).  `IndexIsCurrent` says of every other verbose index that it
has the first rows of its tree as it is.  Hidden files are left out by the walk that all
analyses share (18535-18565), so the test at 43768 removes nothing and is not modelled.

### TerminalSession

The command is an actor of its own: `TermWrites`, `TermEnds` at any time.  A call is
`TermPoll`/`TermStop`, then one `TermReads` for each `os.read` (22087), whose pieces are `held` in memory,
then `TermAppends` (22098-22103), then for a stop `TermClose`; a stop goes on when the
command has ended, or is given up.  `TermStart` covers the fallback from pty to pipes with the pty
left open, `TermHead` the failure after the process was started, which leaves it without
a session.  `TermRaises` is any exception between reading and closing, an append that fails half-way
among them, and `TermCrash` may fall between reading and appending: what was held then is in
`termLost`, and `TermLogged` says that the log has everything else that was read.  What a stop
does not read (no output wanted, or more than the cap) stays in the descriptor.  A UTF-8 character that two
reads share, which the code decodes in halves, is not modelled.

### MCServices

Eight components share no variable with any other.  Their run puts them side by
side: `service` is chosen in the initial state and only that component moves; the
others rest at one initial state.  No action of one reads a variable of another
and no property is about two, so interleaving them would show nothing.

## Runs

All passing runs end without a state constraint; bounds are CONSTANTS that appear
in guards.  What is proved for every instance and follows from another property of its run is
not checked a second time: the type invariants and bounds of `WorkflowTask`,
`MutationReplayGuard` and `SseHub`, and `DeliveredOnce`
(two events with one number would be of one thread and out of order).

| run | instance | what it shows |
|---|---|---|
| `task_build` | 1 task, 2 submissions, 2 threads, 2 attempts, expiry, 1 crash | one run at a time, no stray process, cancel reaches the thread and is honoured; every run ends unless a pipe stays held, and a polled task becomes final unless its record is spoilt for good |
| `task_pair` | a report and a build, 1 thread, 2 submissions | `WorkflowTaskContract` is implemented |
| `task_restart` | 1 task, 2 overlapping runs, `restart`, records pruned under their runs | succeeded is never shown without a success |
| `task_cancel_race` | 1 submission, start and cancel | *violation*: a final record becomes `cancel_requested` |
| `guard` | 1 session, 1 key, a wrapping and a wrapped tool, 3 records over a journal of 2, 1 HEAD move | all guard properties |
| `guard_nested` | 1 session, HEAD fixed | *violation*: a key used once is refused as reused |
| `transaction_broken` | 1 transaction, 2 paths, a content that does not survive decoding | *violation*: a rollback that undoes only part |
| `sse` | 1 subscriber, 1 subprocess, 2 chunks per stream, queue and history of 2 | delivery, order, loss, liveness |
| `progress` | 1 session, 2 requests, 1 task, a store of 2 events, 2 mappings, 2 faults among ticks, lost connections and a cancellation, which counts for two | no gap and no duplicate after a reconnect but for what is routed during the replay, refusals only where the store forgot, progress of one thread rises |
| `progress_mixed` | 2 sessions with the same request id | *violation*: one session's answer in the other's replay |
| `services` | status file: 2 writers, 1 reader, 2 documents, 3 inodes; transaction: 1, 2 paths; memory: 2 keys, 1 topic, 4 rows, `max_entries` 2; snapshots: 2 names, 2 edits; proxy: answers of 3 words over two placeholders of different length; rate: budget 2, window 5, 16 ticks; index: 2 files, 2 edits, 2 calls, the compact form cut to one file and one dependency; terminal: 1 session, 4 pieces over a cap of 2 | the properties of the eight components |
| `proxy_stream` | the proxy alone | *violation*: a cut behind a longest placeholder severs it |

Why these bounds are enough to be worth something: two runs of a task are what it takes
to confuse state kept by task; a second attempt is the first that can follow a
failed one; a journal of two with three records is the smallest that holds a
nested pair and prunes; two writers are what it takes to share a temporary file,
and the third inode is the one that a name has left and a writer or the reader still has open; two chunks on two streams and the loop's own events overflow a queue of
two; a store of two events forgets an anchor while its stream is being replayed, and two mappings let
both requests' events be in it (mappings are dropped by age there; that the newest are kept by count is
in the proofs); three words
let a placeholder be followed by another and by text; two snapshots are what it takes to drop
the wrong stash entry; a budget of two has an oldest request that is not the newest; a cap of two
leaves output for another read.  Sessions of the guard and of terminals share nothing but the
call in progress, so one stands for several; `AtMostOnce` and the terminal properties are proved for any number.  The two-transaction instances are too large with two paths; one transaction
with two paths and two with one path were checked, and the theorems cover all of
them.

`CHECK_DEADLOCK FALSE` is set for `WorkflowTask`, `SseHub`, `TaskProgress` and `MCServices`, where the
submissions, connections, requests and edits of the instance are used up and the system is then
rightly at rest.

### Fairness

* `WorkflowTask!FairSpec`: weak fairness of the event loop's current call and of each
  run's thread.  The code justifies it: the event loop does not stop in the
  middle of a synchronous call, threads are scheduled by the OS, the subprocess
  is killed when its time is up.  Nothing is assumed of what a subprocess leaves behind: that a held
  pipe is closed (`PipesClose`) is a hypothesis of `RunsEnd` only.  No fairness is assumed of clients.  `EventuallyFinal`
  is stated under its own hypothesis: clients keep polling and time passes,
  since expiry happens only when a status call looks.
* `SseHub!FairSpec`: weak fairness of the event loop's thread once it has begun
  something; nothing of subscribers, readers or processes.

## Where code and documents differ

Five runs end in the violation of what a document, docstring or test says (`findings` in
`PROJECT.json`):

* `TerminalStaysTerminal`: cancel writes on top of the payload it read before the
  run published its final record (17879, 17934; docs/workflow-tasks.md:53);
* `ConflictMeansReuse`: with an `Idempotency-Key` header,
  `workspace_transaction(mode="apply_diff")` collides with itself (40795;
  docs/mutation-step-guard.md:47);
* `RollbackUndoesAll`: backups of a batch that fails half-way are lost (43083;
  tests/test_server_memory_workspace.py:422);
* `ReplayUnmixed`: the replay store finds a stream's task by request id alone (1449,
  1419-1421);
* `PxSplitRestored`: the flush looks at one character less than the longest
  placeholder, so that one which ends with the chunk goes out without its last two
  characters (4105; docs/agent-api-proxy.md:94).

Others were met while modelling and are not runs of their own: expiry races with
the run's final record in the same way as cancel (17814, docs/workflow-tasks.md:106);
mutating tasks are retried by default (18175, docs/workflow-tasks.md:130);
two overlapping writers and a death may leave a status record that no call can read
any more (17754); `_terminate_subprocess` may wait for ever for a pipe (17477, 17497); an event
routed while a client is being sent what it missed reaches it neither way (1517-1529);
the repetition of an `apply_diff` whose inner patch failed is answered with ok,
because the wrapper's result carries no `ok` of its own (40805), which is why
`PlainOkIsReal` is about tools that call no other; progress may go down when a task is
started a second time (17197, docs/workflow-tasks.md:27); an unreadable journal counts as
empty, so that the next save forgets what was run (14970); transaction metadata is
written in place (22704); rollback and commit do not look at the transaction's status
(43118), and a backup is decoded text (43072); a queue whose stream was never started
stays in the table (46677).

## What is proved

All theorems hold for every value of the constants that satisfies the modules'
assumptions.  Their statements are in the `...Proofs` modules.

* **StatusFile**, for any number of writers: types, whole reads, and the refinement of
  `AtomicRegister`.  `IInv` says that the two names never share an inode; that while writes do not
  overlap there is one writer at most and it works on the temporary name (`WriterOnTmp`); and that no
  reader which opened a whole, uncontended file holds an inode that will be written again
  (`ReaderOffTmp`): without the last part
  the read of an old file could not be known to be whole.
* **WorkflowTask**: `TypeOK` without further assumptions.  `OneRunPerTask`,
  `CancelReachesWatcher`, `CancelHonoured` assume `Quiet`: clients do not use
  `restart`, and records are not pruned under their runs (`MaxAge < 2`).  Either
  lets two live runs share the registries, and the properties do not hold then;
  `task_restart` checks what still does.  The invariant ties each live run to
  the registry entries and the record of its task.  On it rests `NoStrayProcess`, by
  `StrayInv`: while a task has a run that may have a subprocess, nobody has a verdict to
  write, in a file, a temporary file or the loop's hands.  `SuccessIsReal` needs no
  assumption on the clients: `RealInv` follows each "succeeded" on its way into the files
  (`Claimed`) and shows a run that has the outcome for good (`Sealed`).
  `ImplementsContract` proves the refinement of `WorkflowTaskContract` step by step, assuming
  `Calm`: no restarts, no expiry, no crash, which is what the contract is about.  A verdict
  is right about a request only by what the run has learned on the way, from the record, from
  a document that is still to be persisted, from its subprocess or from the event, so `AskInv`
  says that whoever can read a request there reads one whose event was set before
  (`HeardFires`, `Knows`), that a document fits where its thread goes on
  (`DocFits`), that files are whole while the task's run waits for a thread, since the loop
  is alone with them then (`HandlesHeld`, `Untorn`), and that events and futures lead to runs that were submitted (`Registered`).
  TLC has checked `AskInv` on `task_pair`'s constants too.
* **MutationReplayGuard**: `IInv` adds to the types that records are numbered in order
  (`Numbered`), that only the innermost call can be at work (`Nested`), that it runs
  on an open record of its own (`RunsOnRecord`), and that records and the
  mutations started agree (`RecordsMatch`, `RanNumbered`).  From it follow `Bounded`,
  `KeyBindsOne`, `WriteAhead`, `AtMostOnce`, `SettledStays`.  `PlainOkIsReal`
  needs that a call at work knows which record and which mutation are its own (`FramesMatch`),
  that a finish carries the outcome of what was run (`FinishIsReal`) and that an applied
  record stands for a success (`AppliedIsReal`); that a repetition finds the FIRST record of
  its key uses that the naturals are well-founded.
* **EditTransaction**: `IInv` adds what holds while an operation is under way
  (`InProgress`): the metadata in memory knows every original the files have
  lost, and a rollback has put back what is no longer to do.  From it follow
  `BackupIsOriginal` and `RollbackRestores`.
* **WorkSnapshot**: `NoWorkLost` from `OnTop`: while a snapshot deals with the stash the entry on
  top is its own, and it has its ref before the drop; entries of others are below.
  `RestoreExact` needs that the index entry of a snapshot stands for the tree it was asked
  for (`EntriesStand`) and that an operation nobody edits under finds what its last command
  left (`Undisturbed`).
* **HttpRateLimit**: `WithinBudget` and `WaitSuffices` from `BucketIsEnd` (the bucket is the
  end of what was let through, the rest is older than a window) and `RefusedIsFull`.
* **TerminalSession**: `TermIInv` adds that a call from its reading on is about a session of the table
  (`TermAtWork`), that a session has the descriptors of its backend only, so that closing
  that one is enough (`TermOneBackend`), that only a call that reads holds
  output, which it took last (`TermHolds`), and that a stop goes on when the command has ended or
  was given up (`TermStopped`).
* **SseHub**: four invariants, one per question.  `SeamlessReplay` needs that a
  reader which still reads belongs to the run the loop waits for, or has
  outlived its join (`ReadersWatched`), and that only such readers publish between
  a replay and its registration (`GapWatched`).  `NothingLost` needs that nothing is
  owed to a client which has not connected (`NothingAway`).  `DeliveredOnce` needs that
  the history is ordered (`HistoryInOrder`), that no stream holds a number not yet
  given out (`SentNumbered`), that two threads never carry the same number
  (`OneNumberEach`) and that what is owed has not been put (`OwedOnce`).
  `SourceOrder` and `FinishLast` follow from `InOrder` of the history and of every
  stream.  A step appends what a thread owes, so the invariant also says what may
  come next: each event tells of its thread and how far its run has come (`AllTold`),
  a reader publishes only while its run is in the phase for it (`RunsInPhase`), and
  what is owed may follow all that was sent, in whichever order two threads that
  owe events to the same client put theirs (`OwedInOrder`).

* **MemoryStore**, assuming that a torn file is told from a whole one (`MemTornAssumption`):
  `MemIInv` adds `Decisions` (decisions stand in the file in the order of time, and so they
  do in what is about to be written) and `Promised` (what will be written has every row
  that clients were told of and that the operation does not replace or cut, and the row it
  is about to promise; between truncation and fill the file is torn).  `MemKept` is a part
  of it.  `MemHumanWins` is about the code's single pass: by induction on the rows it has
  seen, the pass holds the best of them (`IsBest`), because a later decision of the
  same kind is never older (`Decisions`).
* **AnalysisIndex**: `IdxIInv` says of every cached row that its answer extends the hashes
  of its key, and equals them when all files were hashed, unless an edit has overtaken
  that key (`RowsAnswer`), the same of the call in progress (`CallAnswers`), and that
  a refresh asks for one analysis after the other (`Phases`, `Asked`).  `AnswerIsCurrent`
  follows.  For `IndexIsCurrent` the analysis an index goes back to, cut and dropped or not, must say
  the truth of each path whose stamp is the one the index has noted (`FilesFit`), and a verbose index must have its first
  rows (`SymbolsFit`, `EdgesFit`), for which no edit may reuse a stamp (`Stamps`); this survives edits, and when
  `Reusable` finds all stamps unchanged it makes the index that of the tree (`Current`).  The induction
  showed that the list of excuses `why` was incomplete: an index may be taken over with files
  deleted earlier in its line, not only since its own refresh, and `TakenOver` now notes that.
* **TaskProgress**: `IInv` has ten parts.  The store is in order of age and number,
  and an event that is not the last of its stream has a task (`Store`); with a mapping
  alive, it has all messages of the call that are newer than its oldest event (`Complete`,
  evictions take the oldest first); a client has a beginning of what was sent but for `late` events
  (`Received`), and one that is being sent what it missed will have all of it (`Resumes`, `Connections`), so
  that `NoGap` and `ReplayAvailable` follow.  `Owners`, `Reporters` and `Traffic` say whose
  a record, a bridge, a mapping, a notification and a message are: a mapping that
  is gone does not come back, since a call registers once.  `MonotonicAlone` needs `Climbs`:
  the values sent, those on the wire, the last one noted and the one a thread is about to send
  are in this order.
* **AgentProxyStream**: `PxDisclosed`, from where the record is written on every path to a call.
  `PxRestored` compares the replacements made piece by piece with one made on the whole answer.
  The argument is about texts as words in a row, each a placeholder of the request or plain:
  1. no placeholder begins inside another, nor inside a plain word, because a name has no
     two bars next to each other and only an opening has the mark (`KnownInside`, `NoneInside`).  So each
     pass of the replacement changes exactly the words that are its placeholder, in
     whatever order the passes come (`NamedFlat`), and replacing is the same for two texts
     in a row as for each of them (`DeanonymizedCat`);
  2. hence a cut does no harm if it is between two words or inside a plain one (`CutsFlat`);
  3. what `SafeUpto` lets out ends at such a cut unless the piece severs a closing (`SafeSplit`): a placeholder
     that is incomplete is held back from its first symbol on, and so is whatever begins one;
  4. the invariant `PxIInv` says of a stream that nothing severed yet that what was shown is some of
     the answer's words with the names put back, and what is held back begins with a word (`Uncut`);
     with it goes the typing of the three replacements, from which `PxTypeOK` follows.

  `Severs` names both ways in which 3 fails, and `proxy_stream` shows that one happens.
* **MCServices**: a behaviour of the services is one of each component (`ServicesApart`), so all
  that is proved of a component holds in that run, and `ServicesTypeOK` is the eight type
  theorems together.
* **Subsequences**: what `Only` keeps, its order, length and how it distributes over
  an append.  `SubsequenceProofs` also has what other proofs need of parts and concatenations
  of sequences, and induction on a sequence from its end and from its front.

The library's induction theorems take an operator as a parameter, which the
installed backends cannot instantiate.  Where a recursive function over a
sequence had to be reasoned about (`Only`, `EffectiveDecision`, `Replaced`, `Named`), its defining equation is derived
from the function's existence, and a fact for every length from the
least length that would violate it.

Model-checked only: liveness (`RunsEnd`, `EventuallyFinal`, `LoopReturns`), which is out of
the prover's reach.  Every invariant and every action property of a passing run has its
theorem, and so have the two refinements.

## What is not modelled

`components` in `PROJECT.json` lists every part with its reason.  Most of the code by
lines keeps no state between calls and has no order of events to get wrong: reports,
repository search, linting and generation, routing, authentication, the security gate,
result handles, spans, scripts, labs, container start-up and the editor extension.
Unit tests reach it and a model would repeat it.  Of the modelled components the notes
name what is left out.  Power loss is not modelled anywhere: the code does not call
`fsync` and promises nothing.

## Plan

What could follow, in this order: a composition of `WorkSnapshot` with
`EditTransaction` as `workspace_transaction` uses them; the tenants that a gateway's
request may be dispatched to, in `WorkflowTask`.
