---------------------------- MODULE TaskProgress ----------------------------
(***************************************************************************)
(* How a client learns of the progress of its task: the bridge from a task *)
(* to the request that started it, the notifications that event loop and   *)
(* executor threads send through it, and the store from which a client     *)
(* that lost its connection is replayed what it missed                     *)
(* (_BoundedWorkflowTaskEventStore and _workflow_task_emit_progress in     *)
(* src/source/server.py).                                                  *)
(*                                                                         *)
(* Request ids are chosen by clients, so two sessions may use the same.    *)
(* A call is one request of one session.                                   *)
(***************************************************************************)
EXTENDS Integers, Subsequences

CONSTANTS
    Sessions, Requests, Tasks,
    Loop,          \* the event loop's thread; a task stands for its executor thread
    None,
    MaxEvents,     \* MCP_STREAM_REPLAY_MAX_EVENTS
    MaxMappings,   \* the bound on request mappings derived from it
    Retention,     \* MCP_STREAM_REPLAY_RETENTION_SECONDS
    MaxFaults      \* bound on ticks, lost connections and, twice, cancellations together

Calls == Sessions \X Requests
Threads == {Loop} \cup Tasks

ASSUME NamesAssumption == Loop \notin Tasks /\ None \notin Tasks \cup Calls
ASSUME BoundsAssumption ==
    /\ MaxEvents \in Nat \ {0} /\ MaxMappings \in Nat \ {0}
    /\ Retention \in Nat /\ MaxFaults \in Nat

VARIABLES
    now,      \* the monotonic clock
    log,      \* history: every message routed; its position is its event id
    events,   \* the replay store
    maps,     \* requests mapped to tasks, least recently refreshed first
    bridges,  \* the call each task reports to
    last,     \* the progress last sent to each call
    percent,  \* progress in each task's record, None before its first start
    run,      \* each task's run
    job,      \* the notification each thread is about to send
    loop,     \* what the event loop is in the middle of
    call,     \* each call and what became of it
    wire,     \* messages each session has still to route
    open,     \* calls whose stream is connected
    resuming, \* calls whose client has come back and is being sent what it missed
    replay,   \* the ids each of them has still to be sent
    seen,     \* history: ids of the events each call's client received, in order
    late,     \* history: ids routed to a call while its client was being sent others
    asks,     \* history: the task each call started
    cancels,  \* history: cancellations so far
    drops     \* history: connections lost so far

vars == <<now, log, events, maps, bridges, last, percent, run, job, loop, call, wire,
          open, resuming, replay, seen, late, asks, cancels, drops>>
bridge == <<bridges, last>>
tasks == <<percent, run, asks, cancels>>
stream == <<log, events, open, resuming, replay, seen, late, drops>>

Percents == {0, 25, 100}
Message == [call : Calls, kind : {"priming", "reply", "progress"}, value : -1..100]
Event == [id : Nat, session : Sessions, stream : Requests,
          task : Tasks \cup {None}, at : 0..MaxFaults]
Mapping == [request : Requests, task : Tasks, session : Sessions, at : 0..MaxFaults]

NoJob == [step |-> "none", task |-> None, call |-> None, value |-> 0,
          forced |-> FALSE, final |-> FALSE]
Job == [step : {"none", "read", "send", "clean"}, task : Tasks \cup {None},
        call : Calls \cup {None}, value : -1..100, forced : BOOLEAN, final : BOOLEAN]
NoOp == [step |-> "none", call |-> None, task |-> None, value |-> 0]
Op == [step : {"none", "register", "submit", "cancel", "settle"},
       call : Calls \cup {None}, task : Tasks \cup {None}, value : Percents]

TypeOK ==
    /\ now \in 0..MaxFaults /\ log \in Seq(Message)
    /\ events \in Seq(Event) /\ Len(events) <= MaxEvents
    /\ maps \in Seq(Mapping) /\ Len(maps) <= MaxMappings + 1
    /\ bridges \in [Tasks -> Calls \cup {None}]
    /\ last \in [Calls -> -1..100]
    /\ percent \in [Tasks -> Percents \cup {-1}]
    /\ run \in [Tasks -> {"none", "queued", "running", "final", "done", "dropped"}]
    /\ job \in [Threads -> Job]
    /\ loop \in Op
    /\ call \in [Calls -> {"unused", "posted", "handled", "answered"}]
    /\ wire \in [Sessions -> Seq(Message)]
    /\ open \subseteq Calls /\ resuming \subseteq Calls
    /\ replay \in [Calls -> Seq(DOMAIN log)]
    /\ seen \in [Calls -> Seq(DOMAIN log)] /\ late \subseteq DOMAIN log
    /\ asks \in [Calls -> Tasks \cup {None}]
    /\ cancels \in 0..MaxFaults /\ drops \in 0..MaxFaults

Init ==
    /\ now = 0 /\ log = <<>> /\ events = <<>> /\ maps = <<>>
    /\ bridges = [t \in Tasks |-> None]
    /\ last = [c \in Calls |-> -1]
    /\ percent = [t \in Tasks |-> -1]
    /\ run = [t \in Tasks |-> "none"]
    /\ job = [p \in Threads |-> NoJob]
    /\ loop = NoOp
    /\ call = [c \in Calls |-> "unused"]
    /\ wire = [s \in Sessions |-> <<>>]
    /\ open = {} /\ resuming = {}
    /\ replay = [c \in Calls |-> <<>>]
    /\ seen = [c \in Calls |-> <<>>] /\ late = {}
    /\ asks = [c \in Calls |-> None]
    /\ cancels = 0 /\ drops = 0

-----------------------------------------------------------------------------
\* Bounded, ageing sequences.

\* Broken variant: one too many is kept.
NewestOffByOne(s, n) == SubSeq(s, IF Len(s) <= n THEN 1 ELSE Len(s) - n, Len(s))

Newest(s, n) == SubSeq(s, IF Len(s) <= n THEN 1 ELSE Len(s) - n + 1, Len(s))
Fresh(s) == Only(s, {e \in Range(s) : e.at >= now - Retention})

\* _workflow_task_prune_request_mappings_locked and _prune_locked.
KeptMaps == Newest(Fresh(maps), MaxMappings)
KeptEvents(s) == Newest(Fresh(s), MaxEvents)

Mapped(ms, q) == {m \in Range(ms) : m.request = q}

\* A request's mapping is made, or refreshed, as the newest one.
Remap(ms, m) == Append(Only(ms, {x \in Range(ms) : x.request # m.request}), m)

-----------------------------------------------------------------------------
\* The replay store.

\* Broken variant: priming events stay without a task.
AdoptedNever(s, session, q, t) == s

\* A priming event of the stream joins the task that the stream turns out to be for.
Adopted(s, session, q, t) ==
    [i \in DOMAIN s |-> IF s[i].stream = q /\ s[i].session = session /\ s[i].task = None
                        THEN [s[i] EXCEPT !.task = t] ELSE s[i]]

\* store_event: the store after message msg, the next to get an id, was routed.  A
\* priming event is kept for its session, anything else if its request is mapped.
Stored(msg) ==
    LET q == msg.call[2]
        e(session, t) == [id |-> Len(log) + 1, session |-> session, stream |-> q,
                          task |-> t, at |-> now]
        ms == Mapped(KeptMaps, q)
    IN IF msg.kind = "priming" THEN KeptEvents(Append(events, e(msg.call[1], None)))
       ELSE IF ms = {} THEN events
       ELSE LET m == CHOOSE m \in ms : TRUE
            IN KeptEvents(Append(Adopted(events, m.session, q, m.task), e(m.session, m.task)))

\* Every message gets an id, stored or not, and goes to the client if it is connected.
Route(msg, connected) ==
    /\ log' = Append(log, msg)
    /\ events' = Stored(msg)
    /\ maps' = IF msg.kind = "priming" THEN maps ELSE KeptMaps
    /\ seen' = IF msg.call \in connected
               THEN [seen EXCEPT ![msg.call] = Append(@, Len(log) + 1)] ELSE seen
    /\ late' = IF msg.call \in resuming THEN late \cup {Len(log) + 1} ELSE late

\* replay_events_after: the events after the anchor that a client of session s is given.
Position(s, id) == {i \in DOMAIN s : s[i].id = id}

\* Broken variant: whatever follows the anchor is sent.
ScopedAnchorOnly(s, i) == SubSeq(s, i + 1, Len(s))

Scoped(s, i) ==
    LET Same(e) == e.session = s[i].session /\ e.stream = s[i].stream /\ e.task = s[i].task
    IN Only(SubSeq(s, i + 1, Len(s)), {e \in Range(s) : Same(e)})

\* A priming event has no message and is left out.
Missed(s, i) ==
    LET rows == Only(Scoped(s, i), {e \in Range(s) : log[e.id].kind # "priming"})
    IN [j \in DOMAIN rows |-> rows[j].id]

Accepts(s, i, session) ==
    /\ s[i].task # None /\ s[i].session = session
    /\ \E m \in Mapped(KeptMaps, s[i].stream) : m.task = s[i].task /\ m.session = session

-----------------------------------------------------------------------------
\* Notifications.  One thread's _workflow_task_emit_progress is a sequence of
\* steps: find the bridge and read what was sent last; note the new value and
\* send it; at the end of the task, take the bridge away.

Free(p) == job[p].step = "none"
Faults == now + 2 * cancels + drops
LoopAt(step) == loop.step = step /\ Free(Loop)

Emit(p, t, value, forced) ==
    job' = [job EXCEPT ![p] = [step |-> "read", task |-> t, call |-> None, value |-> value,
                               forced |-> forced, final |-> value = 100]]

\* The value never goes below the last one; a value that is not forced may be
\* left out when something was sent a moment ago.
Read(p) ==
    LET c == bridges[job[p].task]
        high == IF job[p].value < last[c] THEN last[c] ELSE job[p].value
    IN /\ job[p].step = "read"
       /\ \/ c # None /\ job' = [job EXCEPT ![p].step = "send", ![p].call = c, ![p].value = high]
          \/ /\ c = None \/ (~job[p].forced /\ ~job[p].final /\ last[c] >= 0)
             /\ job' = [job EXCEPT ![p] = NoJob]
       /\ UNCHANGED <<now, stream, maps, bridge, tasks, loop, call, wire>>

Send(p) ==
    LET c == job[p].call IN
    /\ job[p].step = "send"
    /\ last' = [last EXCEPT ![c] = job[p].value]
    /\ wire' = [wire EXCEPT ![c[1]] =
                  Append(@, [call |-> c, kind |-> "progress", value |-> job[p].value])]
    /\ job' = [job EXCEPT ![p] = IF job[p].final THEN [@ EXCEPT !.step = "clean"] ELSE NoJob]
    /\ UNCHANGED <<now, stream, maps, bridges, tasks, loop, call>>

\* _workflow_task_cleanup_protocol_bridge: the mapping outlives the bridge, refreshed.
Clean(p) ==
    LET t == job[p].task  c == bridges[t] IN
    /\ job[p].step = "clean"
    /\ bridges' = [bridges EXCEPT ![t] = None]
    /\ maps' = IF c # None /\ \E m \in Mapped(maps, c[2]) : m.task = t
               THEN LET m == CHOOSE m \in Mapped(maps, c[2]) : TRUE
                    IN Newest(Fresh(Remap(maps, [m EXCEPT !.at = now])), MaxMappings)
               ELSE maps
    /\ job' = [job EXCEPT ![p] = NoJob]
    /\ UNCHANGED <<now, stream, last, tasks, loop, call, wire>>

Notify(p) == Read(p) \/ Send(p) \/ Clean(p)

-----------------------------------------------------------------------------
\* The executor thread of a task: running, then final, then out of the tables.

Begin(t) ==
    /\ run[t] = "queued" /\ Free(t)
    /\ run' = [run EXCEPT ![t] = "running"]
    /\ percent' = [percent EXCEPT ![t] = 25]
    /\ Emit(t, t, 25, FALSE)
    /\ UNCHANGED <<now, stream, maps, bridge, asks, cancels, loop, call, wire>>

Finish(t) ==
    /\ run[t] = "running" /\ Free(t)
    /\ run' = [run EXCEPT ![t] = "final"]
    /\ percent' = [percent EXCEPT ![t] = 100]
    /\ Emit(t, t, 100, TRUE)
    /\ UNCHANGED <<now, stream, maps, bridge, asks, cancels, loop, call, wire>>

Retire(t) ==
    /\ run[t] = "final" /\ Free(t)
    /\ run' = [run EXCEPT ![t] = "done"]
    /\ UNCHANGED <<now, stream, maps, bridge, percent, asks, cancels, job, loop, call, wire>>

-----------------------------------------------------------------------------
\* The event loop: requests, cancellations, routing.

\* A request arrives: its stream is primed.
Post(c) ==
    /\ LoopAt("none") /\ call[c] = "unused"
    /\ call' = [call EXCEPT ![c] = "posted"]
    /\ open' = open \cup {c}
    /\ Route([call |-> c, kind |-> "priming", value |-> 0], open')
    /\ UNCHANGED <<now, resuming, replay, drops, bridge, tasks, job, loop, wire>>

\* Any tool but workflow_task answers and has no bridge.
Tool(c) ==
    /\ LoopAt("none") /\ call[c] = "posted"
    /\ wire' = [wire EXCEPT ![c[1]] = Append(@, [call |-> c, kind |-> "reply", value |-> 0])]
    /\ call' = [call EXCEPT ![c] = "handled"]
    /\ UNCHANGED <<now, stream, maps, bridge, tasks, job, loop>>

\* _start_workflow_task reads the record of the task, or writes a first one,
Start(c, t) ==
    /\ LoopAt("none") /\ call[c] = "posted"
    /\ percent' = [percent EXCEPT ![t] = IF @ = -1 THEN 0 ELSE @]
    /\ loop' = [step |-> "register", call |-> c, task |-> t, value |-> percent'[t]]
    /\ call' = [call EXCEPT ![c] = "handled"]
    /\ asks' = [asks EXCEPT ![c] = t]
    /\ UNCHANGED <<now, stream, maps, bridge, run, cancels, job, wire>>

\* registers the bridge of this call, and sends it what it has read.
Register ==
    LET c == loop.call  t == loop.task IN
    /\ LoopAt("register")
    /\ bridges' = [bridges EXCEPT ![t] = c]
    /\ last' = [last EXCEPT ![c] = -1]
    /\ maps' = Remap(KeptMaps, [request |-> c[2], task |-> t, session |-> c[1], at |-> now])
    /\ Emit(Loop, t, loop.value, TRUE)
    /\ loop' = [loop EXCEPT !.step = "submit"]
    /\ UNCHANGED <<now, stream, tasks, call, wire>>

\* Broken variant: the run is submitted before the first notification is sent.
SubmitEarly ==
    LET c == loop.call IN
    /\ loop.step = "submit"
    /\ run' = [run EXCEPT ![loop.task] = IF @ = "none" THEN "queued" ELSE @]
    /\ wire' = [wire EXCEPT ![c[1]] = Append(@, [call |-> c, kind |-> "reply", value |-> 0])]
    /\ loop' = NoOp
    /\ UNCHANGED <<now, stream, maps, bridge, percent, asks, cancels, job, call>>

\* and, once that is sent, the run is submitted and the call answered.
Submit ==
    LET c == loop.call IN
    /\ LoopAt("submit")
    /\ run' = [run EXCEPT ![loop.task] = IF @ = "none" THEN "queued" ELSE @]
    /\ wire' = [wire EXCEPT ![c[1]] = Append(@, [call |-> c, kind |-> "reply", value |-> 0])]
    /\ loop' = NoOp
    /\ UNCHANGED <<now, stream, maps, bridge, percent, asks, cancels, job, call>>

\* A cancellation for a mapped request: nothing to do for a final record, else
\* the run is withdrawn if no thread has it yet,
Cancel(q) ==
    /\ LoopAt("none") /\ Faults + 2 <= MaxFaults
    /\ \E m \in Mapped(maps, q) :
          /\ percent[m.task] < 100
          /\ loop' = [step |-> "cancel", call |-> None, task |-> m.task, value |-> percent[m.task]]
          /\ run' = [run EXCEPT ![m.task] = IF @ = "queued" THEN "dropped" ELSE @]
    /\ cancels' = cancels + 1
    /\ UNCHANGED <<now, stream, maps, bridge, percent, asks, job, call, wire>>

\* the record that was read before is written with the request, and sent;
WriteCancel ==
    /\ LoopAt("cancel")
    /\ percent' = [percent EXCEPT ![loop.task] = loop.value]
    /\ Emit(Loop, loop.task, loop.value, TRUE)
    /\ loop' = [loop EXCEPT !.step = "settle"]
    /\ UNCHANGED <<now, stream, maps, bridge, run, asks, cancels, call, wire>>

\* when nothing runs any more the task is cancelled at once.
Settle ==
    LET t == loop.task IN
    /\ LoopAt("settle")
    /\ IF run[t] \in {"done", "dropped"} /\ percent[t] < 100
       THEN /\ percent' = [percent EXCEPT ![t] = 100]
            /\ run' = [run EXCEPT ![t] = "done"]
            /\ Emit(Loop, t, 100, TRUE)
       ELSE UNCHANGED <<percent, run, job>>
    /\ loop' = NoOp
    /\ UNCHANGED <<now, stream, maps, bridge, asks, cancels, call, wire>>

\* The transport routes a session's next message; a reply ends the request's stream.
Deliver(s) ==
    /\ LoopAt("none") /\ wire[s] # <<>>
    /\ LET msg == Head(wire[s])  c == msg.call IN
       /\ Route(msg, open)
       /\ open' = IF msg.kind = "reply" THEN open \ {c} ELSE open
       /\ call' = IF msg.kind = "reply" THEN [call EXCEPT ![c] = "answered"] ELSE call
    /\ wire' = [wire EXCEPT ![s] = Tail(@)]
    /\ UNCHANGED <<now, resuming, replay, drops, bridge, tasks, job, loop>>

\* A connection is lost, also one through which a client is being sent what it missed.
Disconnect(c) ==
    /\ LoopAt("none") /\ c \in open \cup resuming /\ Faults < MaxFaults
    /\ open' = open \ {c}
    /\ resuming' = resuming \ {c}
    /\ replay' = [replay EXCEPT ![c] = <<>>]
    /\ drops' = drops + 1
    /\ UNCHANGED <<now, log, events, seen, late, maps, bridge, tasks, job, loop, call, wire>>

\* The client comes back with the id of the last event it received.  When the
\* store accepts it, what it missed is put down under the lock,
LastSeen(c) == seen[c][Len(seen[c])]

Reconnect(c) ==
    /\ LoopAt("none") /\ c \notin open \cup resuming /\ seen[c] # <<>>
    /\ events' = KeptEvents(events)
    /\ maps' = KeptMaps
    /\ \E i \in Position(events', LastSeen(c)) :
          /\ Accepts(events', i, c[1])
          /\ replay' = [replay EXCEPT ![c] = Missed(events', i)]
    /\ resuming' = resuming \cup {c}
    /\ UNCHANGED <<now, log, open, seen, late, drops, bridge, tasks, job, loop, call, wire>>

\* sent one by one, while the loop goes on with other things in between,
SendMissed(c) ==
    /\ LoopAt("none") /\ c \in resuming /\ replay[c] # <<>>
    /\ seen' = [seen EXCEPT ![c] = Append(@, Head(replay[c]))]
    /\ replay' = [replay EXCEPT ![c] = Tail(@)]
    /\ UNCHANGED <<now, log, events, open, resuming, late, drops, maps, bridge, tasks, job, loop, call, wire>>

\* and only when all is sent the stream is connected again.
Reopen(c) ==
    /\ LoopAt("none") /\ c \in resuming /\ replay[c] = <<>>
    /\ open' = open \cup {c}
    /\ resuming' = resuming \ {c}
    /\ UNCHANGED <<now, log, events, replay, seen, late, drops, maps, bridge, tasks, job, loop, call, wire>>

\* Time that passes within an operation of the loop might as well pass after it.
Tick ==
    /\ LoopAt("none") /\ Faults < MaxFaults
    /\ now' = now + 1
    /\ UNCHANGED <<stream, maps, bridge, tasks, job, loop, call, wire>>

-----------------------------------------------------------------------------
LoopStep == Notify(Loop) \/ Register \/ Submit \/ WriteCancel \/ Settle
Thread(t) == Notify(t) \/ Begin(t) \/ Finish(t) \/ Retire(t)

Next ==
    \/ LoopStep \/ Tick
    \/ \E t \in Tasks : Thread(t)
    \/ \E c \in Calls : Post(c) \/ Tool(c) \/ Disconnect(c) \/ Reconnect(c)
                        \/ SendMissed(c) \/ Reopen(c) \/ \E t \in Tasks : Start(c, t)
    \/ \E q \in Requests : Cancel(q)
    \/ \E s \in Sessions : Deliver(s)

Spec == Init /\ [][Next]_vars

-----------------------------------------------------------------------------
\* Properties.

\* Another session has used the same request id.
Shared(c) == \E d \in Calls : d # c /\ d[2] = c[2] /\ call[d] # "unused"

\* The ids of the messages routed to a call.
Of(c) == {i \in DOMAIN log : log[i].call = c}

\* Unless another session uses its request id, a client has received the beginning
\* of what was sent to it, each event once and in order, however often it lost
\* its connection and whatever the store has forgotten: but for what was routed to it
\* after the list of what it missed was made and before its stream was connected.
NoGap ==
    \A c \in Calls : ~Shared(c) /\ seen[c] # <<>> =>
        /\ \A i, j \in DOMAIN seen[c] : i < j => seen[c][i] < seen[c][j]
        /\ Range(seen[c]) \subseteq Of(c)
        /\ {i \in Of(c) : i <= LastSeen(c)} \subseteq Range(seen[c]) \cup late

\* A client whose last event is still stored is refused only when its request's
\* mapping was dropped or nothing of its task was stored after that event.
ReplayAvailable ==
    \A c \in Calls : ~Shared(c) /\ asks[c] # None /\ seen[c] # <<>> =>
        LET kept == KeptEvents(events) IN
        \A i \in Position(kept, LastSeen(c)) :
            (/\ Mapped(KeptMaps, c[2]) # {}
             /\ \E j \in DOMAIN events : events[j].id > LastSeen(c) /\ events[j].stream = c[2])
            => Accepts(kept, i, c[1])

\* As long as a task is started once and not cancelled, only its own thread
\* reports on it and what its client is sent never goes down.
Sole(t) == cancels = 0 /\ \A c, d \in Calls : asks[c] = t /\ asks[d] = t => c = d
Mine(c, msg) == msg.call = c /\ msg.kind = "progress"
Rises(c) ==
    \A i, j \in DOMAIN log :
        i < j /\ Mine(c, log[i]) /\ Mine(c, log[j]) => log[i].value <= log[j].value
MonotonicAlone == \A c \in Calls : asks[c] # None /\ Sole(asks[c]) => Rises(c)

\* docs/workflow-tasks.md: "Progress values are coarse, monotonic percentages".
ProgressMonotonic == \A c \in Calls : Rises(c)

\* The store's docstring: "replay cannot retain unrelated tool output".
ReplayUnmixed == \A c \in Calls : \A i \in DOMAIN seen[c] : log[seen[c][i]].call = c
-----------------------------------------------------------------------------
(***************************************************************************)
(* Why they hold.  The store forgets its oldest events first; what was     *)
(* routed to a call that is still mapped is stored; and a mapping that is  *)
(* gone does not come back, for a call registers once.                     *)
(***************************************************************************)

\* The call has started its task and is about to be registered.
Waiting(c) == loop.step = "register" /\ loop.call = c

\* Whose a record, a bridge, a mapping or a notification is.
Owners ==
    /\ \A c \in Calls : call[c] \in {"unused", "posted"} => asks[c] = None
    /\ \A t \in Tasks : percent[t] # -1 <=> \E c \in Calls : asks[c] = t
    /\ \A t \in Tasks : bridges[t] # None => asks[bridges[t]] = t /\ ~Waiting(bridges[t])
    /\ \A m \in Range(maps) :
          LET c == <<m.session, m.request>> IN asks[c] = m.task /\ ~Waiting(c)
    /\ loop.step # "none" => loop.task \in Tasks /\ percent[loop.task] # -1
    /\ loop.step \in {"register", "submit"} => loop.call \in Calls /\ asks[loop.call] = loop.task
    /\ loop.step \in {"cancel", "settle"} => cancels > 0

\* Which thread reports on a task, and when.
Reporters ==
    /\ \A p \in Threads : job[p].step # "none" =>
          /\ job[p].task \in Tasks /\ \E c \in Calls : asks[c] = job[p].task
          /\ p = Loop \/ (job[p].task = p /\ run[p] \in {"running", "final"})
          /\ p = Loop /\ cancels = 0 => loop.step = "submit" /\ job[p].task = loop.task
          /\ job[p].step = "send" =>
                job[p].call \in Calls /\ asks[job[p].call] = job[p].task /\ ~Waiting(job[p].call)
    /\ \A t \in Tasks : run[t] # "none" =>
          \E c \in Calls : asks[c] = t /\ ~(loop.step \in {"register", "submit"} /\ loop.call = c)

\* Which messages a call has had.
Traffic ==
    /\ \A i \in DOMAIN log :
          /\ call[log[i].call] # "unused"
          /\ call[log[i].call] = "posted" \/ Waiting(log[i].call) => log[i].kind = "priming"
    /\ \A i, j \in DOMAIN log : log[j].call = log[i].call /\ log[j].kind = "priming" => j <= i
    /\ \A s \in Sessions : \A i \in DOMAIN wire[s] :
          LET msg == wire[s][i]
          IN /\ msg.call[1] = s /\ msg.kind # "priming" /\ ~Waiting(msg.call)
             /\ call[msg.call] \in {"handled", "answered"}

Ordered(s) == \A i, j \in DOMAIN s : i < j => s[i].id < s[j].id /\ s[i].at <= s[j].at

\* What the store has of a message.
Store ==
    /\ Ordered(events)
    /\ \A e \in Range(events) :
          /\ e.at <= now /\ e.id \in DOMAIN log /\ log[e.id].call[2] = e.stream
          /\ call[<<e.session, e.stream>>] # "unused"
          /\ e.task # None => asks[<<e.session, e.stream>>] = e.task
          /\ log[e.id].kind # "priming" => e.task # None
    /\ \A e, f \in Range(events) :
          e.id < f.id /\ e.session = f.session /\ e.stream = f.stream => e.task # None

\* It has all messages of a mapped call that are newer than its oldest event.
Complete ==
    \A c \in Calls :
        ~Shared(c) /\ (Mapped(maps, c[2]) # {} \/ \A i \in Of(c) : log[i].kind = "priming") =>
            \A i \in Of(c), e \in Range(events) : e.id < i => \E f \in Range(events) : f.id = i

\* A client that is being sent what it missed has no connected stream.
Connections ==
    /\ open \cap resuming = {}
    /\ \A c \in Calls : call[c] = "unused" => seen[c] = <<>> /\ c \notin resuming

\* What a client has received, and what it is about to be sent.
Received ==
    \A c \in Calls : ~Shared(c) =>
        /\ Range(seen[c]) \subseteq Of(c)
        /\ \A i, j \in DOMAIN seen[c] : i < j => seen[c][i] < seen[c][j]
        /\ \A i \in Of(c), k \in Range(seen[c]) : i < k => i \in Range(seen[c]) \cup late
        /\ c \in open => Of(c) \subseteq Range(seen[c]) \cup late
Resumes ==
    \A c \in resuming : ~Shared(c) =>
        /\ Range(replay[c]) \subseteq Of(c)
        /\ \A i, j \in DOMAIN replay[c] : i < j => replay[c][i] < replay[c][j]
        /\ \A k \in Range(seen[c]), i \in Range(replay[c]) : k < i
        /\ Of(c) \subseteq Range(seen[c]) \cup Range(replay[c]) \cup late

\* The progress a call was sent, and is about to be sent, does not go down.
Climbs(c) ==
    LET w == wire[c[1]] IN
    /\ Rises(c)
    /\ \A i, j \in DOMAIN w : i < j /\ Mine(c, w[i]) /\ Mine(c, w[j]) => w[i].value <= w[j].value
    /\ \A i \in DOMAIN log, j \in DOMAIN w :
          Mine(c, log[i]) /\ Mine(c, w[j]) => log[i].value <= w[j].value
    /\ \A i \in DOMAIN log : Mine(c, log[i]) => log[i].value <= last[c]
    /\ \A i \in DOMAIN w : Mine(c, w[i]) => w[i].value <= last[c]
    /\ \A p \in Threads : job[p].step = "send" /\ job[p].task = asks[c] => last[c] <= job[p].value
Rising == \A c \in Calls : asks[c] # None /\ Sole(asks[c]) => Climbs(c)

IInv ==
    /\ TypeOK /\ Owners /\ Reporters /\ Traffic
    /\ Store /\ Complete /\ Connections /\ Received /\ Resumes /\ Rising
=============================================================================
