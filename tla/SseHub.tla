------------------------------- MODULE SseHub -------------------------------
(***************************************************************************)
(* The event hub behind GET /sse, and the observed subprocess that feeds   *)
(* it (_sse_publish, _run_observed_subprocess and sse_events in            *)
(* src/source/server.py).                                                  *)
(*                                                                         *)
(* The event loop connects subscribers, serves them and runs the tools; a  *)
(* tool that observes a subprocess starts one reader thread per output     *)
(* stream and keeps the loop until it returns.  Every thread publishes: it *)
(* numbers the event and notes the subscribers under the lock, and puts    *)
(* the event into their queues afterwards, without it.                     *)
(***************************************************************************)
EXTENDS Naturals, Sequences, FiniteSets

CONSTANTS
    Clients,    \* the subscribers, each connecting once
    Runs,       \* the observed subprocesses, each run once
    Loop,       \* the event loop's thread
    HistoryMax, \* SSE_EVENT_HISTORY_MAX
    QueueMax,   \* SSE_SUBSCRIBER_QUEUE_MAX
    MaxOutput   \* bound on the chunks a stream carries

Streams == {"stdout", "stderr"}
Readers == Runs \X Streams
Publishers == {Loop} \cup Readers

ASSUME LoopAssumption == Loop \notin Readers /\ Clients \cap Runs = {}
ASSUME BoundsAssumption ==
    HistoryMax \in Nat \ {0} /\ QueueMax \in Nat \ {0} /\ MaxOutput \in Nat

VARIABLES
    seq,      \* _SSE_EVENT_SEQ
    history,  \* _SSE_EVENT_HISTORY
    table,    \* _SSE_SUBSCRIBERS, by client
    queue,    \* the queue of each subscriber
    event,    \* the event each thread published last,
    pending,  \* and the queues it has not been put in yet
    loop,     \* what the event loop does next, and for which client or run
    conn,     \* each client's connection
    replay,   \* what remains of the history replayed to it
    reader,   \* the reader threads
    chunks,   \* history: chunks read by each
    todo,     \* history: the runs still to come
    got,      \* history: the events sent to each client, in order
    asOf,     \* history: the last event when its replay was taken,
    since,    \*          and when its queue was registered
    dropped,  \* history: events that found its queue full
    late      \* history: readers that outlived the loop's join

vars == <<seq, history, table, queue, event, pending, loop, conn, replay, reader,
          chunks, todo, got, asOf, since, dropped, late>>
hub == <<seq, history, event, pending>>
client == <<table, conn, replay, got, asOf, since>>
run == <<reader, chunks, late, todo>>

Kinds == {"connected", "disconnected", "start", "output", "error", "finish"}
Event == [id : Nat \ {0}, by : Publishers, kind : Kinds, of : Clients \cup Runs]
NoEvent == [id |-> 0]
Idle == <<"idle", Loop>>

TypeOK ==
    /\ seq \in Nat
    /\ history \in Seq(Event) /\ Len(history) <= HistoryMax
    /\ table \subseteq Clients
    /\ queue \in [Clients -> Seq(Event)] /\ \A c \in Clients : Len(queue[c]) <= QueueMax
    /\ event \in [Publishers -> Event \cup {NoEvent}]
    /\ pending \in [Publishers -> SUBSET Clients]
    /\ loop \in {Idle} \cup ({"register", "announce", "goodbye"} \X Clients)
                \cup ({"spawn", "wait", "stdout", "stderr", "finish"} \X Runs)
    /\ conn \in [Clients -> {"away", "joining", "open", "gone"}]
    /\ replay \in [Clients -> Seq(Event)] /\ got \in [Clients -> Seq(Event)]
    /\ reader \in [Readers -> {"none", "reading", "closed"}]
    /\ chunks \in [Readers -> 0..MaxOutput]
    /\ todo \subseteq Runs
    /\ asOf \in [Clients -> 0..seq] /\ since \in [Clients -> 0..seq]
    /\ dropped \in [Clients -> SUBSET (1..seq)]
    /\ late \subseteq Readers

Init ==
    /\ seq = 0 /\ history = <<>> /\ table = {}
    /\ queue = [c \in Clients |-> <<>>]
    /\ event = [p \in Publishers |-> NoEvent]
    /\ pending = [p \in Publishers |-> {}]
    /\ loop = Idle
    /\ conn = [c \in Clients |-> "away"]
    /\ replay = [c \in Clients |-> <<>>]
    /\ reader = [r \in Readers |-> "none"]
    /\ todo = Runs
    /\ chunks = [r \in Readers |-> 0]
    /\ got = [c \in Clients |-> <<>>]
    /\ asOf = [c \in Clients |-> 0] /\ since = [c \in Clients |-> 0]
    /\ dropped = [c \in Clients |-> {}]
    /\ late = {}

-----------------------------------------------------------------------------
\* Publishing.

\* The newest n elements of a sequence.
Newest(s, n) == SubSeq(s, IF Len(s) <= n THEN 1 ELSE Len(s) - n + 1, Len(s))

\* A thread has put its last event into every queue it owes it to.
Free(p) == pending[p] = {}
LoopAt(step) == loop[1] = step /\ Free(Loop)

\* The part of _sse_publish under the lock.
Publish(p, kind, of) ==
    LET e == [id |-> seq + 1, by |-> p, kind |-> kind, of |-> of] IN
    /\ seq' = seq + 1
    /\ history' = Newest(Append(history, e), HistoryMax)
    /\ event' = [event EXCEPT ![p] = e]
    /\ pending' = [pending EXCEPT ![p] = table]

\* Broken variants: a full queue makes room by dropping its oldest event; the put
\* waits for room.
DeliverOverwrites(p, c) ==
    /\ c \in pending[p]
    /\ pending' = [pending EXCEPT ![p] = @ \ {c}]
    /\ queue' = [queue EXCEPT ![c] = Newest(Append(@, event[p]), QueueMax)]
    /\ UNCHANGED <<seq, history, event, loop, client, run, dropped>>

DeliverBlocks(p, c) ==
    /\ c \in pending[p] /\ Len(queue[c]) < QueueMax
    /\ pending' = [pending EXCEPT ![p] = @ \ {c}]
    /\ queue' = [queue EXCEPT ![c] = Append(@, event[p])]
    /\ UNCHANGED <<seq, history, event, loop, client, run, dropped>>

\* put_nowait: a full queue loses the event.
Deliver(p, c) ==
    /\ c \in pending[p]
    /\ pending' = [pending EXCEPT ![p] = @ \ {c}]
    /\ \/ /\ Len(queue[c]) < QueueMax
          /\ queue' = [queue EXCEPT ![c] = Append(@, event[p])]
          /\ UNCHANGED dropped
       \/ /\ Len(queue[c]) = QueueMax
          /\ dropped' = [dropped EXCEPT ![c] = @ \cup {event[p].id}]
          /\ UNCHANGED queue
    /\ UNCHANGED <<seq, history, event, loop, client, run>>

-----------------------------------------------------------------------------
\* The event loop and its subscribers.

\* sse_events takes the replay of the last n events,
Connect(c, n) ==
    /\ LoopAt("idle") /\ conn[c] = "away"
    /\ conn' = [conn EXCEPT ![c] = "joining"]
    /\ replay' = [replay EXCEPT ![c] = Newest(history, n)]
    /\ asOf' = [asOf EXCEPT ![c] = seq]
    /\ loop' = <<"register", c>>
    /\ UNCHANGED <<hub, table, queue, run, got, since, dropped>>

\* then registers the queue,
Register(c) ==
    /\ LoopAt("register") /\ c = loop[2]
    /\ table' = table \cup {c}
    /\ since' = [since EXCEPT ![c] = seq]
    /\ loop' = <<"announce", c>>
    /\ UNCHANGED <<hub, queue, conn, replay, run, got, asOf, dropped>>

\* and announces the subscriber, to itself as well.
Announce(c) ==
    /\ LoopAt("announce") /\ c = loop[2]
    /\ Publish(Loop, "connected", c)
    /\ conn' = [conn EXCEPT ![c] = "open"]
    /\ loop' = Idle
    /\ UNCHANGED <<table, queue, replay, run, got, asOf, since, dropped>>

\* _event_stream sends the replay first, then what the queue holds.
SendReplay(c) ==
    /\ LoopAt("idle") /\ conn[c] = "open" /\ replay[c] # <<>>
    /\ got' = [got EXCEPT ![c] = Append(@, Head(replay[c]))]
    /\ replay' = [replay EXCEPT ![c] = Tail(@)]
    /\ UNCHANGED <<hub, table, queue, loop, conn, run, asOf, since, dropped>>

Serve(c) ==
    /\ LoopAt("idle") /\ conn[c] = "open" /\ replay[c] = <<>> /\ queue[c] # <<>>
    /\ got' = [got EXCEPT ![c] = Append(@, Head(queue[c]))]
    /\ queue' = [queue EXCEPT ![c] = Tail(@)]
    /\ UNCHANGED <<hub, table, loop, conn, replay, run, asOf, since, dropped>>

\* The client goes away: the stream's last part takes the queue out of the
\* table, then says so.
Leave(c) ==
    /\ LoopAt("idle") /\ conn[c] = "open"
    /\ conn' = [conn EXCEPT ![c] = "gone"]
    /\ table' = table \ {c}
    /\ loop' = <<"goodbye", c>>
    /\ UNCHANGED <<hub, queue, replay, run, got, asOf, since, dropped>>

Goodbye(c) ==
    /\ LoopAt("goodbye") /\ c = loop[2]
    /\ Publish(Loop, "disconnected", c)
    /\ loop' = Idle
    /\ UNCHANGED <<client, queue, run, dropped>>

\* The client goes away before the stream was started at all: its last part
\* never runs and the queue stays in the table.
Abandon(c) ==
    /\ LoopAt("idle") /\ conn[c] = "open" /\ got[c] = <<>>
    /\ conn' = [conn EXCEPT ![c] = "gone"]
    /\ UNCHANGED <<hub, table, queue, loop, replay, run, got, asOf, since, dropped>>

-----------------------------------------------------------------------------
\* The observed subprocess.  No caller gives it input.

RunStart(r) ==
    /\ LoopAt("idle") /\ r \in todo
    /\ todo' = todo \ {r}
    /\ Publish(Loop, "start", r)
    /\ loop' = <<"spawn", r>>
    /\ UNCHANGED <<client, queue, reader, chunks, late, dropped>>

\* Broken variant: the process is started while its start is still being
\* published.
SpawnEarly(r) ==
    /\ loop = <<"spawn", r>>
    /\ reader' = [x \in Readers |-> IF x[1] = r THEN "reading" ELSE reader[x]]
    /\ loop' = <<"wait", r>>
    /\ UNCHANGED <<hub, client, queue, chunks, late, todo, dropped>>

Spawn(r) ==
    /\ LoopAt("spawn") /\ r = loop[2]
    /\ reader' = [x \in Readers |-> IF x[1] = r THEN "reading" ELSE reader[x]]
    /\ loop' = <<"wait", r>>
    /\ UNCHANGED <<hub, client, queue, chunks, late, todo, dropped>>

SpawnMissing(r) ==
    /\ LoopAt("spawn") /\ r = loop[2]
    /\ Publish(Loop, "error", r)
    /\ loop' = Idle
    /\ UNCHANGED <<client, queue, run, dropped>>

\* Any other exception of Popen: the run ends without another event.
SpawnRaises(r) ==
    /\ LoopAt("spawn") /\ r = loop[2]
    /\ loop' = Idle
    /\ UNCHANGED <<hub, client, queue, run, dropped>>

\* A reader has read a line and publishes it,
Output(x) ==
    /\ reader[x] = "reading" /\ Free(x) /\ chunks[x] < MaxOutput
    /\ chunks' = [chunks EXCEPT ![x] = @ + 1]
    /\ Publish(x, "output", x[1])
    /\ UNCHANGED <<loop, client, queue, reader, late, todo, dropped>>

\* or has come to the end of its pipe: nobody holds the other end any more,
\* neither the process nor a child it left behind.
EndOfFile(x) ==
    /\ reader[x] = "reading" /\ Free(x)
    /\ reader' = [reader EXCEPT ![x] = "closed"]
    /\ UNCHANGED <<hub, loop, client, queue, chunks, late, todo, dropped>>

\* Broken variant: the readers are not joined.
WaitedSkipsJoin(r) ==
    /\ LoopAt("wait") /\ r = loop[2]
    /\ loop' = <<"finish", r>>
    /\ UNCHANGED <<hub, client, queue, run, dropped>>

\* The process has ended, or was killed at the timeout.
Waited(r) ==
    /\ LoopAt("wait") /\ r = loop[2]
    /\ loop' = <<"stdout", r>>
    /\ UNCHANGED <<hub, client, queue, run, dropped>>

\* Broken variant: the join has no timeout.
JoinForever(r) ==
    /\ LoopAt("stdout") \/ LoopAt("stderr")
    /\ r = loop[2] /\ reader[<<r, loop[1]>>] = "closed"
    /\ loop' = <<IF loop[1] = "stdout" THEN "stderr" ELSE "finish", r>>
    /\ UNCHANGED <<hub, client, queue, run, dropped>>

\* The join of one reader returns: it has ended, or the second is over.
Join(r) ==
    /\ LoopAt("stdout") \/ LoopAt("stderr")
    /\ r = loop[2]
    /\ late' = IF reader[<<r, loop[1]>>] = "closed" THEN late ELSE late \cup {<<r, loop[1]>>}
    /\ loop' = <<IF loop[1] = "stdout" THEN "stderr" ELSE "finish", r>>
    /\ UNCHANGED <<hub, client, queue, reader, chunks, todo, dropped>>

Finish(r) ==
    /\ LoopAt("finish") /\ r = loop[2]
    /\ Publish(Loop, "finish", r)
    /\ loop' = Idle
    /\ UNCHANGED <<client, queue, run, dropped>>

-----------------------------------------------------------------------------
\* What the event loop's thread does once it has begun something.
LoopStep ==
    \/ \E c \in Clients : Register(c) \/ Announce(c) \/ Goodbye(c) \/ Deliver(Loop, c)
    \/ \E r \in Runs : \/ Spawn(r) \/ SpawnMissing(r) \/ SpawnRaises(r)
                       \/ Waited(r) \/ Join(r) \/ Finish(r)

ReaderStep(x) == Output(x) \/ EndOfFile(x) \/ \E c \in Clients : Deliver(x, c)

Next ==
    \/ LoopStep
    \/ \E x \in Readers : ReaderStep(x)
    \/ \E r \in Runs : RunStart(r)
    \/ \E c \in Clients : \/ \E n \in 0..HistoryMax : Connect(c, n)
                          \/ SendReplay(c) \/ Serve(c) \/ Leave(c) \/ Abandon(c)

Spec == Init /\ [][Next]_vars

\* The event loop's thread keeps running; subscribers, processes and readers
\* owe nothing.
FairSpec == Spec /\ WF_vars(LoopStep)

-----------------------------------------------------------------------------
\* Properties.

Ids(s) == {s[i].id : i \in DOMAIN s}

\* What a subscriber has been sent and is going to be sent.
Stream(c) == got[c] \o replay[c] \o queue[c]

\* No event reaches a subscriber twice, once in the replay and once live,
\* although the replay and the queue are set up under different locks.
DeliveredOnce ==
    \A c \in Clients : \A i, j \in DOMAIN Stream(c) :
        i < j => Stream(c)[i].id # Stream(c)[j].id

\* From its registration on, a subscriber misses an event only if its queue was
\* full when the event came: an event is otherwise in its stream or about to
\* be put there, whatever threads publish at the same time.
NothingLost ==
    \A c \in table : \A id \in (since[c] + 1)..seq :
        \/ id \in Ids(Stream(c)) \cup dropped[c]
        \/ \E p \in Publishers : event[p].id = id /\ c \in pending[p]

\* Between the replay and the registration nothing is published, unless a
\* reader has outlived its subprocess: the loop that connects the subscriber is
\* the one that would be running a tool.
SeamlessReplay == \A c \in Clients : since[c] > asOf[c] => late # {}

\* A subscriber gets the events of one thread in the order in which they were
\* published, and the start of a run before any of its output.
SourceOrder ==
    \A c \in Clients : \A i, j \in DOMAIN Stream(c) :
        i < j => LET e == Stream(c)[i]  f == Stream(c)[j] IN
                 /\ e.by = f.by => e.id < f.id
                 /\ ~(e.kind = "output" /\ f.kind = "start" /\ e.of = f.of)

\* Output follows the finish of its run only when its reader outlived the join.
FinishLast ==
    \A c \in Clients : \A i, j \in DOMAIN Stream(c) :
        i < j => LET e == Stream(c)[i]  f == Stream(c)[j] IN
                 e.kind = "finish" /\ f.kind = "output" /\ e.of = f.of => f.by \in late

\* The loop always comes back to its clients: neither a subscriber that does
\* not read, nor a pipe that is never closed, holds it up.
LoopReturns == []<>LoopAt("idle")
-----------------------------------------------------------------------------
\* What makes the first three properties inductive (SseHubProofs).

\* What a thread is putting into queues has a number that was given out.
Numbered == \A p \in Publishers : /\ event[p].id <= seq
                                  /\ pending[p] # {} => event[p] # NoEvent

\* Nothing is registered, sent or owed for a client that has not connected.
NothingAway ==
    \A c \in Clients : conn[c] = "away" =>
        /\ loop # <<"register", c>>
        /\ c \notin table /\ \A p \in Publishers : c \notin pending[p]
        /\ got[c] = <<>> /\ queue[c] = <<>>

\* A reader that still reads belongs to the run the loop is waiting for, or is
\* late.
ReadersWatched ==
    \A x \in Readers : reader[x] = "reading" /\ x \notin late =>
        loop[2] = x[1] /\ loop[1] \in {"wait", "stdout", x[2]}

\* While a client is between its replay and its registration, only late readers
\* publish.
GapWatched == loop[1] = "register" /\ seq > asOf[loop[2]] => late # {}

\* The history is in the order of the numbers.
HistoryInOrder ==
    \A i, j \in DOMAIN history : /\ history[i].id <= seq
                                 /\ i < j => history[i].id < history[j].id

\* Every number is of one event, and what a thread owes a client has not been
\* sent to it and is not going to be otherwise.
SentNumbered == \A c \in Clients : \A i \in DOMAIN Stream(c) : Stream(c)[i].id <= seq
OneNumberEach ==
    \A p, q \in Publishers : event[p].id = event[q].id => p = q \/ event[p] = NoEvent
OwedOnce ==
    \A p \in Publishers : \A c \in pending[p] : event[p].id \notin Ids(Stream(c))
-----------------------------------------------------------------------------
\* What makes the order of a stream inductive.

\* Two events in this order are in a right one, when these readers are late.
MayFollow(e, f, lates) ==
    /\ e.by = f.by => e.id < f.id
    /\ ~(e.kind = "output" /\ f.kind = "start" /\ e.of = f.of)
    /\ e.kind = "finish" /\ f.kind = "output" /\ e.of = f.of => f.by \in lates

InOrder(s) == \A i, j \in DOMAIN s : i < j => MayFollow(s[i], s[j], late)

\* An event that was published tells of its thread and of how far its run has come,
\* when n numbers were given out, the runs t are to come and the loop is at l.
AtRun(l, r) == l[1] \in {"spawn", "wait", "stdout", "stderr", "finish"} /\ l[2] = r
Told(e, n, t, l) ==
    /\ e.id <= n
    /\ e.kind = "output" => e.by \in Readers /\ e.by[1] = e.of /\ e.of \notin t
    /\ e.kind = "start" => e.by = Loop
    /\ e.kind = "finish" => e.of \notin t /\ ~AtRun(l, e.of)

AllTold ==
    /\ \A i \in DOMAIN history : Told(history[i], seq, todo, loop)
    /\ \A c \in Clients : \A i \in DOMAIN Stream(c) : Told(Stream(c)[i], seq, todo, loop)
    /\ \A p \in Publishers :
           event[p] # NoEvent => event[p].by = p /\ Told(event[p], seq, todo, loop)

\* A reader that reads, or still owes an event, is of a run that was begun and is
\* past its start; the loop publishes a start before it goes on.
RunsInPhase ==
    /\ \A r \in Runs : AtRun(loop, r) => r \notin todo
    /\ \A x \in Readers : /\ reader[x] = "reading" => x[1] \notin todo /\ loop # <<"spawn", x[1]>>
                          /\ pending[x] # {} => reader[x] = "reading"
    /\ pending[Loop] # {} /\ event[Loop].kind = "start" => loop = <<"spawn", event[Loop].of>>

\* What is owed may follow what was sent, and what two threads owe may come either way.
OwedInOrder ==
    /\ \A p \in Publishers : \A c \in pending[p] : \A i \in DOMAIN Stream(c) :
           MayFollow(Stream(c)[i], event[p], late)
    /\ \A p, q \in Publishers : p # q /\ pending[p] # {} /\ pending[q] # {}
           => MayFollow(event[p], event[q], late)
=============================================================================
