---------------------------- MODULE SseHubProofs ----------------------------
(***************************************************************************)
(* Proofs about the event hub: types and bounds, the seam between replay   *)
(* and live events, that only a full queue loses an event, that none is    *)
(* sent twice, and the order in which a subscriber gets them.              *)
(***************************************************************************)
EXTENDS SseHub, SequenceTheorems, TLAPS

-----------------------------------------------------------------------------
\* Sequences.

\* The newest elements of a sequence are a sequence of its elements.
LEMMA NewestType ==
    ASSUME NEW S, NEW s \in Seq(S), NEW n \in Nat
    PROVE  /\ Newest(s, n) \in Seq(S)
           /\ Len(Newest(s, n)) <= n
           /\ Len(Newest(s, n)) <= Len(s)
<1>1. CASE Len(s) <= n
  BY <1>1 DEF Newest
<1>2. CASE Len(s) > n
  BY <1>2 DEF Newest
<1> QED
  BY <1>1, <1>2

-----------------------------------------------------------------------------
\* Publishing.

TypeInv == TypeOK /\ Numbered

\* The critical section keeps the types of what it writes.
LEMMA PublishType ==
    ASSUME TypeInv, NEW p \in Publishers, NEW kind \in Kinds, NEW of \in Clients \cup Runs,
           Publish(p, kind, of)
    PROVE  /\ seq' \in Nat /\ seq' = seq + 1
           /\ history' \in Seq(Event) /\ Len(history') <= HistoryMax
           /\ event' \in [Publishers -> Event \cup {NoEvent}]
           /\ pending' \in [Publishers -> SUBSET Clients]
           /\ event'[p].id = seq'
           /\ event'[p] # NoEvent
           /\ \A q \in Publishers : q # p => event'[q] = event[q] /\ pending'[q] = pending[q]
<1> DEFINE e == [id |-> seq + 1, by |-> p, kind |-> kind, of |-> of]
<1>1. e \in Event
  BY DEF TypeInv, TypeOK, Event
<1>2. Append(history, e) \in Seq(Event)
  BY <1>1 DEF TypeInv, TypeOK
<1>3. history' \in Seq(Event) /\ Len(history') <= HistoryMax
  BY <1>2, NewestType, BoundsAssumption DEF Publish
<1> QED
  BY <1>1, <1>3 DEF TypeInv, TypeOK, Publish, NoEvent

LEMMA PublishNumbered ==
    ASSUME TypeInv, NEW p \in Publishers, NEW kind \in Kinds, NEW of \in Clients \cup Runs,
           Publish(p, kind, of)
    PROVE  Numbered'
<1> SUFFICES ASSUME NEW q \in Publishers
             PROVE  event'[q].id <= seq' /\ (pending'[q] # {} => event'[q] # NoEvent)
  BY DEF Numbered
<1>1. event[q].id \in Nat
  BY DEF TypeInv, TypeOK, Event, NoEvent
<1>2. event[q].id <= seq /\ (pending[q] # {} => event[q] # NoEvent) /\ seq \in Nat
  BY DEF TypeInv, TypeOK, Numbered
<1>3. CASE q = p
  BY <1>3, PublishType DEF TypeInv, TypeOK
<1>4. CASE q # p
  <2>1. event'[q] = event[q] /\ pending'[q] = pending[q] /\ seq' = seq + 1
    BY <1>4, PublishType
  <2> QED
    BY <2>1, <1>1, <1>2
<1> QED
  BY <1>3, <1>4

-----------------------------------------------------------------------------
\* Types.

LEMMA InitType == Init => TypeInv
<1> SUFFICES ASSUME Init PROVE TypeInv
  OBVIOUS
<1> QED
  BY BoundsAssumption DEF Init, TypeInv, TypeOK, Numbered, NoEvent, Idle

LEMMA DeliverType ==
    ASSUME TypeInv, NEW p \in Publishers, NEW c \in Clients, Deliver(p, c)
    PROVE  TypeInv'
<1>1. event[p] \in Event
  BY DEF TypeInv, TypeOK, Numbered, Deliver
<1>2. event[p].id \in 1..seq
  BY <1>1 DEF TypeInv, TypeOK, Numbered, Event
<1>3. Append(queue[c], event[p]) \in Seq(Event)
  BY <1>1 DEF TypeInv, TypeOK
<1>4. queue' \in [Clients -> Seq(Event)] /\ \A d \in Clients : Len(queue'[d]) <= QueueMax
  <2>1. CASE queue' = queue
    BY <2>1 DEF TypeInv, TypeOK
  <2>2. CASE /\ Len(queue[c]) < QueueMax
             /\ queue' = [queue EXCEPT ![c] = Append(@, event[p])]
    <3>1. queue[c] \in Seq(Event)
      BY DEF TypeInv, TypeOK
    <3>2. Len(Append(queue[c], event[p])) = Len(queue[c]) + 1 /\ Len(queue[c]) \in Nat
      BY <3>1, <1>1
    <3> QED
      BY <2>2, <3>2, <1>3, BoundsAssumption DEF TypeInv, TypeOK
  <2> QED
    BY <2>1, <2>2 DEF Deliver
<1>5. dropped' \in [Clients -> SUBSET (1..seq')]
  <2>1. seq' = seq /\ dropped \in [Clients -> SUBSET (1..seq)]
    BY DEF TypeInv, TypeOK, Deliver
  <2>2. dropped' = dropped \/ dropped' = [dropped EXCEPT ![c] = @ \cup {event[p].id}]
    BY DEF Deliver
  <2> QED
    BY <2>1, <2>2, <1>2
<1>6. pending' \in [Publishers -> SUBSET Clients]
  BY DEF TypeInv, TypeOK, Deliver
<1>7. Numbered'
  BY DEF TypeInv, TypeOK, Numbered, Deliver
<1>8. TypeOK'
  BY <1>4, <1>5, <1>6 DEF TypeInv, TypeOK, Deliver, client, run
<1> QED
  BY <1>7, <1>8 DEF TypeInv

\* Numbers given out before stay within bounds when another one is.
LEMMA PublishBounds ==
    ASSUME TypeInv, NEW p \in Publishers, NEW kind \in Kinds, NEW of \in Clients \cup Runs,
           Publish(p, kind, of)
    PROVE  /\ asOf \in [Clients -> 0..seq'] /\ since \in [Clients -> 0..seq']
           /\ dropped \in [Clients -> SUBSET (1..seq')]
<1>1. seq \in Nat /\ seq' = seq + 1
  BY PublishType DEF TypeInv, TypeOK
<1>2. 0..seq \subseteq 0..seq' /\ 1..seq \subseteq 1..seq'
  BY <1>1
<1> QED
  BY <1>2 DEF TypeInv, TypeOK

\* What a publishing action leaves to show of the types.
LEMMA PublishingType ==
    ASSUME TypeInv, NEW p \in Publishers, NEW kind \in Kinds, NEW of \in Clients \cup Runs,
           Publish(p, kind, of), UNCHANGED <<queue, asOf, since, dropped>>,
           table' \subseteq Clients,
           loop' \in {Idle} \cup ({"register", "announce", "goodbye"} \X Clients)
                \cup ({"spawn", "wait", "stdout", "stderr", "finish"} \X Runs),
           conn' \in [Clients -> {"away", "joining", "open", "gone"}],
           replay' \in [Clients -> Seq(Event)], got' \in [Clients -> Seq(Event)],
           reader' \in [Readers -> {"none", "reading", "closed"}],
           chunks' \in [Readers -> 0..MaxOutput], todo' \subseteq Runs, late' \subseteq Readers
    PROVE  TypeInv'
<1>1. TypeOK'
  BY PublishType, PublishBounds DEF TypeInv, TypeOK
<1> QED
  BY <1>1, PublishNumbered DEF TypeInv

LEMMA ClientType ==
    ASSUME TypeInv, NEW c \in Clients,
           \/ \E n \in 0..HistoryMax : Connect(c, n)
           \/ Register(c) \/ Announce(c) \/ SendReplay(c) \/ Serve(c)
           \/ Leave(c) \/ Goodbye(c) \/ Abandon(c)
    PROVE  TypeInv'
<1> USE DEF TypeInv, TypeOK
<1>1. ASSUME NEW n \in 0..HistoryMax, Connect(c, n) PROVE TypeInv'
  <2>1. Newest(history, n) \in Seq(Event)
    BY NewestType, BoundsAssumption
  <2>2. TypeOK'
    BY <1>1, <2>1 DEF Connect, hub, run
  <2> QED
    BY <1>1, <2>2 DEF Numbered, Connect, hub
<1>2. CASE Register(c)
  <2>1. TypeOK'
    BY <1>2 DEF Register, hub, run
  <2> QED
    BY <1>2, <2>1 DEF Numbered, Register, hub
<1>3. CASE Announce(c)
  BY <1>3, PublishingType DEF Announce, run, Publishers, Kinds
<1>4. CASE SendReplay(c)
  <2>1. replay[c] \in Seq(Event) /\ got[c] \in Seq(Event) /\ replay[c] # <<>>
    BY <1>4 DEF SendReplay
  <2>2. Head(replay[c]) \in Event /\ Tail(replay[c]) \in Seq(Event)
    BY <2>1
  <2>3. Append(got[c], Head(replay[c])) \in Seq(Event)
    BY <2>1, <2>2
  <2>4. got' \in [Clients -> Seq(Event)] /\ replay' \in [Clients -> Seq(Event)]
    BY <1>4, <2>2, <2>3 DEF SendReplay
  <2>5. TypeOK'
    BY <1>4, <2>4 DEF SendReplay, hub, run
  <2> QED
    BY <1>4, <2>5 DEF Numbered, SendReplay, hub
<1>5. CASE Serve(c)
  <2>1. queue[c] \in Seq(Event) /\ got[c] \in Seq(Event) /\ queue[c] # <<>>
    BY <1>5 DEF Serve
  <2>2. /\ Head(queue[c]) \in Event /\ Tail(queue[c]) \in Seq(Event)
        /\ Len(Tail(queue[c])) <= QueueMax
    <3>1. Len(Tail(queue[c])) = Len(queue[c]) - 1 /\ Len(queue[c]) \in Nat
      BY <2>1
    <3> QED
      BY <2>1, <3>1, BoundsAssumption
  <2>3. Append(got[c], Head(queue[c])) \in Seq(Event)
    BY <2>1, <2>2
  <2>4. /\ got' \in [Clients -> Seq(Event)] /\ queue' \in [Clients -> Seq(Event)]
        /\ \A d \in Clients : Len(queue'[d]) <= QueueMax
    BY <1>5, <2>2, <2>3 DEF Serve
  <2>5. TypeOK'
    BY <1>5, <2>4 DEF Serve, hub, run
  <2> QED
    BY <1>5, <2>5 DEF Numbered, Serve, hub
<1>6. CASE Leave(c)
  <2>1. TypeOK'
    BY <1>6 DEF Leave, hub, run
  <2> QED
    BY <1>6, <2>1 DEF Numbered, Leave, hub
<1>7. CASE Goodbye(c)
  BY <1>7, PublishingType DEF Goodbye, client, run, Publishers, Kinds
<1>8. CASE Abandon(c)
  <2>1. TypeOK'
    BY <1>8 DEF Abandon, hub, run
  <2> QED
    BY <1>8, <2>1 DEF Numbered, Abandon, hub
<1> QED
  BY <1>1, <1>2, <1>3, <1>4, <1>5, <1>6, <1>7, <1>8

LEMMA RunType ==
    ASSUME TypeInv, NEW r \in Runs,
           \/ RunStart(r) \/ Spawn(r) \/ SpawnMissing(r) \/ SpawnRaises(r)
           \/ Waited(r) \/ Join(r) \/ Finish(r)
    PROVE  TypeInv'
<1> USE DEF TypeInv, TypeOK
<1>1. CASE RunStart(r)
  BY <1>1, PublishingType DEF RunStart, client, Publishers, Kinds
<1>2. CASE Spawn(r)
  <2>1. TypeOK'
    BY <1>2 DEF Spawn, hub, client
  <2> QED
    BY <1>2, <2>1 DEF Numbered, Spawn, hub
<1>3. CASE SpawnMissing(r)
  BY <1>3, PublishingType DEF SpawnMissing, client, run, Publishers, Kinds
<1>4. CASE SpawnRaises(r)
  <2>1. TypeOK'
    BY <1>4 DEF SpawnRaises, hub, client, run
  <2> QED
    BY <1>4, <2>1 DEF Numbered, SpawnRaises, hub
<1>5. CASE Waited(r)
  <2>1. TypeOK'
    BY <1>5 DEF Waited, hub, client, run
  <2> QED
    BY <1>5, <2>1 DEF Numbered, Waited, hub
<1>6. CASE Join(r)
  <2>1. loop[1] \in Streams
    BY <1>6 DEF Join, LoopAt, Streams
  <2>2. late' \subseteq Readers
    BY <1>6, <2>1 DEF Join, Readers
  <2>3. TypeOK'
    BY <1>6, <2>2 DEF Join, hub, client
  <2> QED
    BY <1>6, <2>3 DEF Numbered, Join, hub
<1>7. CASE Finish(r)
  BY <1>7, PublishingType DEF Finish, client, run, Publishers, Kinds
<1> QED
  BY <1>1, <1>2, <1>3, <1>4, <1>5, <1>6, <1>7

LEMMA ReaderType ==
    ASSUME TypeInv, NEW x \in Readers, Output(x) \/ EndOfFile(x)
    PROVE  TypeInv'
<1> USE DEF TypeInv, TypeOK
<1>1. CASE Output(x)
  <2>1. x \in Publishers /\ x[1] \in Runs
    BY DEF Publishers, Readers
  <2>2. chunks' \in [Readers -> 0..MaxOutput]
    BY <1>1, BoundsAssumption DEF Output
  <2> QED
    BY <1>1, <2>1, <2>2, PublishingType DEF Output, client, Kinds
<1>2. CASE EndOfFile(x)
  <2>1. TypeOK'
    BY <1>2 DEF EndOfFile, hub, client
  <2> QED
    BY <1>2, <2>1 DEF Numbered, EndOfFile, hub
<1> QED
  BY <1>1, <1>2

LEMMA StutterType == ASSUME TypeInv, UNCHANGED vars PROVE TypeInv'
  BY DEF TypeInv, TypeOK, Numbered, vars

\* The actions by what they belong to.
LEMMA NextCases ==
    ASSUME Next
    PROVE  \/ \E p \in Publishers, c \in Clients : Deliver(p, c)
           \/ \E c \in Clients : \/ \E n \in 0..HistoryMax : Connect(c, n)
                                 \/ Register(c) \/ Announce(c) \/ SendReplay(c) \/ Serve(c)
                                 \/ Leave(c) \/ Goodbye(c) \/ Abandon(c)
           \/ \E r \in Runs : \/ RunStart(r) \/ Spawn(r) \/ SpawnMissing(r)
                              \/ SpawnRaises(r) \/ Waited(r) \/ Join(r) \/ Finish(r)
           \/ \E x \in Readers : Output(x) \/ EndOfFile(x)
  BY DEF Next, LoopStep, ReaderStep, Publishers

LEMMA NextType == ASSUME TypeInv, [Next]_vars PROVE TypeInv'
  BY NextCases, DeliverType, ClientType, RunType, ReaderType, StutterType

LEMMA AlwaysTypeInv == Spec => []TypeInv
  BY InitType, NextType, PTL DEF Spec

\* Every variable of the hub keeps its type, and neither the history nor a
\* queue ever exceeds its bound, whatever subscribers and processes do.
THEOREM TypeCorrect == Spec => []TypeOK
  BY AlwaysTypeInv, PTL DEF TypeInv

-----------------------------------------------------------------------------
\* The seam between the replay and the live events.

WatchInv == TypeInv /\ ReadersWatched /\ GapWatched /\ SeamlessReplay

LEMMA ReaderPair == \A x \in Readers : x[1] \in Runs /\ x[2] \in Streams /\ x = <<x[1], x[2]>>
  BY DEF Readers

\* When the loop is not waiting for a run, only late readers read.
LEMMA OnlyLate ==
    ASSUME WatchInv, loop[1] \notin {"wait", "stdout", "stderr"},
           NEW x \in Readers, reader[x] = "reading"
    PROVE  x \in late
  BY ReaderPair DEF WatchInv, ReadersWatched, Streams

LEMMA InitWatch == Init => WatchInv
<1> SUFFICES ASSUME Init PROVE WatchInv
  OBVIOUS
<1>1. ReadersWatched
  BY DEF Init, ReadersWatched
<1>2. GapWatched /\ SeamlessReplay
  BY DEF Init, GapWatched, SeamlessReplay, Idle
<1> QED
  BY <1>1, <1>2, InitType DEF WatchInv

LEMMA ClientWatch ==
    ASSUME WatchInv, NEW c \in Clients,
           \/ \E n \in 0..HistoryMax : Connect(c, n)
           \/ Register(c) \/ Announce(c) \/ SendReplay(c) \/ Serve(c)
           \/ Leave(c) \/ Goodbye(c) \/ Abandon(c)
    PROVE  ReadersWatched' /\ GapWatched' /\ SeamlessReplay'
<1> USE DEF WatchInv, ReadersWatched, GapWatched, SeamlessReplay, LoopAt
<1>0. /\ seq \in Nat
      /\ \A d \in Clients : asOf[d] \in 0..seq /\ since[d] \in 0..seq
      /\ asOf \in [Clients -> 0..seq] /\ since \in [Clients -> 0..seq]
  BY DEF TypeInv, TypeOK
<1>1. ASSUME NEW n \in 0..HistoryMax, Connect(c, n)
      PROVE  ReadersWatched' /\ GapWatched' /\ SeamlessReplay'
  <2>1. \A x \in Readers : reader[x] = "reading" => x \in late
    BY <1>1, OnlyLate DEF Connect
  <2>2. ReadersWatched'
    BY <1>1, <2>1 DEF Connect, run
  <2>3. GapWatched'
    BY <1>0, <1>1 DEF Connect, hub
  <2>4. SeamlessReplay'
    BY <1>0, <1>1 DEF Connect, run
  <2> QED
    BY <2>2, <2>3, <2>4
<1>2. CASE Register(c)
  <2>1. \A x \in Readers : reader[x] = "reading" => x \in late
    BY <1>2, OnlyLate DEF Register
  <2>2. ReadersWatched' /\ GapWatched'
    BY <1>2, <2>1 DEF Register, run
  <2>3. SeamlessReplay'
    BY <1>0, <1>2 DEF Register, run
  <2> QED
    BY <2>2, <2>3
<1>3. CASE Announce(c) \/ Leave(c) \/ Goodbye(c)
  <2>1. \A x \in Readers : reader[x] = "reading" => x \in late
    BY <1>3, OnlyLate DEF Announce, Leave, Goodbye
  <2>2. ReadersWatched' /\ GapWatched' /\ SeamlessReplay'
    BY <1>3, <2>1 DEF Announce, Leave, Goodbye, run, client, Idle
  <2> QED
    BY <2>2
<1>4. CASE SendReplay(c) \/ Serve(c) \/ Abandon(c)
  BY <1>4 DEF SendReplay, Serve, Abandon, run, hub
<1> QED
  BY <1>1, <1>2, <1>3, <1>4

LEMMA RunWatch ==
    ASSUME WatchInv, NEW r \in Runs,
           \/ RunStart(r) \/ Spawn(r) \/ SpawnMissing(r) \/ SpawnRaises(r)
           \/ Waited(r) \/ Join(r) \/ Finish(r)
    PROVE  ReadersWatched' /\ GapWatched' /\ SeamlessReplay'
<1> USE DEF WatchInv, ReadersWatched, GapWatched, SeamlessReplay, LoopAt
<1>1. CASE RunStart(r) \/ SpawnMissing(r) \/ SpawnRaises(r) \/ Finish(r)
  <2>1. \A x \in Readers : reader[x] = "reading" => x \in late
    BY <1>1, OnlyLate DEF RunStart, SpawnMissing, SpawnRaises, Finish
  <2> QED
    BY <1>1, <2>1 DEF RunStart, SpawnMissing, SpawnRaises, Finish, run, client, Idle
<1>2. CASE Spawn(r)
  <2>1. \A x \in Readers : reader[x] = "reading" => x \in late
    BY <1>2, OnlyLate DEF Spawn
  <2>2. ReadersWatched'
    BY <1>2, <2>1 DEF Spawn
  <2> QED
    BY <1>2, <2>2 DEF Spawn, client
<1>3. CASE Waited(r)
  BY <1>3, ReaderPair DEF Waited, run, client
<1>4. CASE Join(r)
  <2>1. /\ loop[1] \in {"stdout", "stderr"} /\ loop[2] = r
        /\ loop' = <<IF loop[1] = "stdout" THEN "stderr" ELSE "finish", r>>
        /\ reader' = reader /\ late \subseteq late'
    BY <1>4 DEF Join
  <2>2. reader[<<r, loop[1]>>] = "reading" => <<r, loop[1]>> \in late'
    BY <1>4 DEF Join
  <2>3. ASSUME NEW x \in Readers, reader[x] = "reading", x \notin late'
        PROVE  loop'[2] = x[1] /\ loop'[1] \in {"wait", "stdout", x[2]}
    <3>1. x \notin late /\ loop[2] = x[1] /\ loop[1] \in {"wait", "stdout", x[2]}
      BY <2>1, <2>3
    <3>2. x[1] = r /\ x[2] # loop[1]
      BY <2>1, <2>2, <2>3, <3>1, ReaderPair
    <3>3. loop[1] = "stdout" /\ x[2] = "stderr"
      BY <2>1, <3>1, <3>2, ReaderPair DEF Streams
    <3> QED
      BY <2>1, <3>2, <3>3
  <2>4. ReadersWatched'
    BY <2>1, <2>3
  <2> QED
    BY <1>4, <2>1, <2>4 DEF Join, client
<1> QED
  BY <1>1, <1>2, <1>3, <1>4

LEMMA ReaderWatch ==
    ASSUME WatchInv, NEW x \in Readers, Output(x) \/ EndOfFile(x)
    PROVE  ReadersWatched' /\ GapWatched' /\ SeamlessReplay'
<1> USE DEF WatchInv, ReadersWatched, GapWatched, SeamlessReplay
<1>1. CASE Output(x)
  <2>1. loop[1] = "register" => late # {}
    BY <1>1, OnlyLate DEF Output
  <2> QED
    BY <1>1, <2>1 DEF Output, client
<1>2. CASE EndOfFile(x)
  <2>1. \A y \in Readers : reader'[y] = "reading" => reader[y] = "reading"
    BY <1>2 DEF EndOfFile, TypeInv, TypeOK
  <2> QED
    BY <1>2, <2>1 DEF EndOfFile, client, hub
<1> QED
  BY <1>1, <1>2

LEMMA NextWatch == ASSUME WatchInv, [Next]_vars PROVE WatchInv'
<1>1. ASSUME NEW p \in Publishers, NEW c \in Clients, Deliver(p, c)
      PROVE  ReadersWatched' /\ GapWatched' /\ SeamlessReplay'
  BY <1>1 DEF WatchInv, ReadersWatched, GapWatched, SeamlessReplay, Deliver, run, client
<1>2. CASE UNCHANGED vars
  BY <1>2, StutterType
     DEF WatchInv, ReadersWatched, GapWatched, SeamlessReplay, vars
<1>3. TypeInv'
  BY NextType DEF WatchInv
<1> QED
  BY <1>1, <1>2, <1>3, NextCases, ClientWatch, RunWatch, ReaderWatch DEF WatchInv

\* A subscriber that connects misses nothing between its replay and its queue,
\* although the two are set up under different locks, unless a reader thread has
\* outlived the run that the loop waited for.
THEOREM ReplayIsSeamless == Spec => []SeamlessReplay
<1>1. WatchInv => SeamlessReplay
  BY DEF WatchInv
<1> QED
  BY <1>1, InitWatch, NextWatch, PTL DEF Spec

-----------------------------------------------------------------------------
\* Streams.

\* What is in a sequence put together from three.
LEMMA ConcatType ==
    ASSUME NEW S, NEW s \in Seq(S), NEW t \in Seq(S), NEW u \in Seq(S)
    PROVE  s \o t \o u \in Seq(S)
  OBVIOUS

LEMMA AppendLast ==
    ASSUME NEW S, NEW s \in Seq(S), NEW t \in Seq(S), NEW u \in Seq(S), NEW e \in S
    PROVE  s \o t \o Append(u, e) = Append(s \o t \o u, e)
  OBVIOUS

\* Moving the first element of a sequence to the end of the one before it.
LEMMA MoveHead ==
    ASSUME NEW S, NEW s \in Seq(S), NEW t \in Seq(S), t # <<>>
    PROVE  Append(s, Head(t)) \o Tail(t) = s \o t
<1>1. /\ Head(t) \in S /\ Tail(t) \in Seq(S) /\ Len(t) \in Nat \ {0}
      /\ Len(Tail(t)) = Len(t) - 1 /\ Head(t) = t[1]
      /\ \A i \in 1..Len(Tail(t)) : Tail(t)[i] = t[i + 1]
  OBVIOUS
<1>2. Append(s, Head(t)) \in Seq(S) /\ Len(Append(s, Head(t))) = Len(s) + 1
  BY <1>1
<1>3. Len(Append(s, Head(t)) \o Tail(t)) = Len(s \o t)
  BY <1>1, <1>2
<1>4. \A i \in 1..Len(s \o t) : (Append(s, Head(t)) \o Tail(t))[i] = (s \o t)[i]
  BY <1>1, <1>2
<1> QED
  BY <1>1, <1>2, <1>3, <1>4, SeqEqual

LEMMA StreamType ==
    ASSUME TypeInv, NEW c \in Clients
    PROVE  /\ got[c] \in Seq(Event) /\ replay[c] \in Seq(Event) /\ queue[c] \in Seq(Event)
           /\ Stream(c) \in Seq(Event)
<1>1. got[c] \in Seq(Event) /\ replay[c] \in Seq(Event) /\ queue[c] \in Seq(Event)
  BY DEF TypeInv, TypeOK
<1> QED
  BY <1>1, ConcatType DEF Stream

\* Serving a client moves events along its stream.
LEMMA StreamServed ==
    ASSUME TypeInv, NEW c \in Clients, SendReplay(c) \/ Serve(c), NEW d \in Clients
    PROVE  Stream(d)' = Stream(d)
<1>1. CASE d # c
  BY <1>1 DEF SendReplay, Serve, Stream, TypeInv, TypeOK
<1>2. CASE d = c /\ SendReplay(c)
  <2>1. /\ got'[c] = Append(got[c], Head(replay[c])) /\ replay'[c] = Tail(replay[c])
        /\ queue'[c] = queue[c] /\ replay[c] # <<>>
    BY <1>2 DEF SendReplay, TypeInv, TypeOK
  <2>2. got'[c] \o replay'[c] = got[c] \o replay[c]
    BY <2>1, StreamType, MoveHead
  <2> QED
    BY <1>2, <2>1, <2>2 DEF Stream
<1>3. CASE d = c /\ Serve(c)
  <2>1. /\ got'[c] = Append(got[c], Head(queue[c])) /\ queue'[c] = Tail(queue[c])
        /\ replay'[c] = <<>> /\ replay[c] = <<>> /\ queue[c] # <<>>
    BY <1>3 DEF Serve, TypeInv, TypeOK
  <2>2. got'[c] \o queue'[c] = got[c] \o queue[c]
    BY <2>1, StreamType, MoveHead
  <2>3. got[c] \o <<>> = got[c]
    BY StreamType
  <2>4. got'[c] \o <<>> = got'[c]
    <3>1. Append(got[c], Head(queue[c])) \in Seq(Event)
      BY <2>1, StreamType
    <3> QED
      BY <2>1, <3>1
  <2> QED
    BY <1>3, <2>1, <2>2, <2>3, <2>4 DEF Stream
<1> QED
  BY <1>1, <1>2, <1>3

\* A thread puts its event at the end of one stream, or drops it.
LEMMA StreamPut ==
    ASSUME TypeInv, NEW p \in Publishers, NEW c \in Clients, Deliver(p, c)
    PROVE  /\ \A d \in Clients : d # c => Stream(d)' = Stream(d)
           /\ \/ Stream(c)' = Append(Stream(c), event[p]) /\ dropped' = dropped
              \/ Stream(c)' = Stream(c) /\ dropped' = [dropped EXCEPT ![c] = @ \cup {event[p].id}]
           /\ event[p] \in Event
<1>1. event[p] \in Event
  BY DEF TypeInv, TypeOK, Numbered, Deliver
<1>2. got' = got /\ replay' = replay
  BY DEF Deliver, client
<1>3. \A d \in Clients : d # c => queue'[d] = queue[d]
  BY DEF Deliver, TypeInv, TypeOK
<1>4. \A d \in Clients : d # c => Stream(d)' = Stream(d)
  BY <1>2, <1>3 DEF Stream
<1>5. CASE queue' = [queue EXCEPT ![c] = Append(@, event[p])] /\ dropped' = dropped
  <2>1. queue'[c] = Append(queue[c], event[p])
    BY <1>5 DEF TypeInv, TypeOK
  <2>2. got[c] \in Seq(Event) /\ replay[c] \in Seq(Event) /\ queue[c] \in Seq(Event)
    BY StreamType
  <2>3. got[c] \o replay[c] \o Append(queue[c], event[p])
        = Append(got[c] \o replay[c] \o queue[c], event[p])
    <3> HIDE DEF Event
    <3>1. SUFFICES ASSUME NEW s, NEW t, NEW u, NEW e, s = got[c], t = replay[c], u = queue[c],
                          e = event[p]
                   PROVE  s \o t \o Append(u, e) = Append(s \o t \o u, e)
      OBVIOUS
    <3>2. s \in Seq(Event) /\ t \in Seq(Event) /\ u \in Seq(Event) /\ e \in Event
      BY <1>1, <2>2, <3>1
    <3> QED
      BY <3>2, AppendLast
  <2>4. Stream(c)' = Append(Stream(c), event[p])
    BY <1>2, <2>1, <2>3 DEF Stream
  <2> QED
    BY <1>1, <1>4, <1>5, <2>4
<1>6. CASE queue' = queue /\ dropped' = [dropped EXCEPT ![c] = @ \cup {event[p].id}]
  BY <1>1, <1>2, <1>4, <1>6 DEF Stream
<1> QED
  BY <1>5, <1>6 DEF Deliver

\* A client that connects starts with the end of the history.
LEMMA StreamNew ==
    ASSUME TypeInv, NothingAway, NEW c \in Clients, NEW n \in 0..HistoryMax, Connect(c, n)
    PROVE  /\ \A d \in Clients : d # c => Stream(d)' = Stream(d)
           /\ Stream(c)' = Newest(history, n)
<1>1. got[c] = <<>> /\ queue[c] = <<>> /\ got' = got /\ queue' = queue
  BY DEF NothingAway, Connect
<1>2. replay' = [replay EXCEPT ![c] = Newest(history, n)]
  BY DEF Connect
<1>3. replay'[c] = Newest(history, n)
  BY <1>2 DEF TypeInv, TypeOK
<1>4. Newest(history, n) \in Seq(Event)
  BY NewestType, BoundsAssumption DEF TypeInv, TypeOK
<1>5. Stream(c)' = <<>> \o Newest(history, n) \o <<>>
  BY <1>1, <1>3 DEF Stream
<1>6. <<>> \o Newest(history, n) \o <<>> = Newest(history, n)
  BY <1>4
<1> QED
  BY <1>1, <1>2, <1>5, <1>6 DEF Stream, TypeInv, TypeOK

\* Nothing else touches a stream.
LEMMA StreamSame ==
    ASSUME \/ UNCHANGED vars
           \/ \E c \in Clients : Register(c) \/ Announce(c) \/ Leave(c) \/ Goodbye(c) \/ Abandon(c)
           \/ \E r \in Runs : \/ RunStart(r) \/ Spawn(r) \/ SpawnMissing(r)
                              \/ SpawnRaises(r) \/ Waited(r) \/ Join(r) \/ Finish(r)
           \/ \E x \in Readers : Output(x) \/ EndOfFile(x),
           NEW d \in Clients
    PROVE  /\ Stream(d)' = Stream(d) /\ got' = got /\ queue' = queue
           /\ dropped' = dropped /\ asOf' = asOf
  BY DEF vars, client, Register, Announce, Leave, Goodbye, Abandon, RunStart, Spawn,
         SpawnMissing, SpawnRaises, Waited, Join, Finish, Output, EndOfFile, Stream

-----------------------------------------------------------------------------
\* What a full queue does not lose.

LostInv == TypeInv /\ NothingAway /\ NothingLost

\* Every step is one of these: an event is published, put into one queue, or
\* neither.
PublishStep(p) ==
    /\ Free(p) /\ table' = table
    /\ \E kind \in Kinds, of \in Clients \cup Runs : Publish(p, kind, of)

QuietStep == UNCHANGED hub /\ table' \subseteq table

LEMMA StepKinds ==
    ASSUME TypeInv, [Next]_vars
    PROVE  \/ \E p \in Publishers, c \in Clients : Deliver(p, c)
           \/ \E c \in Clients, n \in 0..HistoryMax : Connect(c, n)
           \/ \E c \in Clients : Register(c)
           \/ \E c \in Clients : SendReplay(c) \/ Serve(c)
           \/ /\ \A c \in Clients : Stream(c)' = Stream(c) /\ since'[c] = since[c]
              /\ got' = got /\ queue' = queue /\ dropped' = dropped
              /\ \A c \in Clients : conn'[c] = "away" => conn[c] = "away"
              /\ \A c \in Clients : loop' = <<"register", c>> => loop = loop'
              /\ QuietStep \/ \E p \in Publishers : PublishStep(p)
<1> DEFINE Rest == /\ \A c \in Clients : Stream(c)' = Stream(c) /\ since'[c] = since[c]
                   /\ got' = got /\ queue' = queue /\ dropped' = dropped
                   /\ \A c \in Clients : conn'[c] = "away" => conn[c] = "away"
                   /\ \A c \in Clients : loop' = <<"register", c>> => loop = loop'
                   /\ QuietStep \/ \E p \in Publishers : PublishStep(p)
<1>0. Loop \in Publishers /\ Readers \subseteq Publishers
  BY DEF Publishers
<1>1. CASE UNCHANGED vars
  BY <1>1, StreamSame DEF vars, QuietStep, hub
<1>2. ASSUME NEW c \in Clients, Announce(c) \/ Leave(c) \/ Goodbye(c) \/ Abandon(c)
      PROVE  Rest
  <2>1. \A d \in Clients : Stream(d)' = Stream(d) /\ since'[d] = since[d]
    BY <1>2, StreamSame DEF Announce, Leave, Goodbye, Abandon, client
  <2>2. got' = got /\ queue' = queue /\ dropped' = dropped
    BY <1>2, StreamSame
  <2>3. \A d \in Clients : conn'[d] = "away" => conn[d] = "away"
    BY <1>2 DEF TypeInv, TypeOK, Announce, Leave, Goodbye, Abandon, client
  <2>4. \A d \in Clients : loop' = <<"register", d>> => loop = loop'
    BY <1>2 DEF Announce, Leave, Goodbye, Abandon, Idle
  <2>5. QuietStep \/ PublishStep(Loop)
    BY <1>2 DEF Announce, Leave, Goodbye, Abandon, client, QuietStep, PublishStep, LoopAt, Kinds
  <2> QED
    BY <1>0, <2>1, <2>2, <2>3, <2>4, <2>5
<1>3. ASSUME NEW r \in Runs, \/ RunStart(r) \/ Spawn(r) \/ SpawnMissing(r) \/ SpawnRaises(r)
                             \/ Waited(r) \/ Join(r) \/ Finish(r)
      PROVE  Rest
  <2>1. got' = got /\ queue' = queue /\ dropped' = dropped /\ UNCHANGED client
    BY <1>3 DEF RunStart, Spawn, SpawnMissing, SpawnRaises, Waited, Join, Finish, client
  <2>2. \A d \in Clients : loop' = <<"register", d>> => loop = loop'
    BY <1>3 DEF RunStart, Spawn, SpawnMissing, SpawnRaises, Waited, Join, Finish, Idle
  <2>3. QuietStep \/ PublishStep(Loop)
    BY <1>3 DEF RunStart, Spawn, SpawnMissing, SpawnRaises, Waited, Join, Finish, client,
                QuietStep, PublishStep, LoopAt, Kinds
  <2> QED
    BY <1>0, <2>1, <2>2, <2>3 DEF client, Stream
<1>4. ASSUME NEW x \in Readers, Output(x) \/ EndOfFile(x)
      PROVE  Rest
  <2>1. got' = got /\ queue' = queue /\ dropped' = dropped /\ loop' = loop /\ UNCHANGED client
    BY <1>4 DEF Output, EndOfFile, client
  <2>2. QuietStep \/ PublishStep(x)
    BY <1>4, ReaderPair DEF Output, EndOfFile, client, QuietStep, PublishStep, Kinds
  <2> QED
    BY <1>0, <2>1, <2>2 DEF client, Stream
<1> QED
  BY <1>1, <1>2, <1>3, <1>4, NextCases

LEMMA InitLost == Init => LostInv
<1> SUFFICES ASSUME Init PROVE LostInv
  OBVIOUS
<1>1. NothingAway /\ NothingLost
  BY DEF Init, NothingAway, NothingLost, Idle
<1> QED
  BY <1>1, InitType DEF LostInv

\* Nothing is sent to a client before it has connected.
LEMMA NextAway == ASSUME TypeInv, NothingAway, [Next]_vars PROVE NothingAway'
<1> USE DEF NothingAway
<1>1. ASSUME NEW p \in Publishers, NEW c \in Clients, Deliver(p, c) PROVE NothingAway'
  <2>1. \A d \in Clients : d # c => queue'[d] = queue[d]
    BY <1>1 DEF Deliver, TypeInv, TypeOK
  <2>2. \A q \in Publishers : pending'[q] \subseteq pending[q]
    BY <1>1 DEF Deliver, TypeInv, TypeOK
  <2>3. conn[c] # "away"
    BY <1>1 DEF Deliver
  <2> QED
    BY <1>1, <2>1, <2>2, <2>3 DEF Deliver, client
<1>2. ASSUME NEW c \in Clients, NEW n \in 0..HistoryMax, Connect(c, n) PROVE NothingAway'
  <2>1. conn'[c] = "joining" /\ \A d \in Clients : d # c => conn'[d] = conn[d]
    BY <1>2 DEF Connect, TypeInv, TypeOK
  <2>2. \A d \in Clients : conn'[d] = "away" => d # c /\ loop' # <<"register", d>>
    BY <1>2, <2>1 DEF Connect
  <2> QED
    BY <1>2, <2>1, <2>2 DEF Connect, hub
<1>3. ASSUME NEW c \in Clients, Register(c) PROVE NothingAway'
  <2>1. loop = <<"register", c>>
    BY <1>3 DEF Register, LoopAt, TypeInv, TypeOK, Idle
  <2> QED
    BY <1>3, <2>1 DEF Register, hub
<1>4. ASSUME NEW c \in Clients, SendReplay(c) \/ Serve(c) PROVE NothingAway'
  BY <1>4 DEF SendReplay, Serve, hub, TypeInv, TypeOK
<1>5. ASSUME /\ got' = got /\ queue' = queue
             /\ \A c \in Clients : conn'[c] = "away" => conn[c] = "away"
             /\ \A c \in Clients : loop' = <<"register", c>> => loop = loop'
      PROVE  QuietStep \/ (\E p \in Publishers : PublishStep(p)) => NothingAway'
  <2>1. CASE QuietStep
    BY <1>5, <2>1 DEF QuietStep, hub
  <2>2. ASSUME NEW p \in Publishers, PublishStep(p) PROVE NothingAway'
    <3>1. table' = table /\ \A q \in Publishers : pending'[q] \subseteq pending[q] \cup table
      BY <2>2 DEF PublishStep, Publish, TypeInv, TypeOK
    <3> QED
      BY <1>5, <3>1
  <2> QED
    BY <2>1, <2>2
<1> QED
  BY <1>1, <1>2, <1>3, <1>4, <1>5, StepKinds

LEMMA NextLost == ASSUME LostInv, [Next]_vars PROVE NothingLost'
<1> USE DEF LostInv, NothingLost
<1>0. /\ seq \in Nat /\ \A c \in Clients : since[c] \in 0..seq
      /\ table \subseteq Clients /\ pending \in [Publishers -> SUBSET Clients]
      /\ \A c \in Clients : Stream(c) \in Seq(Event)
  BY StreamType DEF TypeInv, TypeOK
<1>1. ASSUME NEW p \in Publishers, NEW c \in Clients, Deliver(p, c) PROVE NothingLost'
  <2> SUFFICES ASSUME NEW d \in table', NEW id \in (since'[d] + 1)..seq'
               PROVE  \/ id \in Ids(Stream(d)') \cup dropped'[d]
                      \/ \E q \in Publishers : event'[q].id = id /\ d \in pending'[q]
    BY DEF Ids
  <2>1. d \in table /\ d \in Clients /\ id \in (since[d] + 1)..seq /\ event' = event
    BY <1>0, <1>1 DEF Deliver, client
  <2>2. \A q \in Publishers, b \in Clients : b \in pending[q] /\ ~(q = p /\ b = c) => b \in pending'[q]
    BY <1>0, <1>1 DEF Deliver
  <2>3. /\ Ids(Stream(d)) \subseteq Ids(Stream(d)') /\ dropped[d] \subseteq dropped'[d]
        /\ d = c => event[p].id \in Ids(Stream(d)') \cup dropped'[d]
    <3>1. CASE d # c
      <4>1. Stream(d)' = Stream(d)
        BY <1>1, <2>1, <3>1, StreamPut
      <4>2. dropped'[d] = dropped[d]
        BY <1>1, <2>1, <3>1 DEF Deliver, TypeInv, TypeOK
      <4> QED
        BY <3>1, <4>1, <4>2
    <3>2. CASE d = c /\ Stream(c)' = Append(Stream(c), event[p]) /\ dropped' = dropped
      <4>1. event[p] \in Event /\ Stream(c) \in Seq(Event)
        BY <1>0, <1>1, StreamPut
      <4>2. /\ DOMAIN Append(Stream(c), event[p]) = 1..(Len(Stream(c)) + 1)
            /\ DOMAIN Stream(c) = 1..Len(Stream(c)) /\ Len(Stream(c)) \in Nat
            /\ \A i \in 1..Len(Stream(c)) : Append(Stream(c), event[p])[i] = Stream(c)[i]
            /\ Append(Stream(c), event[p])[Len(Stream(c)) + 1] = event[p]
        BY <4>1
      <4>3. Ids(Stream(c)) \cup {event[p].id} \subseteq Ids(Append(Stream(c), event[p]))
        BY <4>2 DEF Ids
      <4> QED
        BY <3>2, <4>3
    <3>3. CASE d = c /\ Stream(c)' = Stream(c)
               /\ dropped' = [dropped EXCEPT ![c] = @ \cup {event[p].id}]
      BY <3>3 DEF TypeInv, TypeOK
    <3> QED
      BY <1>1, <3>1, <3>2, <3>3, StreamPut
  <2>4. CASE id \in Ids(Stream(d)) \cup dropped[d]
    BY <2>3, <2>4
  <2>5. ASSUME NEW q \in Publishers, event[q].id = id, d \in pending[q]
        PROVE  \/ id \in Ids(Stream(d)') \cup dropped'[d]
               \/ event'[q].id = id /\ d \in pending'[q]
    BY <2>1, <2>2, <2>3, <2>5
  <2> QED
    BY <2>1, <2>4, <2>5
<1>2. ASSUME NEW c \in Clients, NEW n \in 0..HistoryMax, Connect(c, n) PROVE NothingLost'
  <2>1. c \notin table
    BY <1>2 DEF Connect, NothingAway
  <2>2. \A d \in table : Stream(d)' = Stream(d)
    BY <1>0, <1>2, <2>1, StreamNew
  <2> QED
    BY <1>2, <2>2 DEF Connect, hub, Ids
<1>3. ASSUME NEW c \in Clients, Register(c) PROVE NothingLost'
  <2>1. \A d \in Clients : Stream(d)' = Stream(d)
    BY <1>3, StreamSame
  <2>2. since'[c] = seq /\ seq' = seq /\ \A d \in Clients : d # c => since'[d] = since[d]
    BY <1>3 DEF Register, TypeInv, TypeOK, hub
  <2>3. table' = table \cup {c} /\ event' = event /\ pending' = pending /\ dropped' = dropped
    BY <1>3 DEF Register, hub
  <2> SUFFICES ASSUME NEW d \in table', NEW id \in (since'[d] + 1)..seq'
               PROVE  \/ id \in Ids(Stream(d)') \cup dropped'[d]
                      \/ \E q \in Publishers : event'[q].id = id /\ d \in pending'[q]
    BY DEF Ids
  <2>4. d # c
    BY <1>0, <2>2
  <2> QED
    BY <1>0, <2>1, <2>2, <2>3, <2>4
<1>4. ASSUME NEW c \in Clients, SendReplay(c) \/ Serve(c) PROVE NothingLost'
  <2>1. \A d \in table : Stream(d)' = Stream(d)
    BY <1>0, <1>4, StreamServed
  <2>2. UNCHANGED <<hub, table, since, dropped>>
    BY <1>4 DEF SendReplay, Serve, hub
  <2> QED
    BY <2>1, <2>2 DEF hub, Ids
<1>5. ASSUME \A c \in Clients : Stream(c)' = Stream(c) /\ since'[c] = since[c],
             dropped' = dropped,
             QuietStep \/ \E p \in Publishers : PublishStep(p)
      PROVE  NothingLost'
  <2> SUFFICES ASSUME NEW d \in table', NEW id \in (since'[d] + 1)..seq'
               PROVE  \/ id \in Ids(Stream(d)') \cup dropped'[d]
                      \/ \E q \in Publishers : event'[q].id = id /\ d \in pending'[q]
    BY DEF Ids
  <2>1. d \in table /\ Stream(d)' = Stream(d) /\ since'[d] = since[d]
    BY <1>0, <1>5 DEF QuietStep, PublishStep
  <2>2. CASE QuietStep
    BY <1>5, <2>1, <2>2 DEF QuietStep, hub
  <2>3. ASSUME NEW p \in Publishers, PublishStep(p)
        PROVE  \/ id \in Ids(Stream(d)') \cup dropped'[d]
               \/ \E q \in Publishers : event'[q].id = id /\ d \in pending'[q]
    <3>1. /\ seq' = seq + 1 /\ event'[p].id = seq'
          /\ \A q \in Publishers : q # p => event'[q] = event[q] /\ pending'[q] = pending[q]
      BY <2>3, PublishType DEF PublishStep
    <3>2. pending[p] = {} /\ pending'[p] = table
      BY <1>0, <2>3 DEF PublishStep, Free, Publish
    <3>3. CASE id = seq'
      BY <2>1, <3>1, <3>2, <3>3
    <3>4. CASE id # seq'
      <4>1. id \in (since[d] + 1)..seq
        BY <1>0, <2>1, <3>1, <3>4
      <4> QED
        BY <1>5, <2>1, <3>1, <3>2, <4>1
    <3> QED
      BY <3>3, <3>4
  <2> QED
    BY <1>5, <2>2, <2>3
<1> QED
  BY <1>1, <1>2, <1>3, <1>4, <1>5, StepKinds

\* From its registration on, a subscriber misses only events that found its
\* queue full: every other one is in its stream, or the thread that published it
\* is still about to put it there.
THEOREM OnlyFullQueuesLose == Spec => []NothingLost
<1>1. LostInv /\ [Next]_vars => LostInv'
  BY NextType, NextAway, NextLost DEF LostInv
<1>2. LostInv => NothingLost
  BY DEF LostInv
<1> QED
  BY <1>1, <1>2, InitLost, PTL DEF Spec

-----------------------------------------------------------------------------
\* No event twice.

OnceInv == /\ TypeInv /\ NothingAway
           /\ HistoryInOrder /\ SentNumbered /\ OneNumberEach /\ OwedOnce /\ DeliveredOnce

\* The newest elements of a sequence are its last ones, in their order.
LEMMA NewestLast ==
    ASSUME NEW S, NEW s \in Seq(S), NEW n \in Nat
    PROVE  \E k \in Nat : \A i \in DOMAIN Newest(s, n) :
               i \in Nat /\ i + k \in DOMAIN s /\ Newest(s, n)[i] = s[i + k]
<1>0. Len(s) \in Nat /\ DOMAIN s = 1..Len(s)
  OBVIOUS
<1>1. CASE Len(s) <= n
  <2>1. Newest(s, n) = SubSeq(s, 1, Len(s))
    BY <1>1 DEF Newest
  <2>2. \A i \in DOMAIN Newest(s, n) : i \in Nat /\ i + 0 \in DOMAIN s /\ Newest(s, n)[i] = s[i + 0]
    BY <2>1
  <2> QED
    BY <2>2
<1>2. CASE Len(s) > n
  <2>1. PICK l \in Nat : l = Len(s)
    BY <1>0
  <2>2. l > n /\ DOMAIN s = 1..l
    BY <1>0, <1>2, <2>1
  <2>3. PICK k \in Nat : k = l - n
    BY <2>2
  <2>4. Newest(s, n) = SubSeq(s, k + 1, l)
    <3>1. Newest(s, n) = SubSeq(s, IF l <= n THEN 1 ELSE l - n + 1, l)
      BY <2>1 DEF Newest
    <3>2. ~(l <= n) /\ l - n + 1 = k + 1
      BY <2>2, <2>3
    <3> QED
      BY <3>1, <3>2
  <2>5. /\ DOMAIN SubSeq(s, k + 1, l) = 1..n
        /\ \A i \in 1..n : SubSeq(s, k + 1, l)[i] = s[i + k]
    BY <2>1, <2>2, <2>3
  <2>6. \A i \in 1..n : i \in Nat /\ i + k \in 1..l
    BY <2>2, <2>3
  <2> QED
    BY <2>2, <2>4, <2>5, <2>6
<1> QED
  BY <1>0, <1>1, <1>2

LEMMA EventId == ASSUME NEW s \in Seq(Event), NEW i \in DOMAIN s PROVE s[i].id \in Nat
<1>1. s[i] \in Event
  OBVIOUS
<1> QED
  BY <1>1 DEF Event

LEMMA InitOnce == Init => OnceInv
<1> SUFFICES ASSUME Init PROVE OnceInv
  OBVIOUS
<1>1. NothingAway
  BY DEF Init, NothingAway, Idle
<1>2. \A c \in Clients : Stream(c) = <<>>
  BY DEF Init, Stream
<1>3. HistoryInOrder /\ OneNumberEach /\ OwedOnce
  BY DEF Init, HistoryInOrder, OneNumberEach, OwedOnce
<1>4. SentNumbered /\ DeliveredOnce
  BY <1>2 DEF SentNumbered, DeliveredOnce
<1> QED
  BY <1>1, <1>3, <1>4, InitType DEF OnceInv

\* The number a publishing thread gives out is a new one.
LEMMA PublishOnce ==
    ASSUME OnceInv, NEW p \in Publishers, PublishStep(p),
           \A c \in Clients : Stream(c)' = Stream(c)
    PROVE  HistoryInOrder' /\ SentNumbered' /\ OneNumberEach' /\ OwedOnce' /\ DeliveredOnce'
<1> USE DEF OnceInv
<1>1. PICK kind \in Kinds, of \in Clients \cup Runs : Publish(p, kind, of)
  BY DEF PublishStep
<1> DEFINE e == [id |-> seq + 1, by |-> p, kind |-> kind, of |-> of]
<1>2. /\ seq \in Nat /\ seq' = seq + 1 /\ event'[p].id = seq + 1
      /\ \A q \in Publishers : q # p => event'[q] = event[q] /\ pending'[q] = pending[q]
      /\ pending' \in [Publishers -> SUBSET Clients]
  BY <1>1, PublishType DEF TypeInv, TypeOK
<1>3. /\ \A q \in Publishers : event[q].id <= seq /\ event[q].id \in Nat
      /\ \A c \in Clients : Stream(c) \in Seq(Event)
      /\ history \in Seq(Event)
  <2>1. \A q \in Publishers : event[q] \in Event \cup {NoEvent} /\ event[q].id <= seq
    BY DEF TypeInv, TypeOK, Numbered
  <2>2. \A q \in Publishers : event[q].id \in Nat
    BY <2>1 DEF Event, NoEvent
  <2> QED
    BY <2>1, <2>2, StreamType DEF TypeInv, TypeOK
<1>4. \A c \in Clients : \A i \in DOMAIN Stream(c) : Stream(c)[i].id \in Nat /\ Stream(c)[i].id <= seq
  BY <1>3, EventId DEF SentNumbered
<1>5. HistoryInOrder'
  <2> DEFINE h == Append(history, e)
  <2>1. e \in Event /\ e.id = seq + 1
    BY <1>2 DEF Event
  <2>2. /\ h \in Seq(Event) /\ DOMAIN h = 1..(Len(history) + 1) /\ Len(history) \in Nat
        /\ DOMAIN history = 1..Len(history)
        /\ \A i \in 1..Len(history) : h[i] = history[i]
        /\ h[Len(history) + 1] = e
    BY <1>3, <2>1
  <2>3. \A i \in DOMAIN history : history[i].id \in Nat
    BY <1>3, EventId
  <2>4. \A i, j \in DOMAIN h : h[i].id <= seq + 1 /\ (i < j => h[i].id < h[j].id)
    <3> HIDE DEF h, e
    <3> QED
      BY <1>2, <2>1, <2>2, <2>3 DEF HistoryInOrder
  <2>5. history' = Newest(h, HistoryMax)
    BY <1>1 DEF Publish
  <2>6. PICK k \in Nat : \A i \in DOMAIN history' :
                             i \in Nat /\ i + k \in DOMAIN h /\ history'[i] = h[i + k]
    <3>1. h \in Seq(Event) /\ HistoryMax \in Nat
      BY <2>2, BoundsAssumption
    <3> HIDE DEF h
    <3>2. \E k \in Nat : \A i \in DOMAIN Newest(h, HistoryMax) :
              i \in Nat /\ i + k \in DOMAIN h /\ Newest(h, HistoryMax)[i] = h[i + k]
      BY <3>1, NewestLast
    <3> QED
      BY <2>5, <3>2
  <2> HIDE DEF h
  <2> QED
    BY <1>2, <2>4, <2>6 DEF HistoryInOrder
<1>6. SentNumbered'
  BY <1>2, <1>4 DEF SentNumbered
<1>7. OneNumberEach'
  BY <1>2, <1>3 DEF OneNumberEach
<1>8. OwedOnce'
  <2> SUFFICES ASSUME NEW q \in Publishers, NEW c \in pending'[q]
               PROVE  event'[q].id \notin Ids(Stream(c)')
    BY DEF OwedOnce, Ids
  <2>1. c \in Clients /\ Stream(c)' = Stream(c)
    BY <1>2
  <2>2. CASE q = p
    BY <1>2, <1>4, <2>1, <2>2 DEF Ids
  <2>3. CASE q # p
    BY <1>2, <2>1, <2>3 DEF OwedOnce
  <2> QED
    BY <2>2, <2>3
<1>9. DeliveredOnce'
  BY DEF DeliveredOnce
<1> QED
  BY <1>5, <1>6, <1>7, <1>8, <1>9

LEMMA DeliverOnce ==
    ASSUME OnceInv, NEW p \in Publishers, NEW c \in Clients, Deliver(p, c)
    PROVE  HistoryInOrder' /\ SentNumbered' /\ OneNumberEach' /\ OwedOnce' /\ DeliveredOnce'
<1> USE DEF OnceInv
<1>1. /\ \A d \in Clients : d # c => Stream(d)' = Stream(d)
      /\ Stream(c)' = Append(Stream(c), event[p]) \/ Stream(c)' = Stream(c)
      /\ event[p] \in Event
  BY StreamPut
<1>2. /\ seq' = seq /\ history' = history /\ event' = event
      /\ \A q \in Publishers : pending'[q] \subseteq pending[q]
      /\ c \in pending[p] /\ c \notin pending'[p]
      /\ pending \in [Publishers -> SUBSET Clients]
  BY DEF Deliver, TypeInv, TypeOK
<1>3. Stream(c) \in Seq(Event)
  BY StreamType
<1>4. /\ DOMAIN Append(Stream(c), event[p]) = 1..(Len(Stream(c)) + 1)
      /\ DOMAIN Stream(c) = 1..Len(Stream(c)) /\ Len(Stream(c)) \in Nat
      /\ \A i \in 1..Len(Stream(c)) : Append(Stream(c), event[p])[i] = Stream(c)[i]
      /\ Append(Stream(c), event[p])[Len(Stream(c)) + 1] = event[p]
  BY <1>1, <1>3
<1>5. Ids(Append(Stream(c), event[p])) \subseteq Ids(Stream(c)) \cup {event[p].id}
  BY <1>4 DEF Ids
<1>6. HistoryInOrder' /\ OneNumberEach'
  BY <1>2 DEF HistoryInOrder, OneNumberEach
<1>7. SentNumbered'
  <2>1. event[p].id <= seq
    BY DEF TypeInv, Numbered
  <2> QED
    BY <1>1, <1>2, <1>4, <2>1 DEF SentNumbered
<1>8. OwedOnce'
  <2> SUFFICES ASSUME NEW q \in Publishers, NEW d \in pending'[q]
               PROVE  event[q].id \notin Ids(Stream(d)')
    BY <1>2 DEF OwedOnce, Ids
  <2>1. d \in Clients /\ d \in pending[q] /\ event[q].id \notin Ids(Stream(d))
    BY <1>2 DEF OwedOnce
  <2>2. CASE d # c
    BY <1>1, <2>1, <2>2
  <2>3. CASE d = c
    <3>1. q # p /\ event[q] # NoEvent
      BY <1>2, <2>1, <2>3 DEF TypeInv, Numbered
    <3>2. event[q].id # event[p].id
      BY <3>1 DEF OneNumberEach
    <3>3. Stream(d)' = Stream(c)'
      BY <2>3 DEF Stream
    <3>4. event[q].id \notin Ids(Stream(c)) \cup {event[p].id}
      BY <2>1, <2>3, <3>2
    <3>5. Ids(Stream(c)') \subseteq Ids(Stream(c)) \cup {event[p].id}
      BY <1>1, <1>5
    <3> QED
      BY <3>3, <3>4, <3>5
  <2> QED
    BY <2>2, <2>3
<1>9. DeliveredOnce'
  <2> SUFFICES ASSUME NEW d \in Clients, NEW i \in DOMAIN Stream(d)', NEW j \in DOMAIN Stream(d)',
                      i < j
               PROVE  Stream(d)'[i].id # Stream(d)'[j].id
    BY DEF DeliveredOnce
  <2>1. CASE Stream(d)' = Stream(d)
    BY <2>1 DEF DeliveredOnce
  <2>2. CASE d = c /\ Stream(c)' = Append(Stream(c), event[p])
    <3>1. event[p].id \notin Ids(Stream(c))
      BY <1>2 DEF OwedOnce
    <3>2. i \in 1..Len(Stream(c)) /\ Stream(c)'[i] = Stream(c)[i]
      BY <1>4, <2>2
    <3>3. CASE j = Len(Stream(c)) + 1
      BY <1>4, <2>2, <3>1, <3>2, <3>3 DEF Ids
    <3>4. CASE j \in 1..Len(Stream(c))
      BY <1>4, <2>2, <3>2, <3>4 DEF DeliveredOnce
    <3> QED
      BY <1>4, <2>2, <3>3, <3>4
  <2> QED
    BY <1>1, <2>1, <2>2
<1> QED
  BY <1>6, <1>7, <1>8, <1>9

LEMMA ConnectOnce ==
    ASSUME OnceInv, NEW c \in Clients, NEW n \in 0..HistoryMax, Connect(c, n)
    PROVE  HistoryInOrder' /\ SentNumbered' /\ OneNumberEach' /\ OwedOnce' /\ DeliveredOnce'
<1> USE DEF OnceInv
<1>1. /\ \A d \in Clients : d # c => Stream(d)' = Stream(d)
      /\ Stream(c)' = Newest(history, n)
  BY StreamNew
<1>2. seq' = seq /\ history' = history /\ event' = event /\ pending' = pending
  BY DEF Connect, hub
<1>3. history \in Seq(Event) /\ n \in Nat /\ pending \in [Publishers -> SUBSET Clients]
  BY BoundsAssumption DEF TypeInv, TypeOK
<1>4. PICK k \in Nat : \A i \in DOMAIN Newest(history, n) :
          i \in Nat /\ i + k \in DOMAIN history /\ Newest(history, n)[i] = history[i + k]
  BY <1>3, NewestLast
<1>5. HistoryInOrder' /\ OneNumberEach'
  BY <1>2 DEF HistoryInOrder, OneNumberEach
<1>6. SentNumbered'
  BY <1>1, <1>2, <1>4 DEF SentNumbered, HistoryInOrder
<1>7. OwedOnce'
  <2> SUFFICES ASSUME NEW q \in Publishers, NEW d \in pending[q]
               PROVE  event[q].id \notin Ids(Stream(d)')
    BY <1>2 DEF OwedOnce, Ids
  <2>1. d \in Clients /\ d # c
    BY <1>3 DEF NothingAway, Connect
  <2> QED
    BY <1>1, <2>1 DEF OwedOnce
<1>8. DeliveredOnce'
  <2> SUFFICES ASSUME NEW d \in Clients, NEW i \in DOMAIN Stream(d)', NEW j \in DOMAIN Stream(d)',
                      i < j
               PROVE  Stream(d)'[i].id # Stream(d)'[j].id
    BY DEF DeliveredOnce
  <2>1. CASE d # c
    BY <1>1, <2>1 DEF DeliveredOnce
  <2>2. CASE d = c
    <3>1. /\ i \in Nat /\ j \in Nat /\ i + k \in DOMAIN history /\ j + k \in DOMAIN history
          /\ Stream(d)'[i] = history[i + k] /\ Stream(d)'[j] = history[j + k]
      BY <1>1, <1>4, <2>2
    <3>2. history[i + k].id < history[j + k].id
      BY <3>1 DEF HistoryInOrder
    <3>3. history[i + k].id \in Nat /\ history[j + k].id \in Nat
      BY <1>3, <3>1, EventId
    <3> QED
      BY <3>1, <3>2, <3>3
  <2> QED
    BY <2>1, <2>2
<1> QED
  BY <1>5, <1>6, <1>7, <1>8

LEMMA NextOnce == ASSUME OnceInv, [Next]_vars PROVE OnceInv'
<1> USE DEF OnceInv
<1>1. TypeInv' /\ NothingAway'
  BY NextType, NextAway
<1>2. ASSUME QuietStep, \A c \in Clients : Stream(c)' = Stream(c)
      PROVE  HistoryInOrder' /\ SentNumbered' /\ OneNumberEach' /\ OwedOnce' /\ DeliveredOnce'
  <2>1. seq' = seq /\ history' = history /\ event' = event /\ pending' = pending
    BY <1>2 DEF QuietStep, hub
  <2>2. pending \in [Publishers -> SUBSET Clients]
    BY DEF TypeInv, TypeOK
  <2>3. HistoryInOrder' /\ OneNumberEach'
    BY <2>1 DEF HistoryInOrder, OneNumberEach
  <2>4. SentNumbered' /\ DeliveredOnce'
    BY <1>2, <2>1 DEF SentNumbered, DeliveredOnce
  <2>5. OwedOnce'
    BY <1>2, <2>1, <2>2 DEF OwedOnce, Ids
  <2> QED
    BY <2>3, <2>4, <2>5
<1>3. ASSUME NEW c \in Clients, Register(c)
      PROVE  HistoryInOrder' /\ SentNumbered' /\ OneNumberEach' /\ OwedOnce' /\ DeliveredOnce'
  <2>1. /\ seq' = seq /\ history' = history /\ event' = event /\ pending' = pending
        /\ \A d \in Clients : Stream(d)' = Stream(d)
    BY <1>3, StreamSame DEF Register, hub
  <2>2. pending \in [Publishers -> SUBSET Clients]
    BY DEF TypeInv, TypeOK
  <2> QED
    BY <2>1, <2>2 DEF HistoryInOrder, OneNumberEach, SentNumbered, DeliveredOnce, OwedOnce, Ids
<1>4. ASSUME NEW c \in Clients, SendReplay(c) \/ Serve(c)
      PROVE  HistoryInOrder' /\ SentNumbered' /\ OneNumberEach' /\ OwedOnce' /\ DeliveredOnce'
  <2>1. UNCHANGED hub /\ table' = table
    BY <1>4 DEF SendReplay, Serve, hub
  <2>2. \A d \in Clients : Stream(d)' = Stream(d)
    BY <1>4, StreamServed
  <2> QED
    BY <1>2, <2>1, <2>2 DEF QuietStep
<1> QED
  BY <1>1, <1>2, <1>3, <1>4, StepKinds, PublishOnce, DeliverOnce, ConnectOnce

\* No event reaches a subscriber twice, once in the replay and once live, or
\* from two threads: the replay ends before the numbers given out later, and
\* every number is put into a queue once.
THEOREM EventsOnce == Spec => []DeliveredOnce
<1>1. OnceInv => DeliveredOnce
  BY DEF OnceInv
<1> QED
  BY <1>1, InitOnce, NextOnce, PTL DEF Spec
-----------------------------------------------------------------------------
\* The order of a stream.

OrderInv ==
    /\ WatchInv /\ NothingAway /\ AllTold /\ RunsInPhase /\ OwedInOrder
    /\ InOrder(history) /\ \A c \in Clients : InOrder(Stream(c))

\* How a thread comes to publish an event.
Sends(p, kind, of) ==
    /\ Free(p) /\ Publish(p, kind, of)
    /\ kind = "output" => p \in Readers /\ p[1] = of /\ reader[p] = "reading"
    /\ kind # "output" => p = Loop
    /\ kind = "start" => of \in todo
    /\ kind = "finish" => loop = <<"finish", of>> /\ of \in Runs /\ loop' = Idle

\* Numbers and late readers only become more, runs to come fewer, and the loop comes
\* to a run from one that is to come.
Onward ==
    /\ seq \in Nat /\ seq' \in Nat /\ seq <= seq'
    /\ todo' \subseteq todo /\ late \subseteq late'
    /\ \A r : AtRun(loop', r) => AtRun(loop, r) \/ r \in todo

LEMMA StepOrder ==
    ASSUME TypeInv, [Next]_vars
    PROVE  \/ \E p \in Publishers, c \in Clients : Deliver(p, c)
           \/ \E c \in Clients, n \in 0..HistoryMax : Connect(c, n)
           \/ UNCHANGED hub /\ \A c \in Clients : Stream(c)' = Stream(c)
           \/ /\ \A c \in Clients : Stream(c)' = Stream(c)
              /\ \E p \in Publishers, kind \in Kinds, of \in Clients \cup Runs : Sends(p, kind, of)
<1> DEFINE Same == \A c \in Clients : Stream(c)' = Stream(c)
           Quiet == UNCHANGED hub /\ Same
           Sending == Same /\ \E p \in Publishers, kind \in Kinds, of \in Clients \cup Runs :
                                 Sends(p, kind, of)
<1>0. Loop \in Publishers /\ Readers \subseteq Publishers
  BY DEF Publishers
<1>1. CASE UNCHANGED vars
  <2>1. Same
    BY <1>1, StreamSame
  <2> QED
    BY <1>1, <2>1 DEF vars, hub
<1>2. ASSUME NEW c \in Clients, SendReplay(c) \/ Serve(c) PROVE Quiet
  <2>1. Same
    BY <1>2, StreamServed
  <2> QED
    BY <1>2, <2>1 DEF SendReplay, Serve
<1>3. ASSUME NEW c \in Clients, Register(c) \/ Leave(c) \/ Abandon(c) PROVE Quiet
  <2>1. Same
    BY <1>3, StreamSame
  <2> QED
    BY <1>3, <2>1 DEF Register, Leave, Abandon
<1>4. ASSUME NEW c \in Clients, Announce(c) \/ Goodbye(c) PROVE Sending
  <2>1. Same
    BY <1>4, StreamSame
  <2>2. Sends(Loop, "connected", c) \/ Sends(Loop, "disconnected", c)
    BY <1>4 DEF Announce, Goodbye, Sends, LoopAt
  <2> QED
    BY <1>0, <2>1, <2>2 DEF Kinds
<1>5. ASSUME NEW r \in Runs, Spawn(r) \/ SpawnRaises(r) \/ Waited(r) \/ Join(r) PROVE Quiet
  <2>1. Same
    BY <1>5, StreamSame
  <2> QED
    BY <1>5, <2>1 DEF Spawn, SpawnRaises, Waited, Join
<1>6. ASSUME NEW r \in Runs, RunStart(r) \/ SpawnMissing(r) \/ Finish(r) PROVE Sending
  <2>1. Same
    BY <1>6, StreamSame
  <2>2. CASE RunStart(r) \/ SpawnMissing(r)
    <3>1. Sends(Loop, "start", r) \/ Sends(Loop, "error", r)
      BY <2>2 DEF RunStart, SpawnMissing, Sends, LoopAt
    <3> QED
      BY <1>0, <2>1, <3>1 DEF Kinds
  <2>3. CASE Finish(r)
    <3>1. loop = <<"finish", r>>
      BY <2>3 DEF Finish, LoopAt, TypeInv, TypeOK, Idle
    <3>2. Sends(Loop, "finish", r)
      BY <2>3, <3>1 DEF Finish, Sends, LoopAt
    <3> QED
      BY <1>0, <2>1, <3>2 DEF Kinds
  <2> QED
    BY <1>6, <2>2, <2>3
<1>7. ASSUME NEW x \in Readers, EndOfFile(x) PROVE Quiet
  <2>1. Same
    BY <1>7, StreamSame
  <2> QED
    BY <1>7, <2>1 DEF EndOfFile
<1>8. ASSUME NEW x \in Readers, Output(x) PROVE Sending
  <2>1. Same
    BY <1>8, StreamSame
  <2>2. Sends(x, "output", x[1]) /\ x[1] \in Runs
    BY <1>8, ReaderPair DEF Output, Sends
  <2> QED
    BY <1>0, <2>1, <2>2 DEF Kinds
<1> QED
  BY <1>1, <1>2, <1>3, <1>4, <1>5, <1>6, <1>7, <1>8, NextCases

LEMMA Goes == ASSUME TypeInv, [Next]_vars PROVE Onward
<1> DEFINE Ahead == /\ todo' \subseteq todo /\ late \subseteq late'
                    /\ \A r : AtRun(loop', r) => AtRun(loop, r) \/ r \in todo
<1>1. seq \in Nat /\ (seq' = seq \/ seq' = seq + 1)
  <2>1. ASSUME NEW p \in Publishers, PublishStep(p) PROVE seq' = seq + 1
    BY <2>1, PublishType DEF PublishStep
  <2>2. seq' = seq \/ seq' = seq + 1
    BY <2>1, StepKinds DEF Deliver, Connect, Register, SendReplay, Serve, QuietStep, hub
  <2> QED
    BY <2>2 DEF TypeInv, TypeOK
<1>2. ASSUME UNCHANGED vars PROVE Ahead
  BY <1>2 DEF vars
<1>3. ASSUME NEW p \in Publishers, NEW c \in Clients, Deliver(p, c) PROVE Ahead
  BY <1>3 DEF Deliver, run
<1>4. ASSUME NEW c \in Clients,
             \/ \E n \in 0..HistoryMax : Connect(c, n)
             \/ Register(c) \/ Announce(c) \/ SendReplay(c) \/ Serve(c)
             \/ Leave(c) \/ Goodbye(c) \/ Abandon(c)
      PROVE  Ahead
  <2>1. UNCHANGED run
    BY <1>4 DEF Connect, Register, Announce, SendReplay, Serve, Leave, Goodbye, Abandon
  <2>2. loop' = loop \/ loop'[1] \in {"register", "announce", "goodbye", "idle"}
    BY <1>4 DEF Connect, Register, Announce, SendReplay, Serve, Leave, Goodbye, Abandon, Idle
  <2> QED
    BY <2>1, <2>2 DEF run, AtRun
<1>5. ASSUME NEW r \in Runs, RunStart(r) PROVE Ahead
  BY <1>5 DEF RunStart, AtRun
<1>6. ASSUME NEW r \in Runs, \/ Spawn(r) \/ SpawnMissing(r) \/ SpawnRaises(r)
                             \/ Waited(r) \/ Join(r) \/ Finish(r)
      PROVE  Ahead
  <2>1. todo' = todo /\ late \subseteq late'
    BY <1>6 DEF Spawn, SpawnMissing, SpawnRaises, Waited, Join, Finish, run
  <2>2. AtRun(loop, r)
    BY <1>6 DEF Spawn, SpawnMissing, SpawnRaises, Waited, Join, Finish, LoopAt, AtRun
  <2>3. loop'[2] = r \/ loop' = Idle
    BY <1>6 DEF Spawn, SpawnMissing, SpawnRaises, Waited, Join, Finish
  <2>4. \A q : AtRun(loop', q) => q = r
    BY <2>3 DEF AtRun, Idle
  <2> QED
    BY <2>1, <2>2, <2>4
<1>7. ASSUME NEW x \in Readers, Output(x) \/ EndOfFile(x) PROVE Ahead
  BY <1>7 DEF Output, EndOfFile
<1>8. Ahead
  BY <1>2, <1>3, <1>4, <1>5, <1>6, <1>7, NextCases
<1> QED
  BY <1>1, <1>8 DEF Onward

\* The phases of a run.
LEMMA NextPhases == ASSUME WatchInv, RunsInPhase, [Next]_vars PROVE RunsInPhase'
<1> DEFINE Begun == \A r \in Runs : AtRun(loop, r) => r \notin todo
           Reads == \A x \in Readers : reader[x] = "reading" => x[1] \notin todo /\ loop # <<"spawn", x[1]>>
           Owes == \A x \in Readers : pending[x] # {} => reader[x] = "reading"
           Starts == pending[Loop] # {} /\ event[Loop].kind = "start" => loop = <<"spawn", event[Loop].of>>
<1>a. Begun /\ Reads /\ Owes /\ Starts
  BY DEF RunsInPhase
<1>b. SUFFICES Begun' /\ Reads' /\ Owes' /\ Starts'
  BY DEF RunsInPhase
<1>t. TypeInv
  BY DEF WatchInv
<1>0. Loop \notin Readers /\ Loop \in Publishers /\ Readers \subseteq Publishers
  BY LoopAssumption DEF Publishers
<1>1. CASE UNCHANGED vars
  BY <1>a, <1>1 DEF vars
<1>2. ASSUME NEW p \in Publishers, NEW c \in Clients, Deliver(p, c)
      PROVE  Begun' /\ Reads' /\ Owes' /\ Starts'
  <2>1. \A q \in Publishers : pending'[q] \subseteq pending[q]
    BY <1>2, <1>t DEF Deliver, TypeInv, TypeOK
  <2>2. UNCHANGED <<event, loop, reader, todo>>
    BY <1>2 DEF Deliver, run
  <2> QED
    BY <1>a, <1>0, <2>1, <2>2
<1>3. ASSUME NEW c \in Clients,
             \/ \E n \in 0..HistoryMax : Connect(c, n)
             \/ Register(c) \/ SendReplay(c) \/ Serve(c) \/ Leave(c) \/ Abandon(c)
      PROVE  Begun' /\ Reads' /\ Owes' /\ Starts'
  <2>1. UNCHANGED <<event, pending, reader, todo>>
    BY <1>3 DEF Connect, Register, SendReplay, Serve, Leave, Abandon, hub, run
  <2>2. /\ loop[1] # "spawn" \/ loop' = loop
        /\ loop' = loop \/ loop'[1] \in {"register", "announce", "goodbye"}
        /\ pending[Loop] = {}
    BY <1>3 DEF Connect, Register, SendReplay, Serve, Leave, Abandon, LoopAt, Free
  <2> QED
    BY <1>a, <2>1, <2>2 DEF AtRun
<1>4. ASSUME NEW kind \in Kinds, NEW of \in Clients \cup Runs, Publish(Loop, kind, of),
             reader' = reader
      PROVE  /\ event'[Loop].kind = kind /\ event'[Loop].of = of
             /\ \A x \in Readers : pending'[x] = pending[x]
  <2>1. \A x \in Readers : pending'[x] = pending[x]
    BY <1>t, <1>0, <1>4, PublishType
  <2>2. event'[Loop] = [id |-> seq + 1, by |-> Loop, kind |-> kind, of |-> of]
    BY <1>t, <1>0, <1>4 DEF Publish, TypeInv, TypeOK
  <2> QED
    BY <2>1, <2>2
<1>5. ASSUME NEW c \in Clients, Announce(c) \/ Goodbye(c)
      PROVE  Begun' /\ Reads' /\ Owes' /\ Starts'
  <2>1. loop' = Idle /\ UNCHANGED <<reader, todo>>
    BY <1>5 DEF Announce, Goodbye, run
  <2>2. Publish(Loop, "connected", c) \/ Publish(Loop, "disconnected", c)
    BY <1>5 DEF Announce, Goodbye
  <2>3. event'[Loop].kind # "start" /\ \A x \in Readers : pending'[x] = pending[x]
    BY <1>4, <2>1, <2>2 DEF Kinds
  <2> QED
    BY <1>a, <2>1, <2>3 DEF AtRun, Idle
<1>6. ASSUME NEW r \in Runs, RunStart(r)
      PROVE  Begun' /\ Reads' /\ Owes' /\ Starts'
  <2>1. /\ loop' = <<"spawn", r>> /\ reader' = reader /\ r \in todo /\ todo' = todo \ {r}
        /\ Publish(Loop, "start", r)
    BY <1>6 DEF RunStart
  <2>2. event'[Loop].of = r /\ \A x \in Readers : pending'[x] = pending[x]
    BY <1>4, <2>1 DEF Kinds
  <2>3. Begun'
    BY <2>1 DEF AtRun
  <2>4. Reads'
    BY <1>a, <2>1
  <2> QED
    BY <1>a, <2>1, <2>2, <2>3, <2>4
<1>7. ASSUME NEW r \in Runs, Spawn(r) \/ SpawnRaises(r) \/ Waited(r) \/ Join(r)
      PROVE  Begun' /\ Reads' /\ Owes' /\ Starts'
  <2>0. LoopAt("spawn") \/ LoopAt("wait") \/ LoopAt("stdout") \/ LoopAt("stderr")
    BY <1>7 DEF Spawn, SpawnRaises, Waited, Join
  <2>1. UNCHANGED <<event, pending, todo>> /\ pending[Loop] = {}
    BY <1>7, <2>0 DEF Spawn, SpawnRaises, Waited, Join, hub, run, LoopAt, Free
  <2>2. loop' = Idle \/ (loop'[1] \in {"wait", "stdout", "stderr", "finish"} /\ loop'[2] = r)
    BY <1>7 DEF Spawn, SpawnRaises, Waited, Join
  <2>3. r \notin todo
    BY <1>a, <1>7 DEF Spawn, SpawnRaises, Waited, Join, LoopAt, AtRun
  <2>4. \A x \in Readers : /\ reader'[x] = "reading" => reader[x] = "reading" \/ x[1] = r
                           /\ reader[x] = "reading" => reader'[x] = "reading"
    BY <1>7 DEF Spawn, SpawnRaises, Waited, Join, run
  <2>5. Begun'
    BY <2>1, <2>2, <2>3 DEF AtRun, Idle
  <2>6. \A x \in Readers : loop' # <<"spawn", x[1]>>
    BY <2>2 DEF Idle
  <2>7. Reads'
    BY <1>a, <2>1, <2>3, <2>4, <2>6
  <2> QED
    BY <1>a, <2>1, <2>4, <2>5, <2>7
<1>8. ASSUME NEW r \in Runs, SpawnMissing(r) \/ Finish(r)
      PROVE  Begun' /\ Reads' /\ Owes' /\ Starts'
  <2>1. loop' = Idle /\ UNCHANGED <<reader, todo>>
    BY <1>8 DEF SpawnMissing, Finish, run
  <2>2. Publish(Loop, "error", r) \/ Publish(Loop, "finish", r)
    BY <1>8 DEF SpawnMissing, Finish
  <2>3. event'[Loop].kind # "start" /\ \A x \in Readers : pending'[x] = pending[x]
    BY <1>4, <2>1, <2>2 DEF Kinds
  <2> QED
    BY <1>a, <2>1, <2>3 DEF AtRun, Idle
<1>9. ASSUME NEW x \in Readers, Output(x)
      PROVE  Begun' /\ Reads' /\ Owes' /\ Starts'
  <2>1. UNCHANGED <<loop, reader, todo>> /\ reader[x] = "reading" /\ Publish(x, "output", x[1])
    BY <1>9 DEF Output
  <2>2. \A q \in Publishers : q # x => event'[q] = event[q] /\ pending'[q] = pending[q]
    BY <1>t, <1>0, <2>1, PublishType, ReaderPair DEF Kinds
  <2>3. x # Loop
    BY <1>0
  <2> QED
    BY <1>a, <1>0, <2>1, <2>2, <2>3
<1>10. ASSUME NEW x \in Readers, EndOfFile(x)
       PROVE  Begun' /\ Reads' /\ Owes' /\ Starts'
  <2>1. UNCHANGED <<event, pending, loop, todo>> /\ pending[x] = {}
    BY <1>10 DEF EndOfFile, hub, Free
  <2>2. \A y \in Readers : /\ reader'[y] = "reading" => reader[y] = "reading"
                           /\ y # x => reader'[y] = reader[y]
    BY <1>t, <1>10 DEF EndOfFile, TypeInv, TypeOK
  <2> QED
    BY <1>a, <2>1, <2>2
<1> QED
  BY <1>1, <1>2, <1>3, <1>5, <1>6, <1>7, <1>8, <1>9, <1>10, NextCases

-----------------------------------------------------------------------------
\* What is told of an event stays true, and a right order stays right.

LEMMA StaysTold ==
    ASSUME NEW e, Onward, e.id \in Nat, Told(e, seq, todo, loop)
    PROVE  Told(e, seq', todo', loop')
<1> USE DEF Told, Onward
<1>1. e.id <= seq'
  OBVIOUS
<1>2. e.kind = "output" => e.by \in Readers /\ e.by[1] = e.of /\ e.of \notin todo'
  OBVIOUS
<1>3. e.kind = "finish" => e.of \notin todo' /\ ~AtRun(loop', e.of)
  OBVIOUS
<1> QED
  BY <1>1, <1>2, <1>3

LEMMA StaysRight ==
    ASSUME NEW e, NEW f, Onward, MayFollow(e, f, late)
    PROVE  MayFollow(e, f, late')
  BY DEF MayFollow, Onward

\* The event that a thread publishes is told of, may follow all that were published
\* before it, and what another thread still owes may come before or after it.
LEMMA NewTold ==
    ASSUME OrderInv, Onward, NEW p \in Publishers, NEW kind \in Kinds,
           NEW of \in Clients \cup Runs, Sends(p, kind, of)
    PROVE  /\ event'[p] = [id |-> seq + 1, by |-> p, kind |-> kind, of |-> of]
           /\ Told(event'[p], seq', todo', loop')
<1>1. event'[p] = [id |-> seq + 1, by |-> p, kind |-> kind, of |-> of] /\ seq' = seq + 1
  BY DEF Sends, Publish, OrderInv, WatchInv, TypeInv, TypeOK
<1>2. event'[p].by = p /\ event'[p].kind = kind /\ event'[p].of = of /\ event'[p].id = seq + 1
  BY <1>1
<1>3. event'[p].id <= seq'
  BY <1>1, <1>2 DEF Onward
<1>4. kind = "output" => p \in Readers /\ p[1] = of /\ of \notin todo'
  BY DEF Sends, OrderInv, RunsInPhase, Onward
<1>5. kind = "start" => p = Loop
  BY DEF Sends
<1>6. kind = "finish" => of \notin todo' /\ ~AtRun(loop', of)
  BY DEF Sends, OrderInv, RunsInPhase, Onward, AtRun, Idle
<1>7. Told(event'[p], seq', todo', loop')
  BY <1>2, <1>3, <1>4, <1>5, <1>6 DEF Told
<1> QED
  BY <1>1, <1>7

LEMMA NewFollows ==
    ASSUME OrderInv, Onward, NEW p \in Publishers, NEW kind \in Kinds,
           NEW of \in Clients \cup Runs, Sends(p, kind, of),
           NEW f, f.id \in Nat, Told(f, seq, todo, loop)
    PROVE  MayFollow(f, event'[p], late')
<1> DEFINE e == event'[p]
<1>0. event'[p] = [id |-> seq + 1, by |-> p, kind |-> kind, of |-> of]
  BY NewTold
<1>1. e.by = p /\ e.kind = kind /\ e.of = of /\ e.id = seq + 1
  BY <1>0
<1> HIDE DEF e
<1>2. f.id < e.id
  BY <1>1 DEF Told, Onward
<1>3. ~(f.kind = "output" /\ e.kind = "start" /\ f.of = e.of)
  BY <1>1 DEF Told, Sends
<1>4. ASSUME f.kind = "finish", e.kind = "output", f.of = e.of PROVE e.by \in late'
  <2>1. p \in Readers /\ p[1] = of /\ reader[p] = "reading" /\ ~AtRun(loop, of)
    BY <1>1, <1>4 DEF Told, Sends
  <2>2. p \in late
    BY <2>1, ReaderPair DEF OrderInv, WatchInv, ReadersWatched, AtRun, Streams
  <2> QED
    BY <1>1, <2>2 DEF Onward
<1>5. MayFollow(f, e, late')
  BY <1>2, <1>3, <1>4 DEF MayFollow
<1> QED
  BY <1>5 DEF e

LEMMA OwedFollows ==
    ASSUME OrderInv, Onward, NEW p \in Publishers, NEW kind \in Kinds,
           NEW of \in Clients \cup Runs, Sends(p, kind, of),
           NEW q \in Publishers, q # p, pending[q] # {}
    PROVE  MayFollow(event'[p], event[q], late')
<1> DEFINE e == event'[p]
           f == event[q]
<1>0. event'[p] = [id |-> seq + 1, by |-> p, kind |-> kind, of |-> of]
  BY NewTold
<1>1. e.by = p /\ e.kind = kind /\ e.of = of
  BY <1>0
<1>2. f.by = q /\ Told(f, seq, todo, loop)
  BY DEF OrderInv, WatchInv, TypeInv, Numbered, AllTold
<1>3. e.kind = "output" /\ f.kind = "start" => e.of # f.of
  <2> SUFFICES ASSUME e.kind = "output", f.kind = "start", e.of = f.of PROVE FALSE
    OBVIOUS
  <2>1. q = Loop /\ p \in Readers /\ p[1] = of /\ reader[p] = "reading"
    BY <1>1, <1>2 DEF Told, Sends
  <2>2. loop = <<"spawn", of>>
    BY <1>1, <2>1 DEF OrderInv, RunsInPhase
  <2> QED
    BY <2>1, <2>2 DEF OrderInv, RunsInPhase
<1>4. ASSUME e.kind = "finish", f.kind = "output", e.of = f.of PROVE f.by \in late'
  <2>1. q \in Readers /\ q[1] = of /\ loop[1] = "finish"
    BY <1>1, <1>2, <1>4 DEF Told, Sends
  <2>2. reader[q] = "reading"
    BY <2>1 DEF OrderInv, RunsInPhase
  <2>3. q \in late
    BY <2>1, <2>2, OnlyLate DEF OrderInv
  <2> QED
    BY <1>2, <2>3 DEF Onward
<1> HIDE DEF e, f
<1>5. MayFollow(e, f, late')
  BY <1>1, <1>2, <1>3, <1>4 DEF MayFollow
<1> QED
  BY <1>5 DEF e, f

-----------------------------------------------------------------------------
\* The steps.

\* Where an event is kept, it has a number.
LEMMA KeptNumbers ==
    ASSUME TypeInv
    PROVE  /\ history \in Seq(Event) /\ \A i \in DOMAIN history : history[i].id \in Nat
           /\ \A c \in Clients : \A i \in DOMAIN Stream(c) : Stream(c)[i].id \in Nat
           /\ \A p \in Publishers : event[p].id \in Nat
<1>1. history \in Seq(Event) /\ \A c \in Clients : Stream(c) \in Seq(Event)
  BY StreamType DEF TypeInv, TypeOK
<1>2. \A p \in Publishers : event[p] \in Event \cup {NoEvent}
  BY DEF TypeInv, TypeOK
<1>3. \A p \in Publishers : event[p].id \in Nat
  BY <1>2 DEF Event, NoEvent
<1> QED
  BY <1>1, <1>3, EventId

OrderKept ==
    /\ AllTold /\ OwedInOrder /\ InOrder(history)
    /\ \A c \in Clients : InOrder(Stream(c))

LEMMA InitOrder == Init => OrderInv
<1> SUFFICES ASSUME Init PROVE OrderInv
  OBVIOUS
<1>1. NothingAway
  BY DEF Init, NothingAway, Idle
<1>2. \A c \in Clients : Stream(c) = <<>>
  BY DEF Init, Stream
<1>3. AllTold
  BY <1>2 DEF Init, AllTold
<1>4. RunsInPhase
  BY DEF Init, RunsInPhase, AtRun, Idle, Publishers
<1>5. OwedInOrder
  BY DEF Init, OwedInOrder
<1>6. InOrder(history) /\ \A c \in Clients : InOrder(Stream(c))
  BY <1>2 DEF Init, InOrder
<1> QED
  BY <1>1, <1>3, <1>4, <1>5, <1>6, InitWatch DEF OrderInv

LEMMA QuietOrder ==
    ASSUME OrderInv, Onward, UNCHANGED hub, \A c \in Clients : Stream(c)' = Stream(c)
    PROVE  OrderKept'
<1>0. /\ history' = history /\ event' = event /\ pending' = pending
      /\ TypeInv /\ AllTold /\ OwedInOrder /\ InOrder(history)
      /\ \A c \in Clients : InOrder(Stream(c))
      /\ pending \in [Publishers -> SUBSET Clients]
  BY DEF hub, OrderInv, WatchInv, TypeInv, TypeOK
<1>1. AllTold'
  BY <1>0, KeptNumbers, StaysTold DEF AllTold
<1>2. OwedInOrder'
  BY <1>0, StaysRight DEF OwedInOrder
<1>3. InOrder(history)' /\ \A c \in Clients : InOrder(Stream(c))'
  BY <1>0, StaysRight DEF InOrder
<1> QED
  BY <1>1, <1>2, <1>3 DEF OrderKept

LEMMA SendOrder ==
    ASSUME OrderInv, Onward, NEW p \in Publishers, NEW kind \in Kinds,
           NEW of \in Clients \cup Runs, Sends(p, kind, of),
           \A c \in Clients : Stream(c)' = Stream(c)
    PROVE  OrderKept'
<1>0. /\ TypeInv /\ AllTold /\ OwedInOrder /\ InOrder(history)
      /\ \A c \in Clients : InOrder(Stream(c))
  BY DEF OrderInv, WatchInv
<1>1. /\ history \in Seq(Event) /\ \A i \in DOMAIN history : history[i].id \in Nat
      /\ \A c \in Clients : \A i \in DOMAIN Stream(c) : Stream(c)[i].id \in Nat
      /\ \A q \in Publishers : event[q].id \in Nat
  BY <1>0, KeptNumbers
<1> DEFINE e == [id |-> seq + 1, by |-> p, kind |-> kind, of |-> of]
           h == Append(history, e)
<1>2. /\ event'[p] = e /\ e.by = p /\ Told(e, seq', todo', loop')
  BY NewTold
<1>3. /\ \A q \in Publishers : q # p => event'[q] = event[q] /\ pending'[q] = pending[q]
      /\ pending \in [Publishers -> SUBSET Clients] /\ pending' \in [Publishers -> SUBSET Clients]
  BY <1>0, PublishType DEF Sends, TypeInv, TypeOK
<1>4. history' = Newest(h, HistoryMax) /\ pending[p] = {}
  BY DEF Sends, Publish, Free
<1>5. /\ h \in Seq(Event) /\ DOMAIN h = 1..(Len(history) + 1) /\ Len(history) \in Nat
      /\ DOMAIN history = 1..Len(history)
      /\ \A i \in 1..Len(history) : h[i] = history[i]
      /\ h[Len(history) + 1] = e
  <2>1. e \in Event
    BY <1>0 DEF Event, TypeInv, TypeOK
  <2> QED
    BY <1>1, <2>1
<1> HIDE DEF e, h
<1>6. ASSUME NEW f, f.id \in Nat, Told(f, seq, todo, loop) PROVE MayFollow(f, e, late')
  BY <1>2, <1>6, NewFollows
<1>7. PICK k \in Nat : \A i \in DOMAIN history' :
                           i \in Nat /\ i + k \in DOMAIN h /\ history'[i] = h[i + k]
  <2>1. \E k \in Nat : \A i \in DOMAIN Newest(h, HistoryMax) :
            i \in Nat /\ i + k \in DOMAIN h /\ Newest(h, HistoryMax)[i] = h[i + k]
    BY <1>5, NewestLast, BoundsAssumption
  <2> QED
    BY <1>4, <2>1
<1>8. AllTold'
  <2>1. \A i \in DOMAIN h : Told(h[i], seq', todo', loop')
    BY <1>0, <1>1, <1>2, <1>5, StaysTold DEF AllTold
  <2>2. \A i \in DOMAIN history' : Told(history'[i], seq', todo', loop')
    BY <1>7, <2>1
  <2>3. \A c \in Clients : \A i \in DOMAIN Stream(c)' : Told(Stream(c)'[i], seq', todo', loop')
    BY <1>0, <1>1, StaysTold DEF AllTold
  <2>4. ASSUME NEW q \in Publishers, event'[q] # NoEvent
        PROVE  event'[q].by = q /\ Told(event'[q], seq', todo', loop')
    <3>1. CASE q = p
      BY <1>2, <3>1
    <3>2. CASE q # p
      BY <1>0, <1>1, <1>3, <2>4, <3>2, StaysTold DEF AllTold
    <3> QED
      BY <3>1, <3>2
  <2> QED
    BY <2>2, <2>3, <2>4 DEF AllTold
<1>9. OwedInOrder'
  <2>1. ASSUME NEW q \in Publishers, NEW c \in pending'[q], NEW i \in DOMAIN Stream(c)'
        PROVE  MayFollow(Stream(c)'[i], event'[q], late')
    <3>1. c \in Clients /\ Stream(c)' = Stream(c) /\ i \in DOMAIN Stream(c)
      BY <1>3, <2>1
    <3>2. Stream(c)[i].id \in Nat /\ Told(Stream(c)[i], seq, todo, loop)
      BY <1>0, <1>1, <3>1 DEF AllTold
    <3>3. CASE q = p
      BY <1>2, <1>6, <3>1, <3>2, <3>3
    <3>4. CASE q # p
      <4>1. MayFollow(Stream(c)[i], event[q], late)
        BY <1>0, <1>3, <2>1, <3>1, <3>4 DEF OwedInOrder
      <4> QED
        BY <1>3, <3>1, <3>4, <4>1, StaysRight
    <3> QED
      BY <3>3, <3>4
  <2>2. ASSUME NEW q \in Publishers, NEW r \in Publishers, q # r,
               pending'[q] # {}, pending'[r] # {}
        PROVE  MayFollow(event'[q], event'[r], late')
    <3>1. CASE q # p /\ r # p
      <4>1. MayFollow(event[q], event[r], late)
        BY <1>0, <1>3, <2>2, <3>1 DEF OwedInOrder
      <4> QED
        BY <1>3, <3>1, <4>1, StaysRight
    <3>2. CASE q = p
      BY <1>3, <2>2, <3>2, OwedFollows
    <3>3. CASE r = p
      <4>1. event'[q] = event[q] /\ pending[q] # {}
        BY <1>3, <2>2, <3>3
      <4>2. event[q].id \in Nat /\ Told(event[q], seq, todo, loop)
        BY <1>0, <1>1, <4>1 DEF AllTold, TypeInv, Numbered
      <4> QED
        BY <1>2, <1>6, <3>3, <4>1, <4>2
    <3> QED
      BY <3>1, <3>2, <3>3
  <2> QED
    BY <2>1, <2>2 DEF OwedInOrder
<1>10. InOrder(history)'
  <2>1. ASSUME NEW i \in DOMAIN h, NEW j \in DOMAIN h, i < j
        PROVE  MayFollow(h[i], h[j], late')
    <3>1. i \in 1..Len(history) /\ h[i] = history[i]
      BY <1>5, <2>1
    <3>2. CASE j \in 1..Len(history)
      <4>1. MayFollow(history[i], history[j], late)
        BY <1>0, <1>5, <2>1, <3>1, <3>2 DEF InOrder
      <4> QED
        BY <1>5, <3>1, <3>2, <4>1, StaysRight
    <3>3. CASE j = Len(history) + 1
      <4>1. history[i].id \in Nat /\ Told(history[i], seq, todo, loop)
        BY <1>0, <1>1, <1>5, <3>1 DEF AllTold
      <4> QED
        BY <1>5, <1>6, <3>1, <3>3, <4>1
    <3> QED
      BY <1>5, <2>1, <3>2, <3>3
  <2> SUFFICES ASSUME NEW i \in DOMAIN history', NEW j \in DOMAIN history', i < j
               PROVE  MayFollow(history'[i], history'[j], late')
    BY DEF InOrder
  <2>2. /\ i + k \in DOMAIN h /\ j + k \in DOMAIN h /\ i + k < j + k
        /\ history'[i] = h[i + k] /\ history'[j] = h[j + k]
    BY <1>7
  <2> QED
    BY <2>1, <2>2
<1>11. \A c \in Clients : InOrder(Stream(c))'
  BY <1>0, StaysRight DEF InOrder
<1> QED
  BY <1>8, <1>9, <1>10, <1>11 DEF OrderKept

LEMMA DeliverOrder ==
    ASSUME OrderInv, NEW p \in Publishers, NEW c \in Clients, Deliver(p, c)
    PROVE  OrderKept'
<1>0. /\ TypeInv /\ AllTold /\ OwedInOrder /\ InOrder(history)
      /\ \A d \in Clients : InOrder(Stream(d))
  BY DEF OrderInv, WatchInv
<1>1. UNCHANGED <<seq, history, event, loop, late, todo>>
  BY DEF Deliver, run
<1>2. /\ \A q \in Publishers : pending'[q] \subseteq pending[q]
      /\ c \in pending[p] /\ c \notin pending'[p]
      /\ pending \in [Publishers -> SUBSET Clients]
  BY <1>0 DEF Deliver, TypeInv, TypeOK
<1>3. /\ \A d \in Clients : d # c => Stream(d)' = Stream(d)
      /\ Stream(c)' = Append(Stream(c), event[p]) \/ Stream(c)' = Stream(c)
      /\ event[p] \in Event /\ Stream(c) \in Seq(Event)
  BY <1>0, StreamPut, StreamType
<1>4. /\ DOMAIN Append(Stream(c), event[p]) = 1..(Len(Stream(c)) + 1)
      /\ DOMAIN Stream(c) = 1..Len(Stream(c)) /\ Len(Stream(c)) \in Nat
      /\ \A i \in 1..Len(Stream(c)) : Append(Stream(c), event[p])[i] = Stream(c)[i]
      /\ Append(Stream(c), event[p])[Len(Stream(c)) + 1] = event[p]
  BY <1>3
<1>5. ASSUME NEW d \in Clients, NEW i \in DOMAIN Stream(d)'
      PROVE  \/ i \in DOMAIN Stream(d) /\ Stream(d)'[i] = Stream(d)[i]
             \/ d = c /\ i = Len(Stream(c)) + 1 /\ Stream(d)'[i] = event[p]
                /\ DOMAIN Stream(d) = 1..Len(Stream(c))
  <2>1. CASE Stream(d)' = Stream(d)
    BY <1>5, <2>1
  <2>2. CASE d = c /\ Stream(c)' = Append(Stream(c), event[p])
    <3>1. Stream(d)' = Append(Stream(c), event[p]) /\ Stream(d) = Stream(c)
      BY <2>2 DEF Stream
    <3>2. i \in 1..(Len(Stream(c)) + 1)
      BY <1>4, <1>5, <3>1
    <3>3. i \in 1..Len(Stream(c)) \/ i = Len(Stream(c)) + 1
      BY <1>4, <3>2
    <3> QED
      BY <1>4, <2>2, <3>1, <3>3
  <2> QED
    BY <1>3, <2>1, <2>2
<1>6. event[p] # NoEvent
  BY <1>0, <1>2 DEF TypeInv, Numbered
<1>7. AllTold'
  <2>1. ASSUME NEW d \in Clients, NEW i \in DOMAIN Stream(d)'
        PROVE  Told(Stream(d)'[i], seq, todo, loop)
    BY <1>0, <1>5, <1>6, <2>1 DEF AllTold
  <2> QED
    BY <1>0, <1>1, <2>1 DEF AllTold
<1>8. OwedInOrder'
  <2>1. ASSUME NEW q \in Publishers, NEW d \in pending'[q], NEW i \in DOMAIN Stream(d)'
        PROVE  MayFollow(Stream(d)'[i], event[q], late)
    <3>1. d \in Clients /\ d \in pending[q]
      BY <1>2
    <3>2. CASE i \in DOMAIN Stream(d) /\ Stream(d)'[i] = Stream(d)[i]
      BY <1>0, <3>1, <3>2 DEF OwedInOrder
    <3>3. CASE d = c /\ Stream(d)'[i] = event[p]
      <4>1. q # p /\ pending[q] # {} /\ pending[p] # {}
        BY <1>2, <3>1, <3>3
      <4> QED
        BY <1>0, <3>3, <4>1 DEF OwedInOrder
    <3> QED
      BY <1>5, <2>1, <3>1, <3>2, <3>3
  <2>2. ASSUME NEW q \in Publishers, NEW r \in Publishers, q # r,
               pending'[q] # {}, pending'[r] # {}
        PROVE  MayFollow(event[q], event[r], late)
    <3>1. pending[q] # {} /\ pending[r] # {}
      BY <1>2, <2>2
    <3> QED
      BY <1>0, <2>2, <3>1 DEF OwedInOrder
  <2> QED
    BY <1>1, <2>1, <2>2 DEF OwedInOrder
<1>9. InOrder(history)'
  BY <1>0, <1>1 DEF InOrder
<1>10. \A d \in Clients : InOrder(Stream(d))'
  <2> SUFFICES ASSUME NEW d \in Clients, NEW i \in DOMAIN Stream(d)', NEW j \in DOMAIN Stream(d)',
                      i < j
               PROVE  MayFollow(Stream(d)'[i], Stream(d)'[j], late)
    BY <1>1 DEF InOrder
  <2>1. CASE j \in DOMAIN Stream(d) /\ Stream(d)'[j] = Stream(d)[j]
    <3>1. i \in DOMAIN Stream(d) /\ Stream(d)'[i] = Stream(d)[i]
      BY <1>4, <1>5, <2>1
    <3> QED
      BY <1>0, <2>1, <3>1 DEF InOrder
  <2>2. CASE d = c /\ j = Len(Stream(c)) + 1 /\ Stream(d)'[j] = event[p]
    <3>1. i \in DOMAIN Stream(d) /\ Stream(d)'[i] = Stream(d)[i]
      BY <1>4, <1>5, <2>2
    <3> QED
      BY <1>0, <1>2, <2>2, <3>1 DEF OwedInOrder
  <2> QED
    BY <1>5, <2>1, <2>2
<1> QED
  BY <1>7, <1>8, <1>9, <1>10 DEF OrderKept

LEMMA ConnectOrder ==
    ASSUME OrderInv, Onward, NEW c \in Clients, NEW n \in 0..HistoryMax, Connect(c, n)
    PROVE  OrderKept'
<1>0. /\ TypeInv /\ AllTold /\ OwedInOrder /\ InOrder(history) /\ NothingAway
      /\ \A d \in Clients : InOrder(Stream(d))
      /\ \A i \in DOMAIN history : history[i].id \in Nat
      /\ \A d \in Clients : \A i \in DOMAIN Stream(d) : Stream(d)[i].id \in Nat
      /\ \A p \in Publishers : event[p].id \in Nat
  BY KeptNumbers DEF OrderInv, WatchInv
<1>1. /\ \A d \in Clients : d # c => Stream(d)' = Stream(d)
      /\ Stream(c)' = Newest(history, n)
  BY <1>0, StreamNew
<1>2. history' = history /\ event' = event /\ pending' = pending /\ late' = late
  BY DEF Connect, hub, run
<1>3. history \in Seq(Event) /\ n \in Nat /\ pending \in [Publishers -> SUBSET Clients]
  BY <1>0, BoundsAssumption DEF TypeInv, TypeOK
<1>4. PICK k \in Nat : \A i \in DOMAIN Newest(history, n) :
          i \in Nat /\ i + k \in DOMAIN history /\ Newest(history, n)[i] = history[i + k]
  BY <1>3, NewestLast
<1>5. \A i \in DOMAIN history : Told(history[i], seq', todo', loop')
  BY <1>0, StaysTold DEF AllTold
<1>6. AllTold'
  <2>1. ASSUME NEW d \in Clients, NEW i \in DOMAIN Stream(d)'
        PROVE  Told(Stream(d)'[i], seq', todo', loop')
    <3>1. CASE d = c
      <4>1. Stream(d)' = Newest(history, n)
        BY <1>1, <3>1 DEF Stream
      <4> QED
        BY <1>4, <1>5, <2>1, <4>1
    <3>2. CASE d # c
      BY <1>0, <1>1, <2>1, <3>2, StaysTold DEF AllTold
    <3> QED
      BY <3>1, <3>2
  <2> QED
    BY <1>0, <1>2, <1>5, <2>1, StaysTold DEF AllTold
<1>7. OwedInOrder'
  <2>1. \A q \in Publishers : \A d \in pending[q] : d \in Clients /\ d # c
    BY <1>0, <1>3 DEF NothingAway, Connect
  <2> QED
    BY <1>0, <1>1, <1>2, <2>1 DEF OwedInOrder
<1>8. InOrder(history)'
  BY <1>0, <1>2 DEF InOrder
<1>9. \A d \in Clients : InOrder(Stream(d))'
  <2> SUFFICES ASSUME NEW d \in Clients, NEW i \in DOMAIN Stream(d)', NEW j \in DOMAIN Stream(d)',
                      i < j
               PROVE  MayFollow(Stream(d)'[i], Stream(d)'[j], late)
    BY <1>2 DEF InOrder
  <2>1. CASE d # c
    BY <1>0, <1>1, <2>1 DEF InOrder
  <2>2. CASE d = c
    <3>1. Stream(d)' = Newest(history, n)
      BY <1>1, <2>2 DEF Stream
    <3>2. /\ i + k \in DOMAIN history /\ j + k \in DOMAIN history /\ i + k < j + k
          /\ Stream(d)'[i] = history[i + k] /\ Stream(d)'[j] = history[j + k]
      BY <1>4, <3>1
    <3> QED
      BY <1>0, <3>2 DEF InOrder
  <2> QED
    BY <2>1, <2>2
<1> QED
  BY <1>6, <1>7, <1>8, <1>9 DEF OrderKept

LEMMA NextOrder == ASSUME OrderInv, [Next]_vars PROVE OrderInv'
<1>1. WatchInv' /\ NothingAway' /\ RunsInPhase' /\ Onward
  BY NextWatch, NextAway, NextPhases, Goes DEF OrderInv, WatchInv
<1>2. OrderKept'
  BY <1>1, StepOrder, DeliverOrder, ConnectOrder, QuietOrder, SendOrder DEF OrderInv, WatchInv
<1> QED
  BY <1>1, <1>2 DEF OrderInv, OrderKept

\* The two properties together are the order of every stream.
LEMMA OrderIsRight == OrderInv => SourceOrder /\ FinishLast
  BY DEF OrderInv, InOrder, MayFollow, SourceOrder, FinishLast

\* Whatever threads publish at the same time and put their events into queues without
\* the lock, a subscriber gets the events of each in their order, and the start of a run
\* before its output.
THEOREM SourcesInOrder == Spec => []SourceOrder
  BY InitOrder, NextOrder, OrderIsRight, PTL DEF Spec

\* A subscriber gets output of a run after its finish only from a reader that outlived
\* its join.
THEOREM FinishComesLast == Spec => []FinishLast
  BY InitOrder, NextOrder, OrderIsRight, PTL DEF Spec
=============================================================================
