------------------------- MODULE WorkflowTaskProofs -------------------------
(***************************************************************************)
(* Theorems about WorkflowTask for any number of tasks, runs, executor     *)
(* threads, attempts and crashes.                                          *)
(***************************************************************************)
EXTENDS WorkflowTask, TLAPS

-----------------------------------------------------------------------------
(***************************************************************************)
(* Type correctness.  It is not inductive alone: what a step may do with a *)
(* document or a task id depends on where the event loop and the thread    *)
(* are.                                                                    *)
(***************************************************************************)

ClientThen == {"idle", "submit", "result", "ignore", "read", "settle", "clean"}

\* Past the attempt to withdraw the future, until the loop has settled.
Settling ==
    \/ client.pc \in {"kill", "settle"}
    \/ client.pc \in {"stage", "fill", "publish"} /\ client.then = "settle"

\* From the decision to start a run until it is submitted.
Starting ==
    \/ client.pc = "submit"
    \/ client.pc \in {"stage", "fill", "publish"} /\ client.then = "submit"
StartShape ==
    Starting => /\ client.run \in Runs
                /\ run[client.run].pc = "starting"
                /\ run[client.run].task = client.task

\* In a call the loop knows its task; where it goes on with a document or a
\* run, it has one.
ClientShape ==
    /\ client.pc # "idle" => client.task \in Tasks
    /\ client.then \in ClientThen
    /\ client.pc \in {"stage", "fill", "publish", "result", "ignore", "signal",
                     "withdraw", "kill"}
          => client.doc \in Rec
    /\ client.pc = "store" => client.run \in Runs
    /\ Settling => client.settled \/ client.run \in Runs

\* A run that has been used has a task; a thread has read its record before
\* it builds another one on it; an attempt is left where one is begun.
RunShape(me) ==
    /\ me.pc # "unused" => me.task \in Tasks
    /\ me.pc \in Threaded \ {"clean", "stage", "fill", "publish"} => me.payload \in Rec
    /\ me.pc \in {"stage", "fill", "publish"} /\ me.then \in {"work", "attempt"} => me.payload \in Rec
    /\ me.pc \in {"stage", "fill", "publish"} /\ me.fail = "failed" => me.payload \in Rec
    /\ me.pc \in {"stage", "fill", "publish", "recheck"} => me.doc \in Rec
    /\ me.pc \in {"unused", "starting", "queued", "check"} => me.attempt = 0
    /\ me.pc = "attempt" => me.attempt < MaxAttempts
    /\ me.pc \in {"stage", "fill", "publish"} /\ me.then = "attempt" => me.attempt < MaxAttempts

TypeInv == TypeOK /\ ClientShape /\ StartShape /\ \A r \in Runs : RunShape(run[r])

LEMMA NoRecFacts == NoRec \in MaybeRec /\ NoRec \notin Rec
  BY NoneAssumption DEF NoRec, Rec, MaybeRec

\* What a file may hold; only records can be read.
LEMMA FileFacts ==
  /\ MaybeRec \subseteq FileState
  /\ \A p \in FileState : Readable(p) <=> p \in Rec
  /\ ~Readable(NoRec)
  /\ \A p \in Rec, s \in {"empty", "torn"} :
        /\ Scrap(p, s) \in FileState /\ Scrap(p, s) # NoRec
        /\ Scrap(p, s).status = s /\ ~Scrap(p, s).cancel
<1>1. \A p \in Rec : Readable(p)
  BY DEF Readable, Rec
<1>2. ~Readable(NoRec)
  BY DEF Readable, NoRec, Statuses, Final
<1>3. \A p \in FileState : Readable(p) => p \in Rec
  BY <1>2 DEF FileState, MaybeRec, Readable, Statuses, Final
<1>4. \A p \in Rec, s \in {"empty", "torn"} : Scrap(p, s) \in FileState
  BY DEF Scrap, FileState, Rec
<1> QED
  BY <1>1, <1>2, <1>3, <1>4 DEF FileState, Scrap, NoRec

\* Documents built on a record are records.
LEMMA DocTypes ==
  ASSUME NEW p \in Rec
  PROVE  /\ p \in MaybeRec /\ p # NoRec
         /\ \A s \in Statuses : Marked(p, s) \in Rec /\ Marked(p, s).status = s
         /\ Cancelled(p) \in Rec /\ Cancelled(p).status = "cancelled"
         /\ CancelRequested(p) \in Rec
         /\ [p EXCEPT !.cancel = TRUE] \in Rec
         /\ [p EXCEPT !.resultExpired = TRUE] \in Rec
  BY NoRecFacts DEF MaybeRec, Rec, Marked, Cancelled, CancelRequested, Statuses, Final

LEMMA PendingType == \A r \in Runs : Pending(r) \in Rec
  BY DEF Pending, Rec, Statuses

LEMMA FreshTypes == Fresh \in RunState /\ RunShape(Fresh) /\ Idle \in ClientState
  BY NoRecFacts, AttemptsAssumption
     DEF Fresh, Idle, RunState, ClientState, RunShape, RunPCs, ClientPCs, Done, Threaded

LEMMA InitTypeInv == Init => TypeInv
<1> SUFFICES ASSUME Init PROVE TypeInv
  OBVIOUS
<1>1. TypeOK
  BY FreshTypes, NoRecFacts, FileFacts, CrashAssumption DEF Init, TypeOK
<1>2. ClientShape /\ StartShape
  BY DEF Init, ClientShape, StartShape, Starting, Settling, Idle, ClientThen
<1>3. \A r \in Runs : RunShape(run[r])
  BY FreshTypes DEF Init
<1> QED
  BY <1>1, <1>2, <1>3 DEF TypeInv

\* A step of one run changes that run only.
LEMMA RunFrame ==
  ASSUME TypeInv, NEW r \in Runs, NEW new \in RunState, RunShape(new),
         run' = [run EXCEPT ![r] = new]
  PROVE  /\ run' \in [Runs -> RunState]
         /\ \A q \in Runs : RunShape(run'[q])
         /\ run'[r] = new
         /\ \A q \in Runs \ {r} : run'[q] = run[q]
  BY DEF TypeInv, TypeOK

-----------------------------------------------------------------------------
\* The files.

HandleOK == handle \in [Writers -> {"none", "tmp", "record", "gone"}]

LEMMA TruncatesType ==
  ASSUME TypeOK, NEW w, NEW t \in Tasks, NEW doc \in Rec, Truncates(w, t, doc)
  PROVE  staged' \in [Tasks -> FileState] /\ HandleOK'
  BY FileFacts DEF Truncates, TypeOK, HandleOK

\* What filling leaves in the file that is open; the other one is not touched.
LEMMA FillsEffect ==
  ASSUME TypeOK, NEW w, NEW t \in Tasks, NEW doc \in Rec, Fills(w, t, doc)
  PROVE  /\ HandleOK'
         /\ \E new \in {doc, Scrap(doc, "torn")} :
              \/ /\ handle[w] = "tmp" /\ UNCHANGED record
                 /\ staged' = [staged EXCEPT ![t] = new]
              \/ /\ handle[w] = "record" /\ UNCHANGED staged
                 /\ record' = [record EXCEPT ![t] = new]
              \/ handle[w] \notin {"tmp", "record"} /\ UNCHANGED <<record, staged>>
<1>1. HandleOK'
  BY DEF Fills, TypeOK, HandleOK
<1>2. \A old : Written(w, t, old, doc) \subseteq {doc, Scrap(doc, "torn")}
  BY DEF Written
<1> QED
  BY <1>1, <1>2 DEF Fills

LEMMA FillsType ==
  ASSUME TypeOK, NEW w, NEW t \in Tasks, NEW doc \in Rec, Fills(w, t, doc)
  PROVE  /\ record' \in [Tasks -> FileState] /\ staged' \in [Tasks -> FileState]
         /\ HandleOK'
         /\ \A u \in Tasks : record[u] # NoRec => record'[u] # NoRec
<1>1. \A new \in {doc, Scrap(doc, "torn")} : new \in FileState /\ new # NoRec
  BY FileFacts, NoRecFacts DEF MaybeRec
<1>2. PICK new \in {doc, Scrap(doc, "torn")} :
         \/ /\ handle[w] = "tmp" /\ UNCHANGED record
            /\ staged' = [staged EXCEPT ![t] = new]
         \/ /\ handle[w] = "record" /\ UNCHANGED staged
            /\ record' = [record EXCEPT ![t] = new]
         \/ handle[w] \notin {"tmp", "record"} /\ UNCHANGED <<record, staged>>
  BY FillsEffect
<1> QED
  BY <1>1, <1>2, FillsEffect DEF TypeOK

LEMMA RenamesType ==
  ASSUME TypeOK, NEW t \in Tasks, Renames(t)
  PROVE  record' \in [Tasks -> FileState] /\ staged' \in [Tasks -> FileState] /\ HandleOK'
  BY NoRecFacts, FileFacts DEF Renames, TypeOK, HandleOK

LEMMA PruneType ==
  ASSUME TypeOK, Prune PROVE record' \in [Tasks -> FileState] /\ HandleOK'
  BY NoRecFacts, FileFacts DEF Prune, Pruned, TypeOK, HandleOK

-----------------------------------------------------------------------------
\* The event loop.

\* What the steps of the loop that leave the runs alone have to show.
LEMMA ClientFrame ==
  ASSUME TypeInv, client' \in ClientState, ClientShape', StartShape', run' = run,
         age' = age, crashes' = crashes, fired' \subseteq Runs \cup {Orphan},
         alive' \subseteq Runs, HandleOK', record' \in [Tasks -> FileState],
         staged' \in [Tasks -> FileState],
         events' \in [Tasks -> Runs \cup {Orphan, None}],
         futures' \in [Tasks -> Runs \cup {None}], procs' \in [Tasks -> Runs \cup {None}]
  PROVE  TypeInv'
  BY DEF TypeInv, TypeOK, HandleOK

LEMMA CleanupTypes ==
  ASSUME TypeOK, NEW t, CleanupRuntime(t)
  PROVE  /\ events' \in [Tasks -> Runs \cup {Orphan, None}]
         /\ futures' \in [Tasks -> Runs \cup {None}]
         /\ procs' \in [Tasks -> Runs \cup {None}]
  BY DEF TypeOK, CleanupRuntime

\* The idle loop, and the loop about to report a task, satisfy everything.
LEMMA QuietShapes ==
  /\ client' = Idle => client' \in ClientState /\ ClientShape' /\ StartShape'
  /\ \A t \in Tasks : ClientReads(t) =>
        /\ client' \in ClientState /\ ClientShape' /\ StartShape'
  BY FreshTypes
     DEF ClientReads, Idle, ClientState, ClientPCs, ClientShape, ClientThen, StartShape,
         Starting, Settling

\* So does the loop about to persist a document, unless it starts or settles.
LEMMA PersistShapes ==
  ASSUME TypeInv, client.task \in Tasks, NEW doc \in Rec,
         NEW pc \in ClientThen \ {"submit", "settle"}, ClientPersists(doc, pc)
  PROVE  client' \in ClientState /\ ClientShape' /\ StartShape'
  BY DocTypes
     DEF TypeInv, TypeOK, ClientPersists, ClientState, ClientPCs, ClientShape, ClientThen,
         StartShape, Starting, Settling

LEMMA ClientStageType == ASSUME TypeInv, ClientStage PROVE TypeInv'
<1>1. client.task \in Tasks /\ client.doc \in Rec
  BY DEF ClientStage, ClientIs, TypeInv, ClientShape
<1>2. staged' \in [Tasks -> FileState] /\ HandleOK'
  BY <1>1, TruncatesType DEF ClientStage, TypeInv
<1>3. client' \in ClientState /\ ClientShape' /\ StartShape'
  BY DEF ClientStage, ClientIs, ClientGoes, TypeInv, TypeOK, ClientState, ClientPCs,
         ClientShape, ClientThen, StartShape, Starting, Settling
<1> QED
  BY <1>2, <1>3, ClientFrame DEF ClientStage, registry, TypeInv, TypeOK, HandleOK

LEMMA ClientFillType == ASSUME TypeInv, ClientFill PROVE TypeInv'
<1>1. client.task \in Tasks /\ client.doc \in Rec
  BY DEF ClientFill, ClientIs, TypeInv, ClientShape
<1>2. record' \in [Tasks -> FileState] /\ staged' \in [Tasks -> FileState] /\ HandleOK'
  BY <1>1, FillsType DEF ClientFill, TypeInv
<1>3. client' \in ClientState /\ ClientShape' /\ StartShape'
  BY DEF ClientFill, ClientIs, ClientGoes, TypeInv, TypeOK, ClientState, ClientPCs,
         ClientShape, ClientThen, StartShape, Starting, Settling
<1> QED
  BY <1>2, <1>3, ClientFrame DEF ClientFill, registry, TypeInv, TypeOK, HandleOK

LEMMA ClientPublishType == ASSUME TypeInv, ClientPublish PROVE TypeInv'
<1>1. client.task \in Tasks
  BY DEF ClientPublish, ClientIs, TypeInv, ClientShape
<1>2. CASE staged[client.task] = NoRec
  <2>1. client' \in ClientState /\ ClientShape' /\ StartShape'
    BY <1>2, QuietShapes DEF ClientPublish
  <2>2. CASE client.then # "submit"
    BY <1>2, <2>1, <2>2, ClientFrame DEF ClientPublish, registry, TypeInv, TypeOK, HandleOK
  <2>3. CASE client.then = "submit"
    <3> DEFINE r == client.run
               new == [run[r] EXCEPT !.pc = "lost"]
    <3>1. r \in Runs /\ run[r].pc = "starting" /\ run[r].task \in Tasks
      BY <1>1, <2>3 DEF ClientPublish, ClientIs, TypeInv, StartShape, Starting
    <3>a. run[r] \in RunState
      BY <3>1 DEF TypeInv, TypeOK
    <3>2. new \in RunState
      BY <3>a DEF RunState, RunPCs, Done
    <3>3. RunShape(new)
      BY <3>1 DEF TypeInv, TypeOK, RunState, RunShape, Threaded
    <3>4. run' = [run EXCEPT ![r] = new]
      BY <1>2, <2>3 DEF ClientPublish
    <3>5. run' \in [Runs -> RunState] /\ \A q \in Runs : RunShape(run'[q])
      BY <3>1, <3>2, <3>3, <3>4, RunFrame
    <3> QED
      BY <1>2, <2>1, <3>5 DEF ClientPublish, registry, TypeInv, TypeOK, HandleOK
  <2> QED
    BY <2>2, <2>3
<1>3. CASE staged[client.task] # NoRec
  <2>1. record' \in [Tasks -> FileState] /\ staged' \in [Tasks -> FileState] /\ HandleOK'
    BY <1>1, <1>3, RenamesType DEF ClientPublish, TypeInv
  <2>2. CASE client.then = "idle"
    BY <1>3, <2>1, <2>2, QuietShapes, ClientFrame DEF ClientPublish, registry, TypeInv, TypeOK, HandleOK
  <2>3. CASE client.then # "idle"
    <3>1. client' = [client EXCEPT !.pc = client.then, !.then = "idle"]
      BY <1>3, <2>3 DEF ClientPublish
    <3>2. run' = run
      BY <1>3 DEF ClientPublish
    <3>3. client' \in ClientState /\ ClientShape' /\ StartShape'
      BY <1>1, <2>3, <3>1, <3>2
         DEF ClientPublish, ClientIs, TypeInv, TypeOK, ClientState, ClientPCs, ClientShape,
             ClientThen, StartShape, Starting, Settling
    <3> QED
      BY <2>1, <3>2, <3>3, ClientFrame DEF ClientPublish, registry, TypeInv, TypeOK, HandleOK
  <2> QED
    BY <2>2, <2>3
<1> QED
  BY <1>2, <1>3

LEMMA StartExistingType ==
  ASSUME TypeInv, NEW t \in Tasks, StartExisting(t) PROVE TypeInv'
  BY QuietShapes, PruneType, ClientFrame DEF StartExisting, registry, TypeInv, TypeOK, HandleOK

LEMMA StartNewType ==
  ASSUME TypeInv, NEW t \in Tasks, NEW r \in Runs, StartNew(t, r) PROVE TypeInv'
<1> DEFINE new == [run[r] EXCEPT !.pc = "starting", !.task = t]
<1>1. run' = [run EXCEPT ![r] = new]
  BY DEF StartNew, TypeInv, TypeOK, RunState
<1>a. run[r] \in RunState
  BY DEF TypeInv, TypeOK
<1>2. new \in RunState /\ new.pc = "starting" /\ new.task = t
  BY <1>a DEF RunState, RunPCs
<1>3. RunShape(new)
  BY <1>2 DEF StartNew, TypeInv, TypeOK, RunState, RunShape, Threaded
<1>4. run' \in [Runs -> RunState] /\ (\A q \in Runs : RunShape(run'[q])) /\ run'[r] = new
  BY <1>1, <1>2, <1>3, RunFrame
<1>5. client' \in ClientState /\ ClientShape' /\ StartShape'
  BY <1>2, <1>4, PendingType, DocTypes, FreshTypes
     DEF StartNew, ClientState, ClientPCs, ClientShape, ClientThen, StartShape, Starting,
         Settling, Idle
<1>6. /\ events' \in [Tasks -> Runs \cup {Orphan, None}]
      /\ futures' \in [Tasks -> Runs \cup {None}]
      /\ procs' \in [Tasks -> Runs \cup {None}]
  BY CleanupTypes DEF StartNew, registry, TypeInv, TypeOK, HandleOK
<1> QED
  BY <1>4, <1>5, <1>6, PruneType DEF StartNew, TypeInv, TypeOK, HandleOK

LEMMA SubmitType == ASSUME TypeInv, Submit PROVE TypeInv'
<1> DEFINE r == client.run
           new == [run[r] EXCEPT !.pc = "queued"]
<1>1. r \in Runs /\ run[r].pc = "starting" /\ run[r].task \in Tasks /\ client.task \in Tasks
  BY DEF Submit, ClientIs, TypeInv, ClientShape, StartShape, Starting
<1>2. new \in RunState /\ RunShape(new)
  BY <1>1 DEF TypeInv, TypeOK, RunState, RunPCs, RunShape, Threaded
<1>3. run' = [run EXCEPT ![r] = new]
  BY DEF Submit
<1>4. run' \in [Runs -> RunState] /\ \A q \in Runs : RunShape(run'[q])
  BY <1>1, <1>2, <1>3, RunFrame
<1>5. client' \in ClientState /\ ClientShape' /\ StartShape'
  BY <1>1 DEF Submit, ClientIs, ClientGoes, TypeInv, TypeOK, ClientState, ClientPCs,
              ClientShape, ClientThen, StartShape, Starting, Settling
<1> QED
  BY <1>1, <1>4, <1>5 DEF Submit, TypeInv, TypeOK

LEMMA StoreFutureType == ASSUME TypeInv, StoreFuture PROVE TypeInv'
<1>1. client.run \in Runs /\ client.task \in Tasks
  BY DEF StoreFuture, ClientIs, TypeInv, ClientShape
<1> QED
  BY <1>1, QuietShapes, ClientFrame DEF StoreFuture, TypeInv, TypeOK

LEMMA StatusOpType ==
  ASSUME TypeInv, NEW t \in Tasks, StatusOp(t) PROVE TypeInv'
  BY QuietShapes, ClientFrame DEF StatusOp, registry, TypeInv, TypeOK, HandleOK

\* A record that was read is either missing or a document.
LEMMA RecordRead ==
  ASSUME TypeInv, NEW t \in Tasks
  PROVE  Readable(record[t]) => record[t] \in Rec /\ record[t] # NoRec
  BY FileFacts DEF TypeInv, TypeOK

LEMMA ReadStatusType == ASSUME TypeInv, ReadStatus PROVE TypeInv'
<1> DEFINE p == record[client.task]
<1>1. client.task \in Tasks
  BY DEF ReadStatus, ClientIs, TypeInv, ClientShape
<1>2. CASE ~Readable(p)
  BY <1>2, QuietShapes, ClientFrame DEF ReadStatus, registry, TypeInv, TypeOK, HandleOK
<1>3. CASE Readable(p) /\ p.status \notin Final /\ Aged(p)
  <2>1. Marked(p, "expired") \in Rec
    BY <1>1, <1>3, RecordRead, DocTypes DEF Statuses, Final
  <2>2. ClientPersists(Marked(p, "expired"), "result")
    BY <1>3 DEF ReadStatus
  <2>3. client' \in ClientState /\ ClientShape' /\ StartShape'
    BY <1>1, <2>1, <2>2, PersistShapes DEF ClientThen
  <2> QED
    BY <2>3, ClientFrame DEF ReadStatus, registry, TypeInv, TypeOK, HandleOK
<1>4. CASE Readable(p) /\ ~(p.status \notin Final /\ Aged(p))
  <2>1. p \in Rec /\ p \in MaybeRec
    BY <1>1, <1>4, RecordRead, DocTypes
  <2>2. client' = [client EXCEPT !.pc = "result", !.doc = p]
    BY <1>4 DEF ReadStatus
  <2>3. client' \in ClientState /\ ClientShape' /\ StartShape'
    BY <1>1, <2>1, <2>2 DEF TypeInv, TypeOK, ClientState, ClientPCs, ClientShape,
                            ClientThen, StartShape, Starting, Settling
  <2> QED
    BY <2>3, ClientFrame DEF ReadStatus, registry, TypeInv, TypeOK, HandleOK
<1> QED
  BY <1>2, <1>3, <1>4

LEMMA ResultExpiryType == ASSUME TypeInv, ResultExpiry PROVE TypeInv'
<1> DEFINE p == client.doc
<1>1. client.task \in Tasks /\ p \in Rec
  BY DEF ResultExpiry, ClientIs, TypeInv, ClientShape
<1>2. client' \in ClientState /\ ClientShape' /\ StartShape'
  <2>1. [p EXCEPT !.resultExpired = TRUE] \in Rec
    BY <1>1, DocTypes
  <2>2. CASE client' = Idle
    BY <2>2, QuietShapes
  <2>3. CASE ClientPersists([p EXCEPT !.resultExpired = TRUE], "idle")
    BY <1>1, <2>1, <2>3, PersistShapes DEF ClientThen
  <2> QED
    BY <2>2, <2>3 DEF ResultExpiry
<1> QED
  BY <1>2, ClientFrame DEF ResultExpiry, registry, TypeInv, TypeOK, HandleOK

LEMMA CancelOpType ==
  ASSUME TypeInv, NEW t \in Tasks, CancelOp(t) PROVE TypeInv'
<1> DEFINE p == record[t]
           c == [Idle EXCEPT !.task = t, !.doc = p]
           x == Marked(p, "expired")
<1>1. p \in Rec /\ p \in MaybeRec /\ x \in Rec /\ x \in MaybeRec
  BY RecordRead, DocTypes DEF CancelOp, Statuses, Final
<1>2. \/ client' = [c EXCEPT !.pc = "stage", !.doc = x, !.then = "ignore"]
      \/ client' = [c EXCEPT !.pc = "signal"]
      \/ client' = [c EXCEPT !.pc = "read"]
      \/ client' = [c EXCEPT !.pc = "ignore"]
  BY DEF CancelOp, Final
<1>3. client' \in ClientState /\ ClientShape' /\ StartShape'
  BY <1>1, <1>2, FreshTypes
     DEF Idle, ClientState, ClientPCs, ClientShape, ClientThen, StartShape, Starting, Settling
<1> QED
  BY <1>3, ClientFrame DEF CancelOp, registry, TypeInv, TypeOK, HandleOK

LEMMA IgnoreCancelType == ASSUME TypeInv, IgnoreCancel PROVE TypeInv'
<1>1. client.task \in Tasks /\ [client.doc EXCEPT !.cancel = TRUE] \in Rec
  BY DocTypes DEF IgnoreCancel, ClientIs, TypeInv, ClientShape
<1>2. client' \in ClientState /\ ClientShape' /\ StartShape'
  BY <1>1, PersistShapes DEF IgnoreCancel, ClientThen
<1> QED
  BY <1>2, ClientFrame DEF IgnoreCancel, registry, TypeInv, TypeOK, HandleOK

LEMMA SignalType == ASSUME TypeInv, Signal PROVE TypeInv'
<1>1. client.task \in Tasks /\ client.doc \in Rec
  BY DEF Signal, ClientIs, TypeInv, ClientShape
<1>2. client' \in ClientState /\ ClientShape' /\ StartShape'
  BY <1>1 DEF Signal, TypeInv, TypeOK, ClientState, ClientPCs, ClientShape, ClientThen,
              StartShape, Starting, Settling
<1> DEFINE e == IF events[client.task] = None THEN Orphan ELSE events[client.task]
<1>3. e \in Runs \cup {Orphan}
  BY <1>1 DEF TypeInv, TypeOK
<1>4. events' \in [Tasks -> Runs \cup {Orphan, None}] /\ fired' \subseteq Runs \cup {Orphan}
  BY <1>1, <1>3 DEF Signal, TypeInv, TypeOK
<1> QED
  BY <1>2, <1>4, ClientFrame DEF Signal, TypeInv, TypeOK

LEMMA WithdrawFutureType == ASSUME TypeInv, WithdrawFuture PROVE TypeInv'
<1> DEFINE f == client.run
           taken == f # None /\ run[f].pc \in {"queued", "withdrawn"}
           new == [run[f] EXCEPT !.pc = "withdrawn"]
<1>1. client.task \in Tasks /\ client.doc \in Rec /\ f \in Runs \cup {None}
  BY DEF WithdrawFuture, ClientIs, TypeInv, TypeOK, ClientState, ClientShape
<1>2. client' = [client EXCEPT !.pc = "kill", !.settled = taken \/ f = None]
  BY DEF WithdrawFuture
<1>3. client' \in ClientState /\ ClientShape' /\ StartShape'
  <2>1. client'.pc = "kill" /\ client'.task = client.task /\ client'.doc = client.doc
        /\ client'.run = f /\ client'.then = client.then /\ client' \in ClientState
    BY <1>2 DEF TypeInv, TypeOK, ClientState, ClientPCs
  <2>2. f = None => client'.settled
    BY <1>2 DEF TypeInv, TypeOK, ClientState
  <2> QED
    BY <1>1, <2>1, <2>2 DEF TypeInv, ClientShape, StartShape, Starting, Settling
<1>4. CASE ~taken
  BY <1>3, <1>4, ClientFrame DEF WithdrawFuture, registry, TypeInv, TypeOK, HandleOK
<1>5. CASE taken
  <2>1. f \in Runs /\ run[f].pc \in {"queued", "withdrawn"}
    BY <1>1, <1>5
  <2>2. new \in RunState /\ RunShape(new)
    BY <2>1 DEF TypeInv, TypeOK, RunState, RunPCs, RunShape, Threaded, Done
  <2>3. run' = [run EXCEPT ![f] = new]
    BY <1>5 DEF WithdrawFuture
  <2>4. run' \in [Runs -> RunState] /\ \A q \in Runs : RunShape(run'[q])
    BY <2>1, <2>2, <2>3, RunFrame
  <2> QED
    BY <1>3, <2>4 DEF WithdrawFuture, registry, TypeInv, TypeOK, HandleOK
<1> QED
  BY <1>4, <1>5

LEMMA SignalProcessType == ASSUME TypeInv, SignalProcess PROVE TypeInv'
<1>1. /\ client.task \in Tasks
      /\ CancelRequested(client.doc) \in Rec /\ CancelRequested(client.doc) \in MaybeRec
      /\ client.settled \/ client.run \in Runs
  BY DocTypes DEF SignalProcess, ClientIs, TypeInv, ClientShape, Settling
<1>2. client' \in ClientState /\ ClientShape' /\ StartShape'
  BY <1>1 DEF SignalProcess, ClientPersists, TypeInv, TypeOK, ClientState, ClientPCs,
              ClientShape, ClientThen, StartShape, Starting, Settling
<1>3. alive' \subseteq Runs
  BY DEF SignalProcess, TypeInv, TypeOK
<1> QED
  BY <1>2, <1>3, ClientFrame DEF SignalProcess, registry, TypeInv, TypeOK, HandleOK

LEMMA SettleType == ASSUME TypeInv, Settle PROVE TypeInv'
<1> DEFINE p == record[client.task]
<1>1. client.task \in Tasks
  BY DEF Settle, ClientIs, TypeInv, ClientShape
<1>2. \/ ClientReads(client.task)
      \/ client' = Idle
      \/ Readable(p) /\ ClientPersists(Cancelled(p), "clean")
  BY DEF Settle
<1>3. Readable(p) => Cancelled(p) \in Rec
  BY <1>1, RecordRead, DocTypes
<1>4. client' \in ClientState /\ ClientShape' /\ StartShape'
  BY <1>1, <1>2, <1>3, QuietShapes, PersistShapes DEF ClientThen
<1> QED
  BY <1>4, ClientFrame DEF Settle, registry, TypeInv, TypeOK, HandleOK

LEMMA ClientCleanType == ASSUME TypeInv, ClientClean PROVE TypeInv'
<1>1. client.task \in Tasks
  BY DEF ClientClean, ClientIs, TypeInv, ClientShape
<1> QED
  BY <1>1, QuietShapes, CleanupTypes, ClientFrame DEF ClientClean, TypeInv, TypeOK

-----------------------------------------------------------------------------
\* The executor threads.

\* What the steps of a run that leave the loop alone have to show.
LEMMA RunStepFrame ==
  ASSUME TypeInv, NEW r \in Runs, run[r].pc # "starting", NEW new \in RunState,
         RunShape(new), run' = [run EXCEPT ![r] = new],
         client' = client, age' = age, crashes' = crashes, fired' = fired,
         alive' \subseteq Runs, HandleOK', record' \in [Tasks -> FileState],
         staged' \in [Tasks -> FileState],
         events' \in [Tasks -> Runs \cup {Orphan, None}],
         futures' \in [Tasks -> Runs \cup {None}], procs' \in [Tasks -> Runs \cup {None}]
  PROVE  TypeInv'
<1>1. /\ run' \in [Runs -> RunState]
      /\ \A q \in Runs : RunShape(run'[q])
      /\ \A q \in Runs \ {r} : run'[q] = run[q]
  BY RunFrame
<1>2. StartShape'
  BY <1>1 DEF TypeInv, StartShape, Starting
<1>3. ClientShape'
  BY DEF TypeInv, ClientShape, Settling
<1> QED
  BY <1>1, <1>2, <1>3 DEF TypeInv, TypeOK, HandleOK

\* The local steps of a run, which change nothing that is shared.
LEMMA LocalFrame ==
  ASSUME TypeInv, NEW r \in Runs, run[r].pc # "starting", NEW new \in RunState,
         RunShape(new), RunBecomes(r, new),
         UNCHANGED <<record, staged, handle, registry, fired, alive, client, age, crashes>>
  PROVE  TypeInv'
  BY RunStepFrame DEF RunBecomes, registry, TypeInv, TypeOK, HandleOK

\* A run that is over, or goes on after a document was persisted.
LEMMA OverType ==
  ASSUME TypeInv, NEW r \in Runs, run[r].pc # "unused", NEW pc \in {"clean", "ended", "lost"}
  PROVE  Over(r, pc) \in RunState /\ RunShape(Over(r, pc))
<1>1. run[r] \in RunState /\ run[r].task \in Tasks
  BY DEF TypeInv, TypeOK, RunShape
<1> DEFINE over == Over(r, pc)
<1>2. /\ run[r].attempt \in 0..MaxAttempts
      /\ run[r].result \in {"none", "ok", "failed", "transient", "cancelled"}
  BY <1>1 DEF RunState
<1>3. over \in RunState
  <2>1. pc \in RunPCs /\ Fresh \in RunState
    BY FreshTypes DEF RunPCs, Done, Threaded
  <2>2. [Fresh EXCEPT !.pc = pc] \in RunState
    BY <2>1 DEF RunState
  <2>3. [Fresh EXCEPT !.pc = pc, !.task = run[r].task] \in RunState
    BY <1>1, <2>2 DEF RunState
  <2> QED
    BY <1>2, <2>3 DEF Over, RunState
<1>4. over.pc = pc /\ over.task = run[r].task
  BY FreshTypes DEF Over, RunState
<1>5. RunShape(over)
  BY <1>1, <1>4 DEF RunShape, Threaded
<1> QED
  BY <1>3, <1>5

LEMMA PersistingType ==
  ASSUME TypeInv, NEW r \in Runs, run[r].task \in Tasks, NEW doc \in Rec,
         NEW pc \in {"work", "attempt", "clean"}, NEW err \in {"failed", "ended"},
         (pc # "clean" \/ err = "failed") => run[r].payload \in Rec,
         pc = "attempt" => run[r].attempt < MaxAttempts
  PROVE  Persisting(r, doc, pc, err) \in RunState /\ RunShape(Persisting(r, doc, pc, err))
<1>1. run[r] \in RunState /\ doc \in MaybeRec
  BY DocTypes DEF TypeInv, TypeOK
<1> QED
  BY <1>1 DEF Persisting, RunState, RunPCs, Threaded, RunShape

LEMMA RunStageType == ASSUME TypeInv, NEW r \in Runs, RunStage(r) PROVE TypeInv'
<1> DEFINE new == [run[r] EXCEPT !.pc = "fill"]
<1>1. run[r] \in RunState /\ run[r].doc \in Rec /\ run[r].task \in Tasks
  BY DEF RunStage, RunIs, TypeInv, TypeOK, RunShape
<1>2. new \in RunState /\ RunShape(new)
  BY <1>1 DEF RunStage, RunIs, TypeInv, RunState, RunPCs, Threaded, RunShape
<1>3. staged' \in [Tasks -> FileState] /\ HandleOK'
  BY <1>1, TruncatesType DEF RunStage, TypeInv
<1> QED
  BY <1>2, <1>3, RunStepFrame
     DEF RunStage, RunIs, RunGoes, RunBecomes, registry, TypeInv, TypeOK, HandleOK

LEMMA RunFillType == ASSUME TypeInv, NEW r \in Runs, RunFill(r) PROVE TypeInv'
<1> DEFINE new == [run[r] EXCEPT !.pc = "publish"]
<1>1. run[r] \in RunState /\ run[r].doc \in Rec /\ run[r].task \in Tasks
  BY DEF RunFill, RunIs, TypeInv, TypeOK, RunShape
<1>2. new \in RunState /\ RunShape(new)
  BY <1>1 DEF RunFill, RunIs, TypeInv, RunState, RunPCs, Threaded, RunShape
<1>3. record' \in [Tasks -> FileState] /\ staged' \in [Tasks -> FileState] /\ HandleOK'
  BY <1>1, FillsType DEF RunFill, TypeInv
<1> QED
  BY <1>2, <1>3, RunStepFrame
     DEF RunFill, RunIs, RunGoes, RunBecomes, registry, TypeInv, TypeOK, HandleOK

LEMMA RunPublishType == ASSUME TypeInv, NEW r \in Runs, RunPublish(r) PROVE TypeInv'
<1> DEFINE me == run[r]
<1>1. me \in RunState /\ me.pc = "publish" /\ me.task \in Tasks /\ RunShape(me)
  BY DEF RunPublish, RunIs, TypeInv, TypeOK, RunShape
<1>2. ASSUME NEW pc \in {me.then, me.fail}
      PROVE  Resumed(r, pc) \in RunState /\ RunShape(Resumed(r, pc))
  <2>1. CASE pc \in {"clean", "ended"}
    BY <1>1, <2>1, OverType DEF Resumed
  <2>2. CASE pc \notin {"clean", "ended"}
    <3> DEFINE new == [me EXCEPT !.pc = pc, !.doc = NoRec, !.then = "ended", !.fail = "ended"]
    <3>1. pc \in {"work", "attempt", "failed"}
      BY <1>1, <1>2, <2>2 DEF RunState
    <3>2. me.payload \in Rec
      BY <1>1, <1>2, <2>2 DEF RunState, RunShape
    <3>3. pc = "attempt" => me.attempt < MaxAttempts
      BY <1>1, <1>2, <2>2 DEF RunState, RunShape
    <3>4. new \in RunState
      BY <1>1, <3>1, NoRecFacts DEF RunState, RunPCs, Threaded
    <3>5. RunShape(new)
      BY <1>1, <3>1, <3>2, <3>3 DEF RunState, RunShape
    <3> QED
      BY <2>2, <3>4, <3>5 DEF Resumed
  <2> QED
    BY <2>1, <2>2
<1>3. CASE staged[me.task] = NoRec
  <2>1. RunBecomes(r, Resumed(r, me.fail)) /\ UNCHANGED <<record, staged, handle>>
    BY <1>3 DEF RunPublish
  <2> QED
    BY <1>1, <1>2, <2>1, LocalFrame DEF RunPublish
<1>4. CASE staged[me.task] # NoRec
  <2>1. record' \in [Tasks -> FileState] /\ staged' \in [Tasks -> FileState] /\ HandleOK'
    BY <1>1, <1>4, RenamesType DEF RunPublish, TypeInv
  <2>2. RunBecomes(r, Resumed(r, me.then))
    BY <1>4 DEF RunPublish
  <2> QED
    BY <1>1, <1>2, <2>1, <2>2, RunStepFrame DEF RunPublish, RunBecomes, registry, TypeInv, TypeOK, HandleOK
<1> QED
  BY <1>3, <1>4

LEMMA BeginType == ASSUME TypeInv, NEW r \in Runs, Begin(r) PROVE TypeInv'
<1> DEFINE me == run[r]
           p == record[me.task]
           new == [me EXCEPT !.pc = "check", !.payload = p]
<1>1. me \in RunState /\ me.pc = "queued" /\ me.task \in Tasks /\ me.attempt = 0
  BY DEF Begin, RunIs, TypeInv, TypeOK, RunShape
<1>2. CASE ~Readable(p)
  BY <1>1, <1>2, OverType, LocalFrame DEF Begin
<1>3. CASE Readable(p)
  <2>1. p \in Rec /\ p \in MaybeRec
    BY <1>1, <1>3, RecordRead, DocTypes
  <2>2. new \in RunState /\ RunShape(new)
    BY <1>1, <2>1 DEF RunState, RunPCs, Threaded, RunShape
  <2> QED
    BY <1>1, <1>3, <2>2, LocalFrame DEF Begin
<1> QED
  BY <1>2, <1>3

LEMMA CheckType == ASSUME TypeInv, NEW r \in Runs, Check(r) PROVE TypeInv'
<1> DEFINE me == run[r]
           p == me.payload
           next == IF me.task \in Mutating THEN "attempt" ELSE "work"
           running == Marked(p, "running")
           base == Persisting(r, running, next, "ended")
           new == [base EXCEPT !.payload = running]
<1>1. /\ me \in RunState /\ me.pc = "check" /\ me.task \in Tasks /\ p \in Rec
      /\ me.attempt = 0 /\ me.attempt < MaxAttempts
  BY AttemptsAssumption DEF Check, RunIs, TypeInv, TypeOK, RunShape, Threaded
<1>2. Cancelled(p) \in Rec /\ running \in Rec /\ running \in MaybeRec
  BY <1>1, DocTypes DEF Statuses
<1>3. CASE CancelAsked(p) \/ CancelSeen(me.task)
  <2>1. RunBecomes(r, Persisting(r, Cancelled(p), "clean", "ended"))
    BY <1>3 DEF Check
  <2> QED
    BY <1>1, <1>2, <2>1, PersistingType, LocalFrame DEF Check
<1>4. CASE ~(CancelAsked(p) \/ CancelSeen(me.task))
  <2>1. RunBecomes(r, new)
    BY <1>4 DEF Check
  <2>2. base \in RunState /\ RunShape(base)
    BY <1>1, <1>2, PersistingType
  <2> HIDE DEF base
  <2>3. new \in RunState /\ RunShape(new)
    BY <1>2, <2>2 DEF RunState, RunShape, Threaded
  <2> QED
    BY <1>1, <2>1, <2>3, LocalFrame DEF Check
<1> QED
  BY <1>3, <1>4

LEMMA ReportType == ASSUME TypeInv, NEW r \in Runs, Report(r) PROVE TypeInv'
<1>1. run[r] \in RunState /\ run[r].pc = "work" /\ run[r].task \in Tasks /\ run[r].payload \in Rec
  BY DEF Report, RunIs, TypeInv, TypeOK, RunShape, Threaded
<1>2. PICK new \in {[run[r] EXCEPT !.pc = "reread", !.result = "ok"],
                    [run[r] EXCEPT !.pc = "failed", !.result = "failed"]} : RunBecomes(r, new)
  BY DEF Report
<1>3. new \in RunState /\ RunShape(new)
  BY <1>1 DEF RunState, RunPCs, Threaded, RunShape
<1> QED
  BY <1>1, <1>2, <1>3, LocalFrame DEF Report

LEMMA RereadType == ASSUME TypeInv, NEW r \in Runs, Reread(r) PROVE TypeInv'
<1> DEFINE p == record[run[r].task]
           found == [run[r] EXCEPT !.pc = "recheck", !.doc = p]
           missing == [run[r] EXCEPT !.pc = "failed"]
<1>1. run[r] \in RunState /\ run[r].pc = "reread" /\ run[r].task \in Tasks /\ run[r].payload \in Rec
  BY DEF Reread, RunIs, TypeInv, TypeOK, RunShape, Threaded
<1>2. CASE ~Readable(p)
  <2>1. missing \in RunState /\ RunShape(missing)
    BY <1>1 DEF RunState, RunPCs, Threaded, RunShape
  <2> QED
    BY <1>1, <1>2, <2>1, LocalFrame DEF Reread, RunGoes
<1>3. CASE Readable(p)
  <2>1. p \in Rec /\ p \in MaybeRec
    BY <1>1, <1>3, RecordRead, DocTypes
  <2>2. found \in RunState /\ RunShape(found)
    BY <1>1, <2>1 DEF RunState, RunPCs, Threaded, RunShape
  <2> QED
    BY <1>1, <1>3, <2>2, LocalFrame DEF Reread
<1> QED
  BY <1>2, <1>3

LEMMA RecheckType == ASSUME TypeInv, NEW r \in Runs, Recheck(r) PROVE TypeInv'
<1> DEFINE me == run[r]
           done == Marked(me.payload, "succeeded")
           base == Persisting(r, done, "clean", "failed")
           new == [base EXCEPT !.payload = done]
<1>1. /\ me \in RunState /\ me.pc = "recheck" /\ me.task \in Tasks
      /\ me.payload \in Rec /\ me.doc \in Rec
  BY DEF Recheck, RunIs, TypeInv, TypeOK, RunShape, Threaded
<1>2. Cancelled(me.doc) \in Rec /\ done \in Rec /\ done \in MaybeRec
  BY <1>1, DocTypes DEF Statuses, Final
<1>3. CASE CancelAsked(me.doc) \/ CancelSeen(me.task)
  <2>1. RunBecomes(r, Persisting(r, Cancelled(me.doc), "clean", "failed"))
    BY <1>3 DEF Recheck
  <2> QED
    BY <1>1, <1>2, <2>1, PersistingType, LocalFrame DEF Recheck
<1>4. CASE ~(CancelAsked(me.doc) \/ CancelSeen(me.task))
  <2>1. RunBecomes(r, new)
    BY <1>4 DEF Recheck
  <2>2. base \in RunState /\ RunShape(base)
    BY <1>1, <1>2, PersistingType
  <2> HIDE DEF base
  <2>3. new \in RunState /\ RunShape(new)
    BY <1>2, <2>2 DEF RunState, RunShape, Threaded
  <2> QED
    BY <1>1, <2>1, <2>3, LocalFrame DEF Recheck
<1> QED
  BY <1>3, <1>4

LEMMA ReportFailedType == ASSUME TypeInv, NEW r \in Runs, ReportFailed(r) PROVE TypeInv'
<1>1. run[r].pc = "failed" /\ run[r].task \in Tasks /\ run[r].payload \in Rec
  BY DEF ReportFailed, RunIs, TypeInv, RunShape, Threaded
<1>2. Marked(run[r].payload, "failed") \in Rec
  BY <1>1, DocTypes DEF Statuses, Final
<1> QED
  BY <1>1, <1>2, PersistingType, LocalFrame DEF ReportFailed

\* The steps of an attempt change only pc, attempt, result and watch.
LEMMA AttemptType == ASSUME TypeInv, NEW r \in Runs, Attempt(r) PROVE TypeInv'
<1> DEFINE stop == [run[r] EXCEPT !.pc = "finish", !.result = "cancelled"]
           go == [run[r] EXCEPT !.pc = "launch", !.attempt = @ + 1]
<1>1. /\ run[r] \in RunState /\ run[r].pc = "attempt" /\ run[r].task \in Tasks
      /\ run[r].payload \in Rec /\ run[r].attempt < MaxAttempts
  BY DEF Attempt, RunIs, TypeInv, TypeOK, RunShape, Threaded
<1>2. stop \in RunState /\ RunShape(stop)
  BY <1>1 DEF RunState, RunPCs, Threaded, RunShape
<1>3. go \in RunState /\ RunShape(go)
  <2>1. run[r].attempt + 1 \in 0..MaxAttempts
    BY <1>1, AttemptsAssumption DEF RunState
  <2> QED
    BY <1>1, <2>1 DEF RunState, RunPCs, Threaded, RunShape
<1>4. RunBecomes(r, stop) \/ RunBecomes(r, go)
  BY DEF Attempt
<1> QED
  BY <1>1, <1>2, <1>3, <1>4, LocalFrame DEF Attempt

LEMMA LaunchType == ASSUME TypeInv, NEW r \in Runs, Launch(r) PROVE TypeInv'
<1>1. run[r] \in RunState /\ run[r].pc = "launch" /\ run[r].task \in Tasks /\ run[r].payload \in Rec
  BY DEF Launch, RunIs, TypeInv, TypeOK, RunShape, Threaded
<1>2. CASE \E res \in {"failed", "transient"} :
             RunBecomes(r, [run[r] EXCEPT !.pc = "judge", !.result = res])
  <2>1. PICK res \in {"failed", "transient"} :
               RunBecomes(r, [run[r] EXCEPT !.pc = "judge", !.result = res])
    BY <1>2
  <2> DEFINE new == [run[r] EXCEPT !.pc = "judge", !.result = res]
  <2>2. new \in RunState /\ RunShape(new)
    BY <1>1 DEF RunState, RunPCs, Threaded, RunShape
  <2> QED
    BY <1>1, <2>1, <2>2, LocalFrame DEF Launch
<1>3. CASE RunBecomes(r, [run[r] EXCEPT !.pc = "popen", !.watch = events[run[r].task]])
  <2> DEFINE new == [run[r] EXCEPT !.pc = "popen", !.watch = events[run[r].task]]
  <2>1. events[run[r].task] \in Runs \cup {Orphan, None}
    BY <1>1 DEF TypeInv, TypeOK
  <2>2. new \in RunState /\ RunShape(new)
    BY <1>1, <2>1 DEF RunState, RunPCs, Threaded, RunShape
  <2> QED
    BY <1>1, <1>3, <2>2, LocalFrame DEF Launch
<1> QED
  BY <1>2, <1>3 DEF Launch

LEMMA PopenType == ASSUME TypeInv, NEW r \in Runs, Popen(r) PROVE TypeInv'
<1> DEFINE new == [run[r] EXCEPT !.pc = "subprocess"]
<1>1. run[r] \in RunState /\ run[r].pc = "popen" /\ run[r].task \in Tasks /\ run[r].payload \in Rec
  BY DEF Popen, RunIs, TypeInv, TypeOK, RunShape, Threaded
<1>2. new \in RunState /\ RunShape(new)
  BY <1>1 DEF RunState, RunPCs, Threaded, RunShape
<1>3. alive' \subseteq Runs /\ procs' \in [Tasks -> Runs \cup {None}]
  BY <1>1 DEF Popen, TypeInv, TypeOK
<1> QED
  BY <1>1, <1>2, <1>3, RunStepFrame DEF Popen, RunGoes, RunBecomes, TypeInv, TypeOK, HandleOK

LEMMA UnregisteredType ==
  ASSUME TypeInv, NEW r \in Runs, run[r].task \in Tasks
  PROVE  Unregistered(r) \in [Tasks -> Runs \cup {None}]
  BY DEF Unregistered, TypeInv, TypeOK

LEMMA SubprocessType == ASSUME TypeInv, NEW r \in Runs, Subprocess(r) PROVE TypeInv'
<1>1. run[r] \in RunState /\ run[r].pc = "subprocess" /\ run[r].task \in Tasks /\ run[r].payload \in Rec
  BY DEF Subprocess, RunIs, TypeInv, TypeOK, RunShape, Threaded
<1>2. PICK res \in {"ok", "failed", "transient", "cancelled"}, pc \in {"judge", "reap"} :
             /\ RunBecomes(r, [run[r] EXCEPT !.pc = pc, !.result = res, !.watch = None])
             /\ procs' = IF pc = "judge" THEN Unregistered(r) ELSE procs
  BY DEF Subprocess
<1> DEFINE new == [run[r] EXCEPT !.pc = pc, !.result = res, !.watch = None]
<1>3. new \in RunState /\ RunShape(new)
  BY <1>1 DEF RunState, RunPCs, Threaded, RunShape
<1>4. alive' \subseteq Runs /\ procs' \in [Tasks -> Runs \cup {None}]
  BY <1>1, <1>2, UnregisteredType DEF Subprocess, TypeInv, TypeOK
<1> QED
  BY <1>1, <1>2, <1>3, <1>4, RunStepFrame DEF Subprocess, RunBecomes, TypeInv, TypeOK, HandleOK

LEMMA PipeClosesType == ASSUME TypeInv, NEW r \in Runs, PipeCloses(r) PROVE TypeInv'
<1> DEFINE new == [run[r] EXCEPT !.pc = "judge"]
<1>1. run[r] \in RunState /\ run[r].pc = "reap" /\ run[r].task \in Tasks /\ run[r].payload \in Rec
  BY DEF PipeCloses, RunIs, TypeInv, TypeOK, RunShape, Threaded
<1>2. new \in RunState /\ RunShape(new)
  BY <1>1 DEF RunState, RunPCs, Threaded, RunShape
<1>3. procs' \in [Tasks -> Runs \cup {None}]
  BY <1>1, UnregisteredType DEF PipeCloses
<1> QED
  BY <1>1, <1>2, <1>3, RunStepFrame
     DEF PipeCloses, RunGoes, RunBecomes, TypeInv, TypeOK, HandleOK

LEMMA JudgeType == ASSUME TypeInv, NEW r \in Runs, Judge(r) PROVE TypeInv'
<1> DEFINE me == run[r]
           stop == [me EXCEPT !.pc = "finish", !.result = "cancelled"]
           finish == [me EXCEPT !.pc = "finish"]
           again == [me EXCEPT !.pc = "attempt"]
<1>1. me \in RunState /\ me.pc = "judge" /\ me.task \in Tasks /\ me.payload \in Rec
  BY DEF Judge, RunIs, TypeInv, TypeOK, RunShape, Threaded
<1>2. stop \in RunState /\ RunShape(stop) /\ finish \in RunState /\ RunShape(finish)
  BY <1>1 DEF RunState, RunPCs, Threaded, RunShape
<1>3. me.attempt < MaxAttempts => again \in RunState /\ RunShape(again)
  BY <1>1 DEF RunState, RunPCs, Threaded, RunShape
<1>4. \/ RunBecomes(r, stop) \/ RunBecomes(r, finish)
      \/ me.attempt < MaxAttempts /\ RunBecomes(r, again)
  <2>1. me.attempt \in 0..MaxAttempts
    BY <1>1 DEF RunState
  <2> QED
    BY <2>1, AttemptsAssumption DEF Judge
<1> QED
  BY <1>1, <1>2, <1>3, <1>4, LocalFrame DEF Judge

LEMMA FinishType == ASSUME TypeInv, NEW r \in Runs, Finish(r) PROVE TypeInv'
<1> DEFINE p == run[r].payload
<1>1. run[r].pc = "finish" /\ run[r].task \in Tasks /\ p \in Rec
  BY DEF Finish, RunIs, TypeInv, RunShape, Threaded
<1>2. PICK doc \in {Cancelled(p), Marked(p, "succeeded"), Marked(p, "failed")} :
             RunBecomes(r, Persisting(r, doc, "clean", "ended"))
  BY DEF Finish
<1>3. /\ Cancelled(p) \in Rec
      /\ Marked(p, "succeeded") \in Rec /\ Marked(p, "failed") \in Rec
  BY <1>1, DocTypes DEF Statuses, Final
<1>4. doc \in Rec
  BY <1>2, <1>3
<1> QED
  BY <1>1, <1>2, <1>4, PersistingType, LocalFrame DEF Finish

LEMMA RunCleanType == ASSUME TypeInv, NEW r \in Runs, RunClean(r) PROVE TypeInv'
<1>1. run[r].pc = "clean"
  BY DEF RunClean, RunIs
<1>2. Over(r, "ended") \in RunState /\ RunShape(Over(r, "ended"))
  BY <1>1, OverType
<1> QED
  BY <1>1, <1>2, CleanupTypes, RunStepFrame
     DEF RunClean, RunBecomes, TypeInv, TypeOK, HandleOK

-----------------------------------------------------------------------------
\* The environment.

LEMMA TickType == ASSUME TypeInv, NEW r \in Runs, Tick(r) PROVE TypeInv'
<1>1. age' \in [Runs -> 0..2]
  BY AgeAssumption DEF Tick, TypeInv, TypeOK
<1> QED
  BY <1>1 DEF Tick, registry, TypeInv, TypeOK, ClientShape, StartShape, Starting, Settling

LEMMA OrphanExitsType == ASSUME TypeInv, NEW r \in Runs, OrphanExits(r) PROVE TypeInv'
  BY DEF OrphanExits, registry, TypeInv, TypeOK, ClientShape, StartShape, Starting, Settling

LEMMA CrashType == ASSUME TypeInv, Crash PROVE TypeInv'
<1>1. \A r \in Runs : run'[r] \in RunState /\ RunShape(run'[r])
  <2> TAKE r \in Runs
  <2>1. run'[r] = IF run[r].pc \in {"unused", "ended", "withdrawn"} THEN run[r] ELSE Over(r, "lost")
    BY DEF Crash
  <2>2. CASE run[r].pc \in {"unused", "ended", "withdrawn"}
    BY <2>1, <2>2 DEF TypeInv, TypeOK
  <2>3. CASE run[r].pc \notin {"unused", "ended", "withdrawn"}
    BY <2>1, <2>3, OverType
  <2> QED
    BY <2>2, <2>3
<1>2. run' \in [Runs -> RunState]
  BY <1>1 DEF Crash
<1>3. client' \in ClientState /\ ClientShape' /\ StartShape'
  BY QuietShapes DEF Crash
<1>4. crashes' \in 0..MaxCrashes
  BY CrashAssumption DEF Crash, TypeInv, TypeOK
<1> QED
  BY <1>1, <1>2, <1>3, <1>4 DEF Crash, TypeInv, TypeOK

LEMMA NextTypeInv == TypeInv /\ [Next]_vars => TypeInv'
<1> SUFFICES ASSUME TypeInv, [Next]_vars PROVE TypeInv'
  OBVIOUS
<1>1. ASSUME NEW t \in Tasks, StartExisting(t) \/ StatusOp(t) \/ CancelOp(t) PROVE TypeInv'
  BY <1>1, StartExistingType, StatusOpType, CancelOpType
<1>2. ASSUME NEW t \in Tasks, NEW r \in Runs, StartNew(t, r) PROVE TypeInv'
  BY <1>2, StartNewType
<1>3. CASE ClientStep
  BY <1>3, ClientStageType, ClientFillType, ClientPublishType, SubmitType, StoreFutureType, ReadStatusType,
     ResultExpiryType, IgnoreCancelType, SignalType, WithdrawFutureType, SignalProcessType,
     SettleType, ClientCleanType DEF ClientStep
<1>4. ASSUME NEW r \in Runs, RunStep(r) PROVE TypeInv'
  BY <1>4, RunStageType, RunFillType, RunPublishType, BeginType, CheckType, ReportType, RereadType,
     RecheckType, ReportFailedType, AttemptType, LaunchType, PopenType, SubprocessType, PipeClosesType,
     JudgeType, FinishType, RunCleanType DEF RunStep, ThreadStep
<1>5. ASSUME NEW r \in Runs, Tick(r) \/ OrphanExits(r) PROVE TypeInv'
  BY <1>5, TickType, OrphanExitsType
<1>6. CASE Crash
  BY <1>6, CrashType
<1>7. CASE UNCHANGED vars
  BY <1>7 DEF vars, registry, TypeInv, TypeOK, ClientShape, StartShape, Starting, Settling
<1> QED
  BY <1>1, <1>2, <1>3, <1>4, <1>5, <1>6, <1>7 DEF Next

LEMMA AlwaysTypeInv == Spec => []TypeInv
  BY InitTypeInv, NextTypeInv, PTL DEF Spec

\* The event loop and the threads never build an ill-formed record, run more
\* attempts than they may or reach for a document they do not have, whatever
\* the clients ask for, restarts, pruning and crashes included.
THEOREM TypeCorrect == Spec => []TypeOK
  BY AlwaysTypeInv, PTL DEF TypeInv

-----------------------------------------------------------------------------
(***************************************************************************)
(* Cancellation.  The dictionaries are keyed by task, a run finds its event*)
(* through them, and nothing ties the entry to the run: what keeps a set   *)
(* event findable is that a task has one live run, whose entries nobody    *)
(* but the run itself, or a loop that has seen it end, removes.  Restarts  *)
(* and pruning break that; without them it is an invariant.                *)
(***************************************************************************)

Quiet == "restart" \notin ClientOps /\ MaxAge < 2

\* A submitted run that is not over.
Open(r) == run[r].pc \in Threaded \cup {"queued"}

\* The record of a task outlives the run: a plain start will find it.
Recorded ==
    /\ \A r \in Runs : Open(r) => record[run[r].task] # NoRec
    /\ client.pc = "submit" => record[client.task] # NoRec

\* A run that is being started is the one the loop is starting.
StartsInLoop == \A r \in Runs : run[r].pc = "starting" => Starting /\ client.run = r

\* The task's entries lead to its open run.
EventFound == \A r \in Runs : Open(r) => events[run[r].task] = r
FutureFound ==
    \A r \in Runs : Open(r) =>
        \/ futures[run[r].task] = r
        \/ client.pc = "store" /\ client.run = r /\ client.task = run[r].task

\* Between submitting and storing the future, during a cancel, and before the
\* loop removes a task's entries, the loop knows the one run that may be open.
Storing == client.pc = "store"
Cancelling == client.pc = "withdraw" \/ Settling
Clearing ==
    \/ client.pc = "clean"
    \/ client.pc \in {"stage", "fill", "publish"} /\ client.then = "clean"
LoopKnows ==
    \A r \in Runs : Open(r) /\ run[r].task = client.task =>
        /\ Storing => r = client.run
        /\ Cancelling => r = client.run
        /\ Settling => ~client.settled
        /\ ~Clearing

\* A thread with a subprocess watches its own event, and only such a thread
\* has one, unless the server died.
Watches ==
    \A r \in Runs :
        /\ run[r].pc \in {"popen", "subprocess"} => run[r].watch = r
        /\ r \in alive => run[r].pc \in {"subprocess", "lost"}

NotRetired == \A r \in Runs : age[r] <= MaxAge

CancelInv ==
    /\ OneRunPerTask /\ Recorded /\ StartsInLoop
    /\ EventFound /\ FutureFound /\ LoopKnows
    /\ Watches /\ NotRetired

LEMMA InitCancelInv == Init => CancelInv
  BY NoneAssumption, AgeAssumption
     DEF Init, Fresh, Idle, CancelInv, OneRunPerTask, Live, Recorded, StartsInLoop, EventFound,
         FutureFound, LoopKnows, Watches, NotRetired, Open, Threaded, Starting, Storing,
         Cancelling, Settling, Clearing

LEMMA OpenIsLive == \A r \in Runs : Live(r) <=> Open(r) \/ run[r].pc = "starting"
  BY DEF Live, Open

LEMMA NothingPruned == ASSUME Quiet, TypeInv, NotRetired PROVE Pruned = record
<1>1. \A t \in Tasks : ~Retired(record[t])
  BY AgeAssumption DEF Quiet, NotRetired, Retired, TypeInv, TypeOK
<1> QED
  BY <1>1 DEF Pruned, TypeInv, TypeOK

-----------------------------------------------------------------------------
\* What every step of a thread but its last does to the invariant's variables.
Moves(r) ==
    /\ Open(r)
    /\ run'[r].task = run[r].task
    /\ run'[r].pc \in Threaded \cup {"ended"}
    /\ \A q \in Runs \ {r} : run'[q] = run[q]
    /\ client' = client /\ age' = age /\ events' = events /\ futures' = futures
    /\ \A t \in Tasks : record[t] # NoRec => record'[t] # NoRec
    /\ run'[r].pc = "popen" => run'[r].watch = events[run[r].task]
    /\ run'[r].pc = "subprocess" => run[r].pc = "popen" /\ run'[r].watch = run[r].watch
    /\ alive' \subseteq alive \cup {r}
    /\ r \in alive' => run'[r].pc = "subprocess" \/ r \in alive

LEMMA RunStepMoves ==
  ASSUME TypeInv, NEW r \in Runs, RunStep(r), ~RunClean(r)
  PROVE  Moves(r)
<1> DEFINE me == run[r]
<1>0. me \in RunState /\ run \in [Runs -> RunState]
  BY DEF TypeInv, TypeOK
<1>a. \A pc : Over(r, pc).task = me.task /\ Over(r, pc).pc = pc /\ Over(r, pc).watch = None
  BY DEF Over, Fresh
<1>b. \A doc, pc, err :
        /\ Persisting(r, doc, pc, err).task = me.task
        /\ Persisting(r, doc, pc, err).pc = "stage"
  BY <1>0 DEF Persisting, RunState
<1>1. CASE RunStage(r)
  BY <1>0, <1>1 DEF RunStage, RunIs, RunGoes, RunBecomes, registry, Moves, Open, Threaded,
                    RunState
<1>15. CASE RunFill(r)
  <2>1. \A t \in Tasks : record[t] # NoRec => record'[t] # NoRec
    BY <1>15, FillsType DEF RunFill, RunIs, TypeInv, RunShape
  <2> QED
    BY <1>0, <1>15, <2>1 DEF RunFill, RunIs, RunGoes, RunBecomes, registry, Moves, Open,
                             Threaded, RunState
<1>16. CASE PipeCloses(r)
  BY <1>0, <1>16 DEF PipeCloses, RunIs, RunGoes, RunBecomes, Moves, Open, Threaded, RunState
<1>2. CASE RunPublish(r)
  <2>1. PICK pc \in {me.then, me.fail} : RunBecomes(r, Resumed(r, pc))
    BY <1>2 DEF RunPublish
  <2>2. Resumed(r, pc).task = me.task /\ Resumed(r, pc).pc = pc
    BY <1>0, <1>a DEF Resumed, RunState
  <2>3. pc \in {"work", "attempt", "clean", "ended", "failed"}
    BY <1>0, <2>1 DEF RunState
  <2>4. \A t \in Tasks : record[t] # NoRec => record'[t] # NoRec
    BY <1>2 DEF RunPublish, Renames, TypeInv, TypeOK
  <2>5. Resumed(r, pc).pc # "popen" /\ Resumed(r, pc).pc # "subprocess"
    BY <2>2, <2>3
  <2> QED
    BY <1>0, <1>2, <2>1, <2>2, <2>3, <2>4, <2>5
       DEF RunPublish, RunIs, RunBecomes, registry, Moves, Open, Threaded
<1>3. CASE Begin(r)
  <2>1. run'[r].task = me.task /\ run'[r].pc \in {"check", "ended"}
    <3>1. CASE ~Readable(record[me.task])
      BY <1>0, <1>a, <1>3, <3>1 DEF Begin, RunBecomes
    <3>2. CASE Readable(record[me.task])
      BY <1>0, <1>3, <3>2 DEF Begin, RunBecomes, RunState
    <3> QED
      BY <3>1, <3>2
  <2>2. \A q \in Runs \ {r} : run'[q] = run[q]
    BY <1>0, <1>3 DEF Begin, RunBecomes
  <2> QED
    BY <1>3, <2>1, <2>2 DEF Begin, RunIs, registry, Moves, Open, Threaded
<1>4. CASE Check(r)
  <2>1. run'[r].task = me.task /\ run'[r].pc = "stage"
    <3>1. CASE CancelAsked(me.payload) \/ CancelSeen(me.task)
      BY <1>0, <1>b, <1>4, <3>1 DEF Check, RunBecomes
    <3>2. CASE ~(CancelAsked(me.payload) \/ CancelSeen(me.task))
      <4> DEFINE doc == Marked(me.payload, "running")
                 base == Persisting(r, doc, IF me.task \in Mutating THEN "attempt" ELSE "work",
                                    "ended")
      <4>1. base.task = me.task /\ base.pc = "stage"
        BY <1>b
      <4>2. base \in RunState
        <5>1. /\ me.payload \in Rec /\ me.task \in Tasks /\ me.attempt < MaxAttempts
          BY <1>4, AttemptsAssumption DEF Check, RunIs, TypeInv, TypeOK, RunShape, Threaded
        <5>2. doc \in Rec
          BY <5>1, DocTypes DEF Statuses
        <5> QED
          BY <5>1, <5>2, PersistingType
      <4>3. run'[r] = [base EXCEPT !.payload = doc]
        BY <1>0, <1>4, <3>2 DEF Check, RunBecomes
      <4> HIDE DEF base, doc
      <4> QED
        BY <4>1, <4>2, <4>3 DEF RunState
    <3> QED
      BY <3>1, <3>2
  <2> QED
    BY <1>0, <1>4, <2>1 DEF Check, RunIs, RunBecomes, registry, Moves, Open, Threaded
<1>5. CASE Report(r)
  <2>1. run'[r].task = me.task /\ run'[r].pc \in {"reread", "failed"}
    <3>1. CASE RunBecomes(r, [me EXCEPT !.pc = "reread", !.result = "ok"])
      BY <1>0, <3>1 DEF RunBecomes, RunState
    <3>2. CASE RunBecomes(r, [me EXCEPT !.pc = "failed", !.result = "failed"])
      BY <1>0, <3>2 DEF RunBecomes, RunState
    <3> QED
      BY <1>5, <3>1, <3>2 DEF Report
  <2>2. \A q \in Runs \ {r} : run'[q] = run[q]
    BY <1>0, <1>5 DEF Report, RunBecomes
  <2> QED
    BY <1>5, <2>1, <2>2 DEF Report, RunIs, registry, Moves, Open, Threaded
<1>6. CASE Reread(r)
  <2>1. run'[r].task = me.task /\ run'[r].pc \in {"failed", "recheck"}
    <3>1. CASE ~Readable(record[me.task])
      BY <1>0, <1>6, <3>1 DEF Reread, RunGoes, RunBecomes, RunState
    <3>2. CASE Readable(record[me.task])
      BY <1>0, <1>6, <3>2 DEF Reread, RunGoes, RunBecomes, RunState
    <3> QED
      BY <3>1, <3>2
  <2>2. \A q \in Runs \ {r} : run'[q] = run[q]
    BY <1>0, <1>6 DEF Reread, RunGoes, RunBecomes
  <2> QED
    BY <1>6, <2>1, <2>2 DEF Reread, RunIs, registry, Moves, Open, Threaded
<1>7. CASE Recheck(r)
  <2>1. run'[r].task = me.task /\ run'[r].pc = "stage"
    BY <1>0, <1>7 DEF Recheck, RunBecomes, Persisting, RunState
  <2> QED
    BY <1>0, <1>7, <2>1 DEF Recheck, RunIs, RunBecomes, registry, Moves, Open, Threaded
<1>8. CASE ReportFailed(r)
  BY <1>0, <1>b, <1>8 DEF ReportFailed, RunIs, RunBecomes, registry, Moves, Open, Threaded
<1>9. CASE Attempt(r)
  BY <1>0, <1>9 DEF Attempt, RunIs, RunBecomes, registry, Moves, Open, Threaded, RunState
<1>10. CASE Launch(r)
  <2>1. /\ run'[r].task = me.task /\ run'[r].pc \in {"judge", "popen"}
        /\ run'[r].pc = "popen" => run'[r].watch = events[me.task]
    <3>1. CASE \E res \in {"failed", "transient"} :
                 RunBecomes(r, [run[r] EXCEPT !.pc = "judge", !.result = res])
      BY <1>0, <3>1 DEF RunBecomes, RunState
    <3>2. CASE RunBecomes(r, [run[r] EXCEPT !.pc = "popen", !.watch = events[run[r].task]])
      BY <1>0, <3>2 DEF RunBecomes, RunState
    <3> QED
      BY <1>10, <3>1, <3>2 DEF Launch
  <2>2. \A q \in Runs \ {r} : run'[q] = run[q]
    BY <1>0, <1>10 DEF Launch, RunBecomes
  <2> QED
    BY <1>10, <2>1, <2>2 DEF Launch, RunIs, registry, Moves, Open, Threaded
<1>11. CASE Popen(r)
  BY <1>0, <1>11 DEF Popen, RunIs, RunGoes, RunBecomes, Moves, Open, Threaded, RunState
<1>12. CASE Subprocess(r)
  BY <1>0, <1>12 DEF Subprocess, RunIs, RunBecomes, Moves, Open, Threaded, RunState
<1>13. CASE Judge(r)
  BY <1>0, <1>13 DEF Judge, RunIs, RunBecomes, registry, Moves, Open, Threaded, RunState
<1>14. CASE Finish(r)
  BY <1>0, <1>b, <1>14 DEF Finish, RunIs, RunBecomes, registry, Moves, Open, Threaded
<1> QED
  BY <1>1, <1>2, <1>3, <1>4, <1>5, <1>6, <1>7, <1>8, <1>9, <1>10, <1>11, <1>12, <1>13, <1>14,
     <1>15, <1>16
     DEF RunStep, ThreadStep

LEMMA MovesCancelInv ==
  ASSUME TypeInv, CancelInv, NEW r \in Runs, Moves(r), r \in alive' => run'[r].pc = "subprocess"
  PROVE  CancelInv'
<1>1. \A q \in Runs : /\ Open(q)' => Open(q)
                      /\ Live(q)' => Live(q)
                      /\ run'[q].task = run[q].task
                      /\ run'[q].pc = "starting" => run[q].pc = "starting"
  BY DEF Moves, Open, Live, Threaded
<1>2. \A q \in Runs : Open(q) => run[q].task \in Tasks
  BY DEF Open, Threaded, TypeInv, RunShape
<1>3. OneRunPerTask'
  BY <1>1 DEF CancelInv, OneRunPerTask
<1>4. Recorded'
  <2>1. client.pc = "submit" => client.task \in Tasks
    BY DEF TypeInv, ClientShape
  <2> QED
    BY <1>1, <1>2, <2>1 DEF CancelInv, Recorded, Moves
<1>5. StartsInLoop'
  BY <1>1 DEF CancelInv, StartsInLoop, Starting, Moves
<1>6. EventFound' /\ FutureFound'
  BY <1>1 DEF CancelInv, EventFound, FutureFound, Moves
<1>7. LoopKnows'
  BY <1>1 DEF CancelInv, LoopKnows, Storing, Cancelling, Settling, Clearing, Moves
<1>8. Watches'
  <2>1. run'[r].pc \in {"popen", "subprocess"} => run'[r].watch = r
    BY DEF CancelInv, Watches, EventFound, Moves
  <2> QED
    BY <2>1 DEF CancelInv, Watches, Moves
<1>9. NotRetired'
  BY DEF CancelInv, NotRetired, Moves
<1> QED
  BY <1>3, <1>4, <1>5, <1>6, <1>7, <1>8, <1>9 DEF CancelInv

LEMMA RunCleanCancelInv ==
  ASSUME TypeInv, CancelInv, NEW r \in Runs, RunClean(r)
  PROVE  CancelInv'
<1>1. /\ run[r].pc = "clean" /\ run'[r].pc = "ended" /\ run'[r].task = run[r].task
      /\ \A q \in Runs \ {r} : run'[q] = run[q]
  BY DEF RunClean, RunIs, RunBecomes, Over, Fresh, TypeInv, TypeOK
<1>2. \A q \in Runs : /\ Open(q)' => Open(q) /\ q # r
                      /\ Live(q)' => Live(q) /\ q # r
                      /\ run'[q].task = run[q].task
                      /\ run'[q].pc = "starting" => run[q].pc = "starting"
  BY <1>1 DEF Open, Live, Threaded
<1>3. \A q \in Runs : Open(q)' => run[q].task # run[r].task /\ run[q].task \in Tasks
  BY <1>1, <1>2, OpenIsLive
     DEF CancelInv, OneRunPerTask, Open, Live, Threaded, TypeInv, RunShape
<1>4. \A t \in Tasks : t # run[r].task => events'[t] = events[t] /\ futures'[t] = futures[t]
  BY DEF RunClean, CleanupRuntime, TypeInv, TypeOK
<1>5. OneRunPerTask' /\ StartsInLoop' /\ NotRetired'
  BY <1>2 DEF RunClean, CancelInv, OneRunPerTask, StartsInLoop, Starting, NotRetired
<1>6. Recorded'
  BY <1>2 DEF RunClean, CancelInv, Recorded
<1>7. EventFound' /\ FutureFound'
  BY <1>2, <1>3, <1>4 DEF RunClean, CancelInv, EventFound, FutureFound
<1>8. LoopKnows'
  BY <1>2 DEF RunClean, CancelInv, LoopKnows, Storing, Cancelling, Settling, Clearing
<1>9. Watches'
  BY <1>1 DEF RunClean, CancelInv, Watches
<1> QED
  BY <1>5, <1>6, <1>7, <1>8, <1>9 DEF CancelInv

LEMMA RunStepCancelInv ==
  ASSUME TypeInv, CancelInv, NEW r \in Runs, RunStep(r)
  PROVE  CancelInv'
<1>1. CASE RunClean(r)
  BY <1>1, RunCleanCancelInv
<1>2. CASE ~RunClean(r)
  <2>1. Moves(r)
    BY <1>2, RunStepMoves
  <2>2. ASSUME r \in alive' PROVE run'[r].pc = "subprocess"
    <3>1. CASE Subprocess(r)
      BY <2>2, <3>1 DEF Subprocess
    <3>2. CASE Popen(r)
      BY <3>2 DEF Popen, RunGoes, RunBecomes, TypeInv, TypeOK, RunState
    <3>3. CASE ~Subprocess(r) /\ ~Popen(r)
      <4>1. alive' = alive /\ run[r].pc \notin {"subprocess", "lost"}
        BY <1>2, <3>3
           DEF RunStep, ThreadStep, RunIs, RunStage, RunFill, RunPublish, Begin, Check,
               Report, Reread, Recheck, ReportFailed, Attempt, Launch, PipeCloses, Judge,
               Finish
      <4> QED
        BY <2>2, <4>1 DEF CancelInv, Watches
    <3> QED
      BY <3>1, <3>2, <3>3
  <2> QED
    BY <2>1, <2>2, MovesCancelInv
<1> QED
  BY <1>1, <1>2

-----------------------------------------------------------------------------
\* Steps of the event loop that leave the runs and the dictionaries alone.
LEMMA LoopStepCancelInv ==
  ASSUME TypeInv, CancelInv, UNCHANGED <<run, events, futures, age>>, alive' \subseteq alive,
         \A t \in Tasks : record[t] # NoRec => record'[t] # NoRec,
         client.pc # "store",
         Starting => Starting' /\ client'.run = client.run,
         client'.pc = "submit" => record'[client'.task] # NoRec,
         LoopKnows'
  PROVE  CancelInv'
<1>1. \A q \in Runs : /\ Open(q)' <=> Open(q)
                      /\ Live(q)' <=> Live(q)
  BY DEF Open, Live
<1>2. \A q \in Runs : Open(q) => run[q].task \in Tasks
  BY DEF Open, Threaded, TypeInv, RunShape
<1>3. OneRunPerTask' /\ Recorded'
  BY <1>1, <1>2 DEF CancelInv, OneRunPerTask, Recorded
<1>4. StartsInLoop'
  BY DEF CancelInv, StartsInLoop
<1>5. EventFound' /\ FutureFound'
  BY <1>1 DEF CancelInv, EventFound, FutureFound
<1>6. Watches' /\ NotRetired'
  BY DEF CancelInv, Watches, NotRetired
<1> QED
  BY <1>3, <1>4, <1>5, <1>6 DEF CancelInv

\* Where the loop knows nothing about open runs.
Carefree ==
    /\ client.pc \notin {"store", "withdraw", "kill", "settle", "clean"}
    /\ client.pc \in {"stage", "fill", "publish"} => client.then \notin {"settle", "clean"}

LEMMA CarefreeLoop == Carefree => LoopKnows
  BY DEF Carefree, LoopKnows, Storing, Cancelling, Settling, Clearing

LEMMA CarefreeStep ==
  ASSUME TypeInv, CancelInv, UNCHANGED <<record, run, events, futures, alive, age>>,
         client.pc # "store", ~Starting, client'.pc # "submit", Carefree'
  PROVE  CancelInv'
<1>1. LoopKnows'
  BY CarefreeLoop, PTL
<1> QED
  BY <1>1, LoopStepCancelInv

LEMMA ReadsCarefree ==
  /\ \A t : ClientReads(t) => Carefree' /\ client'.pc # "submit"
  /\ client' = Idle => Carefree' /\ client'.pc # "submit"
<1>1. ASSUME NEW t, ClientReads(t) PROVE client'.pc = "read"
  BY <1>1 DEF ClientReads, Idle
<1>2. ASSUME client' = Idle PROVE client'.pc = "idle"
  BY <1>2 DEF Idle
<1> QED
  BY <1>1, <1>2 DEF Carefree

LEMMA ClientStageCancelInv == ASSUME TypeInv, CancelInv, ClientStage PROVE CancelInv'
<1>1. /\ client.pc = "stage" /\ client'.pc = "fill" /\ client'.then = client.then
      /\ client'.task = client.task /\ client'.run = client.run
      /\ client'.settled = client.settled
  BY DEF ClientStage, ClientIs, ClientGoes, TypeInv, TypeOK, ClientState
<1>2. LoopKnows'
  BY <1>1 DEF ClientStage, CancelInv, LoopKnows, Storing, Cancelling, Settling, Clearing, Open
<1> QED
  BY <1>1, <1>2, LoopStepCancelInv DEF ClientStage, registry, Starting

LEMMA ClientFillCancelInv == ASSUME TypeInv, CancelInv, ClientFill PROVE CancelInv'
<1>1. /\ client.pc = "fill" /\ client'.pc = "publish" /\ client'.then = client.then
      /\ client'.task = client.task /\ client'.run = client.run
      /\ client'.settled = client.settled
  BY DEF ClientFill, ClientIs, ClientGoes, TypeInv, TypeOK, ClientState
<1>2. LoopKnows'
  BY <1>1 DEF ClientFill, CancelInv, LoopKnows, Storing, Cancelling, Settling, Clearing, Open
<1>3. \A t \in Tasks : record[t] # NoRec => record'[t] # NoRec
  BY FillsType DEF ClientFill, ClientIs, TypeInv, ClientShape
<1> QED
  BY <1>1, <1>2, <1>3, LoopStepCancelInv DEF ClientFill, registry, Starting

LEMMA ClientPublishCancelInv == ASSUME TypeInv, CancelInv, ClientPublish PROVE CancelInv'
<1>0. /\ client.pc = "publish" /\ client.task \in Tasks /\ client.then \in ClientThen
      /\ client \in ClientState
  BY DEF ClientPublish, ClientIs, TypeInv, TypeOK, ClientShape
<1>1. CASE staged[client.task] = NoRec /\ client.then = "submit"
  <2> DEFINE r == client.run
  <2>1. r \in Runs /\ run[r].pc = "starting"
    BY <1>0, <1>1 DEF TypeInv, StartShape, Starting
  <2>2. /\ run'[r].pc = "lost" /\ \A q \in Runs \ {r} : run'[q] = run[q]
        /\ UNCHANGED <<record, events, futures, alive, age>> /\ client' = Idle
    BY <1>1, <2>1 DEF ClientPublish, registry, TypeInv, TypeOK, RunState
  <2>3. \A q \in Runs : /\ Open(q)' => Open(q) /\ q # r
                        /\ Live(q)' => Live(q) /\ q # r
                        /\ run'[q].pc # "starting"
    BY <2>1, <2>2 DEF Open, Live, Threaded, CancelInv, StartsInLoop
  <2>4. OneRunPerTask' /\ StartsInLoop' /\ NotRetired'
    BY <2>2, <2>3 DEF CancelInv, OneRunPerTask, StartsInLoop, NotRetired
  <2>5. Recorded' /\ EventFound' /\ FutureFound'
    BY <1>0, <2>2, <2>3 DEF CancelInv, Recorded, EventFound, FutureFound, Idle
  <2>6. LoopKnows'
    BY <2>2 DEF LoopKnows, Storing, Cancelling, Settling, Clearing, Idle
  <2>7. Watches'
    BY <2>1, <2>2 DEF CancelInv, Watches
  <2> QED
    BY <2>4, <2>5, <2>6, <2>7 DEF CancelInv
<1>2. CASE staged[client.task] = NoRec /\ client.then # "submit"
  <2>1. client' = Idle /\ UNCHANGED <<record, run, events, futures, alive, age>>
    BY <1>2 DEF ClientPublish, registry
  <2> QED
    BY <1>0, <1>2, <2>1, ReadsCarefree, CarefreeStep DEF Starting
<1>3. CASE staged[client.task] # NoRec
  <2>1. /\ record' = [record EXCEPT ![client.task] = staged[client.task]]
        /\ UNCHANGED <<run, events, futures, alive, age>>
    BY <1>3 DEF ClientPublish, Renames, registry
  <2>2. CASE client.then = "idle"
    <3>1. client' = Idle
      BY <1>3, <2>2 DEF ClientPublish
    <3>2. LoopKnows'
      BY <3>1 DEF LoopKnows, Storing, Cancelling, Settling, Clearing, Idle
    <3> QED
      BY <1>0, <1>3, <2>1, <2>2, <3>1, <3>2, LoopStepCancelInv
         DEF Starting, Idle, TypeInv, TypeOK
  <2>3. CASE client.then # "idle"
    <3>1. /\ client'.pc = client.then /\ client'.then = "idle" /\ client'.task = client.task
          /\ client'.run = client.run /\ client'.settled = client.settled
      BY <1>0, <1>3, <2>3 DEF ClientPublish, ClientState
    <3>2. LoopKnows'
      BY <1>0, <2>1, <3>1
         DEF CancelInv, LoopKnows, Storing, Cancelling, Settling, Clearing, Open, ClientThen
    <3> QED
      BY <1>0, <1>3, <2>1, <3>1, <3>2, LoopStepCancelInv DEF Starting, TypeInv, TypeOK
  <2> QED
    BY <2>2, <2>3
<1> QED
  BY <1>1, <1>2, <1>3

LEMMA QuietStartExisting ==
  ASSUME Quiet, TypeInv, CancelInv, NEW t \in Tasks, StartExisting(t) PROVE CancelInv'
<1>1. record' = record
  BY NothingPruned DEF StartExisting, Prune, CancelInv
<1> QED
  BY <1>1, ReadsCarefree, CarefreeStep DEF StartExisting, ClientIs, Starting, registry

LEMMA StatusOpCancelInv ==
  ASSUME TypeInv, CancelInv, NEW t \in Tasks, StatusOp(t) PROVE CancelInv'
  BY ReadsCarefree, CarefreeStep DEF StatusOp, ClientIs, Starting, registry

\* A new run, where no run of the task is open: it would have a record.
LEMMA QuietStartNew ==
  ASSUME Quiet, TypeInv, CancelInv, NEW t \in Tasks, NEW r \in Runs, StartNew(t, r)
  PROVE  CancelInv'
<1>1. /\ client.pc = "idle" /\ run[r].pc = "unused" /\ record' = record /\ record[t] = NoRec
      /\ UNCHANGED <<events, futures, alive, age>>
  BY NothingPruned DEF StartNew, Prune, Quiet, ClientIs, registry, CancelInv
<1>2. /\ client'.pc = "stage" /\ client'.then = "submit" /\ client'.run = r
  BY DEF StartNew, Idle
<1>3. /\ run'[r].pc = "starting" /\ run'[r].task = t
      /\ \A q \in Runs \ {r} : run'[q] = run[q]
  BY DEF StartNew, TypeInv, TypeOK, RunState
<1>4. \A q \in Runs : run[q].pc # "starting"
  BY <1>1 DEF CancelInv, StartsInLoop, Starting
<1>5. \A q \in Runs : /\ Open(q)' => Open(q) /\ q # r /\ run'[q] = run[q] /\ run[q].task # t
                      /\ Live(q)' => Open(q)' \/ q = r
  BY <1>1, <1>3, <1>4 DEF CancelInv, Recorded, Open, Live, Threaded
<1>6. OneRunPerTask'
  BY <1>3, <1>5 DEF CancelInv, OneRunPerTask, Open, Live
<1>7. Recorded' /\ EventFound' /\ FutureFound'
  BY <1>1, <1>2, <1>5 DEF CancelInv, Recorded, EventFound, FutureFound
<1>8. StartsInLoop'
  BY <1>2, <1>3, <1>4 DEF StartsInLoop, Starting
<1>9. LoopKnows'
  BY <1>2 DEF LoopKnows, Storing, Cancelling, Settling, Clearing
<1>10. Watches' /\ NotRetired'
  BY <1>1, <1>3 DEF CancelInv, Watches, NotRetired
<1> QED
  BY <1>6, <1>7, <1>8, <1>9, <1>10 DEF CancelInv

LEMMA SubmitCancelInv == ASSUME TypeInv, CancelInv, Submit PROVE CancelInv'
<1> DEFINE r == client.run
           t == client.task
<1>1. /\ client.pc = "submit" /\ r \in Runs /\ t \in Tasks
      /\ run[r].pc = "starting" /\ run[r].task = t
  BY DEF Submit, ClientIs, TypeInv, StartShape, Starting, ClientShape
<1>2. /\ run'[r].pc = "queued" /\ run'[r].task = t /\ \A q \in Runs \ {r} : run'[q] = run[q]
      /\ UNCHANGED <<record, futures, alive, age>>
      /\ events'[t] = r /\ \A u \in Tasks \ {t} : events'[u] = events[u]
      /\ client'.pc = "store" /\ client'.run = r /\ client'.task = t
  BY <1>1 DEF Submit, ClientGoes, TypeInv, TypeOK, RunState, ClientState
<1>3. \A q \in Runs \ {r} :
        /\ Live(q)' => Live(q) /\ run[q].task # t
        /\ Open(q)' => Open(q) /\ run[q].task \in Tasks \ {t}
        /\ run'[q].pc # "starting"
  BY <1>1, <1>2
     DEF CancelInv, OneRunPerTask, StartsInLoop, Open, Live, Threaded, TypeInv, RunShape
<1>4. OneRunPerTask'
  BY <1>1, <1>2, <1>3 DEF CancelInv, OneRunPerTask
<1>5. StartsInLoop'
  BY <1>2, <1>3 DEF StartsInLoop
<1>6. Recorded'
  BY <1>1, <1>2, <1>3 DEF CancelInv, Recorded
<1>7. EventFound' /\ FutureFound'
  BY <1>1, <1>2, <1>3 DEF CancelInv, EventFound, FutureFound
<1>8. LoopKnows'
  BY <1>2, <1>3 DEF LoopKnows, Storing, Cancelling, Settling, Clearing
<1>9. Watches' /\ NotRetired'
  BY <1>1, <1>2 DEF CancelInv, Watches, NotRetired
<1> QED
  BY <1>4, <1>5, <1>6, <1>7, <1>8, <1>9 DEF CancelInv

LEMMA StoreFutureCancelInv == ASSUME TypeInv, CancelInv, StoreFuture PROVE CancelInv'
<1>1. /\ client.pc = "store" /\ client.task \in Tasks /\ client'.pc = "read"
      /\ UNCHANGED <<record, events, run, alive, age>>
      /\ futures' = [futures EXCEPT ![client.task] = client.run]
  BY DEF StoreFuture, ClientIs, ClientReads, Idle, TypeInv, ClientShape
<1>2. \A r \in Runs : /\ Open(r)' <=> Open(r)
                      /\ Live(r)' <=> Live(r)
                      /\ Open(r) => run[r].task \in Tasks
  BY <1>1 DEF Open, Live, Threaded, TypeInv, RunShape
<1>3. FutureFound'
  <2>1. \A r \in Runs : Open(r) /\ run[r].task = client.task => r = client.run
    BY <1>1 DEF CancelInv, LoopKnows, Storing
  <2> QED
    BY <1>1, <1>2, <2>1 DEF CancelInv, FutureFound, TypeInv, TypeOK
<1>4. LoopKnows'
  BY <1>1 DEF LoopKnows, Storing, Cancelling, Settling, Clearing
<1>5. OneRunPerTask' /\ Recorded' /\ EventFound'
  BY <1>1, <1>2 DEF CancelInv, OneRunPerTask, Recorded, EventFound
<1>6. StartsInLoop' /\ Watches' /\ NotRetired'
  BY <1>1 DEF CancelInv, StartsInLoop, Starting, Watches, NotRetired
<1> QED
  BY <1>3, <1>4, <1>5, <1>6 DEF CancelInv

\* The calls that go on to persist something none of the loop's knowledge is about.
LEMMA PersistCarefree ==
  ASSUME TypeInv, NEW doc, NEW pc \in {"result", "idle", "read"}, ClientPersists(doc, pc)
  PROVE  Carefree' /\ client'.pc # "submit"
<1>1. client'.pc = "stage" /\ client'.then = pc
  BY DEF ClientPersists, TypeInv, TypeOK, ClientState
<1> QED
  BY <1>1 DEF Carefree

LEMMA ReadStatusCancelInv == ASSUME TypeInv, CancelInv, ReadStatus PROVE CancelInv'
<1> DEFINE p == record[client.task]
<1>1. Carefree' /\ client'.pc # "submit"
  <2>1. CASE ~Readable(p)
    BY <2>1, ReadsCarefree DEF ReadStatus
  <2>2. CASE Readable(p) /\ p.status \notin Final /\ Aged(p)
    <3>1. ClientPersists(Marked(p, "expired"), "result")
      BY <2>2 DEF ReadStatus
    <3> QED
      BY <3>1, PersistCarefree
  <2>3. CASE Readable(p) /\ ~(p.status \notin Final /\ Aged(p))
    <3>1. client'.pc = "result"
      BY <2>3 DEF ReadStatus, TypeInv, TypeOK, ClientState
    <3> QED
      BY <3>1 DEF Carefree
  <2> QED
    BY <2>1, <2>2, <2>3
<1> QED
  BY <1>1, CarefreeStep DEF ReadStatus, ClientIs, Starting, registry

LEMMA ResultExpiryCancelInv == ASSUME TypeInv, CancelInv, ResultExpiry PROVE CancelInv'
<1>1. Carefree' /\ client'.pc # "submit"
  BY ReadsCarefree, PersistCarefree DEF ResultExpiry
<1> QED
  BY <1>1, CarefreeStep DEF ResultExpiry, ClientIs, Starting, registry

LEMMA CancelOpCancelInv ==
  ASSUME TypeInv, CancelInv, NEW t \in Tasks, CancelOp(t) PROVE CancelInv'
<1> DEFINE p == record[t]
           c == [Idle EXCEPT !.task = t, !.doc = p]
<1>1. \/ client' = [c EXCEPT !.pc = "stage", !.doc = Marked(p, "expired"), !.then = "ignore"]
      \/ \E pc \in {"signal", "read", "ignore"} : client' = [c EXCEPT !.pc = pc]
  <2>1. p.status \in Final \/ Aged(p) \/ ~Aged(p)
    OBVIOUS
  <2> QED
    BY <2>1 DEF CancelOp
<1>2. Carefree' /\ client'.pc # "submit"
  BY <1>1 DEF Carefree, Idle
<1> QED
  BY <1>2, CarefreeStep DEF CancelOp, ClientIs, Starting, registry

LEMMA IgnoreCancelCancelInv == ASSUME TypeInv, CancelInv, IgnoreCancel PROVE CancelInv'
  BY PersistCarefree, CarefreeStep DEF IgnoreCancel, ClientIs, Starting, registry

-----------------------------------------------------------------------------
\* A cancel: the event and the future it finds are those of the open run.
LEMMA SignalCancelInv == ASSUME TypeInv, CancelInv, Signal PROVE CancelInv'
<1> DEFINE t == client.task
<1>1. /\ client.pc = "signal" /\ t \in Tasks
      /\ client'.pc = "withdraw" /\ client'.run = futures[t] /\ client'.task = t
      /\ UNCHANGED <<record, futures, run, alive, age>>
  BY DEF Signal, ClientIs, TypeInv, TypeOK, ClientState, ClientShape
<1>2. \A r \in Runs : /\ Open(r)' <=> Open(r)
                      /\ Live(r)' <=> Live(r)
                      /\ Open(r) => run[r].task \in Tasks
  BY <1>1 DEF Open, Live, Threaded, TypeInv, RunShape
<1>3. EventFound'
  <2>1. \A u \in Tasks : events[u] # None => events'[u] = events[u]
    BY <1>1 DEF Signal, TypeInv, TypeOK
  <2> QED
    BY <1>1, <1>2, <2>1, NoneAssumption DEF CancelInv, EventFound
<1>4. LoopKnows'
  BY <1>1, <1>2
     DEF CancelInv, FutureFound, LoopKnows, Storing, Cancelling, Settling, Clearing
<1>5. OneRunPerTask' /\ Recorded' /\ FutureFound'
  BY <1>1, <1>2 DEF CancelInv, OneRunPerTask, Recorded, FutureFound
<1>6. StartsInLoop' /\ Watches' /\ NotRetired'
  BY <1>1 DEF CancelInv, StartsInLoop, Starting, Watches, NotRetired
<1> QED
  BY <1>3, <1>4, <1>5, <1>6 DEF CancelInv

LEMMA WithdrawFutureCancelInv == ASSUME TypeInv, CancelInv, WithdrawFuture PROVE CancelInv'
<1> DEFINE f == client.run
           taken == f # None /\ run[f].pc \in {"queued", "withdrawn"}
<1>1. /\ client.pc = "withdraw" /\ f \in Runs \cup {None}
      /\ client'.pc = "kill" /\ client'.run = f /\ client'.task = client.task
      /\ client'.settled = (taken \/ f = None)
      /\ UNCHANGED <<record, events, futures, alive, age>>
  BY DEF WithdrawFuture, ClientIs, registry, TypeInv, TypeOK, ClientState
<1>2. \A q \in Runs :
        /\ run'[q].task = run[q].task /\ run'[q].watch = run[q].watch
        /\ IF taken /\ q = f
           THEN run'[q].pc = "withdrawn" /\ run[q].pc \in {"queued", "withdrawn"}
           ELSE run'[q].pc = run[q].pc
  BY <1>1 DEF WithdrawFuture, TypeInv, TypeOK, RunState
<1>3. \A q \in Runs : /\ Open(q)' => Open(q) /\ ~(taken /\ q = f)
                      /\ Live(q)' => Live(q)
  BY <1>2 DEF Open, Live, Threaded
<1>4. OneRunPerTask' /\ Recorded' /\ StartsInLoop'
  BY <1>1, <1>2, <1>3 DEF CancelInv, OneRunPerTask, Recorded, StartsInLoop, Starting
<1>5. EventFound' /\ FutureFound'
  BY <1>1, <1>2, <1>3 DEF CancelInv, EventFound, FutureFound
<1>6. LoopKnows'
  <2>1. \A r \in Runs : Open(r)' /\ run'[r].task = client.task => r = f /\ ~taken
    BY <1>1, <1>2, <1>3 DEF CancelInv, LoopKnows, Cancelling
  <2> QED
    BY <1>1, <2>1, NoneAssumption DEF LoopKnows, Storing, Cancelling, Settling, Clearing
<1>7. Watches' /\ NotRetired'
  BY <1>1, <1>2 DEF CancelInv, Watches, NotRetired
<1> QED
  BY <1>4, <1>5, <1>6, <1>7 DEF CancelInv

LEMMA SignalProcessCancelInv == ASSUME TypeInv, CancelInv, SignalProcess PROVE CancelInv'
<1>1. /\ client.pc = "kill" /\ client'.pc = "stage" /\ client'.then = "settle"
      /\ client'.task = client.task /\ client'.run = client.run
      /\ client'.settled = client.settled
      /\ alive' \subseteq alive /\ UNCHANGED <<record, run, events, futures, age>>
  BY DEF SignalProcess, ClientIs, ClientPersists, registry, TypeInv, TypeOK, ClientState
<1>2. LoopKnows'
  BY <1>1 DEF CancelInv, LoopKnows, Storing, Cancelling, Settling, Clearing, Open
<1> QED
  BY <1>1, <1>2, LoopStepCancelInv DEF Starting

\* The loop clears a task's entries only when it has seen its run end.
LEMMA SettleCancelInv == ASSUME TypeInv, CancelInv, Settle PROVE CancelInv'
<1> DEFINE p == record[client.task]
           over == client.settled \/ run[client.run].pc \in Done
<1>1. client.pc = "settle" /\ UNCHANGED <<record, run, events, futures, alive, age>>
  BY DEF Settle, ClientIs, registry
<1>2. CASE over /\ Readable(p) /\ p.status \notin Final
  <2>1. ClientPersists(Cancelled(p), "clean")
    BY <1>2 DEF Settle
  <2>2. client'.pc = "stage" /\ client'.then = "clean" /\ client'.task = client.task
    BY <2>1 DEF ClientPersists, TypeInv, TypeOK, ClientState
  <2>3. \A r \in Runs : Open(r) => run[r].task # client.task
    BY <1>1, <1>2 DEF CancelInv, LoopKnows, Cancelling, Settling, Open, Threaded, Done
  <2>4. LoopKnows'
    BY <1>1, <2>2, <2>3 DEF LoopKnows, Open
  <2> QED
    BY <1>1, <2>2, <2>4, LoopStepCancelInv DEF Starting
<1>3. CASE ~(over /\ Readable(p) /\ p.status \notin Final)
  <2>1. ClientReads(client.task) \/ client' = Idle
    BY <1>3 DEF Settle
  <2> QED
    BY <1>1, <2>1, ReadsCarefree, CarefreeStep DEF Starting
<1> QED
  BY <1>2, <1>3

LEMMA ClientCleanCancelInv == ASSUME TypeInv, CancelInv, ClientClean PROVE CancelInv'
<1>1. /\ client.pc = "clean" /\ client.task \in Tasks /\ client'.pc = "read"
      /\ UNCHANGED <<record, run, alive, age>>
  BY DEF ClientClean, ClientIs, ClientReads, Idle, TypeInv, ClientShape
<1>2. \A r \in Runs : /\ Open(r)' <=> Open(r)
                      /\ Live(r)' <=> Live(r)
                      /\ Open(r) => run[r].task \in Tasks /\ run[r].task # client.task
  BY <1>1 DEF Open, Live, Threaded, TypeInv, RunShape, CancelInv, LoopKnows, Clearing
<1>3. \A u \in Tasks : u # client.task => events'[u] = events[u] /\ futures'[u] = futures[u]
  BY DEF ClientClean, CleanupRuntime, TypeInv, TypeOK
<1>4. EventFound' /\ FutureFound'
  BY <1>1, <1>2, <1>3 DEF CancelInv, EventFound, FutureFound
<1>5. LoopKnows'
  BY <1>1 DEF LoopKnows, Storing, Cancelling, Settling, Clearing
<1>6. OneRunPerTask' /\ Recorded'
  BY <1>1, <1>2 DEF CancelInv, OneRunPerTask, Recorded
<1>7. StartsInLoop' /\ Watches' /\ NotRetired'
  BY <1>1 DEF CancelInv, StartsInLoop, Starting, Watches, NotRetired
<1> QED
  BY <1>4, <1>5, <1>6, <1>7 DEF CancelInv

\* Steps that leave everything the invariant speaks of but alive and age alone.
LEMMA IdleFrame ==
  ASSUME CancelInv, UNCHANGED <<record, registry, run, client>>, alive' \subseteq alive,
         NotRetired'
  PROVE  CancelInv'
<1>1. OneRunPerTask' /\ Recorded' /\ StartsInLoop'
  BY DEF CancelInv, OneRunPerTask, Live, Recorded, Open, StartsInLoop, Starting
<1>2. EventFound' /\ FutureFound' /\ LoopKnows'
  BY DEF CancelInv, EventFound, FutureFound, LoopKnows, Open, Storing, Cancelling, Settling,
         Clearing, registry
<1>3. Watches'
  BY DEF CancelInv, Watches
<1> QED
  BY <1>1, <1>2, <1>3 DEF CancelInv

LEMMA TickCancelInv == ASSUME TypeInv, CancelInv, NEW r \in Runs, Tick(r) PROVE CancelInv'
<1>1. NotRetired'
  BY AgeAssumption DEF Tick, CancelInv, NotRetired, TypeInv, TypeOK
<1> QED
  BY <1>1, IdleFrame DEF Tick

LEMMA OrphanExitsCancelInv ==
  ASSUME TypeInv, CancelInv, NEW r \in Runs, OrphanExits(r) PROVE CancelInv'
<1>1. NotRetired'
  BY DEF OrphanExits, CancelInv, NotRetired
<1> QED
  BY <1>1, IdleFrame DEF OrphanExits

LEMMA CrashCancelInv == ASSUME TypeInv, CancelInv, Crash PROVE CancelInv'
<1>1. \A r \in Runs : /\ run'[r].pc \in {"unused", "ended", "withdrawn", "lost"}
                      /\ run[r].pc \in {"subprocess", "lost"} => run'[r].pc = "lost"
  BY DEF Crash, Over, Fresh
<1>2. \A r \in Runs : ~Open(r)' /\ ~Live(r)' /\ run'[r].pc # "starting"
  BY <1>1 DEF Open, Live, Threaded
<1>3. client'.pc = "idle" /\ UNCHANGED <<alive, age>>
  BY DEF Crash, Idle
<1>4. OneRunPerTask' /\ Recorded' /\ StartsInLoop' /\ EventFound' /\ FutureFound' /\ LoopKnows'
  BY <1>2, <1>3 DEF OneRunPerTask, Recorded, StartsInLoop, EventFound, FutureFound, LoopKnows
<1>5. Watches' /\ NotRetired'
  BY <1>1, <1>3 DEF CancelInv, Watches, NotRetired
<1> QED
  BY <1>4, <1>5 DEF CancelInv

LEMMA NextCancelInv == ASSUME Quiet PROVE TypeInv /\ CancelInv /\ [Next]_vars => CancelInv'
<1> SUFFICES ASSUME TypeInv, CancelInv, [Next]_vars PROVE CancelInv'
  OBVIOUS
<1>1. ASSUME NEW t \in Tasks, StartExisting(t) \/ StatusOp(t) \/ CancelOp(t) PROVE CancelInv'
  BY <1>1, QuietStartExisting, StatusOpCancelInv, CancelOpCancelInv
<1>2. ASSUME NEW t \in Tasks, NEW r \in Runs, StartNew(t, r) PROVE CancelInv'
  BY <1>2, QuietStartNew
<1>3. CASE ClientStep
  BY <1>3, ClientStageCancelInv, ClientFillCancelInv, ClientPublishCancelInv,
     SubmitCancelInv, StoreFutureCancelInv, ReadStatusCancelInv, ResultExpiryCancelInv,
     IgnoreCancelCancelInv, SignalCancelInv, WithdrawFutureCancelInv,
     SignalProcessCancelInv, SettleCancelInv, ClientCleanCancelInv DEF ClientStep
<1>4. ASSUME NEW r \in Runs, RunStep(r) \/ Tick(r) \/ OrphanExits(r) PROVE CancelInv'
  BY <1>4, RunStepCancelInv, TickCancelInv, OrphanExitsCancelInv
<1>5. CASE Crash
  BY <1>5, CrashCancelInv
<1>6. CASE UNCHANGED vars
  <2>1. NotRetired'
    BY <1>6 DEF vars, CancelInv, NotRetired
  <2> QED
    BY <1>6, <2>1, IdleFrame DEF vars, registry
<1> QED
  BY <1>1, <1>2, <1>3, <1>4, <1>5, <1>6 DEF Next

LEMMA AlwaysCancelInv == ASSUME Quiet PROVE Spec => []CancelInv
<1>1. Init => CancelInv
  BY InitCancelInv
<1>2. TypeInv /\ CancelInv /\ [Next]_vars => CancelInv'
  BY NextCancelInv
<1> QED
  BY <1>1, <1>2, AlwaysTypeInv, PTL DEF Spec

\* Without restarts and pruning, a task id never has two runs in which work
\* could still be done: two starts, however they meet running threads,
\* expiring records and crashes, share one run.
THEOREM OneRun == ASSUME Quiet PROVE Spec => []OneRunPerTask
<1>1. CancelInv => OneRunPerTask
  BY DEF CancelInv
<1> QED
  BY <1>1, AlwaysCancelInv, PTL

\* Without restarts and pruning, a thread that waits for a subprocess watches
\* the event a cancel of its task sets, so it kills the subprocess.
THEOREM CancelReaches == ASSUME Quiet PROVE Spec => []CancelReachesWatcher
<1>1. CancelInv => CancelReachesWatcher
  BY DEF CancelInv, Watches, CancelReachesWatcher
<1> QED
  BY <1>1, AlwaysCancelInv, PTL

-----------------------------------------------------------------------------
\* Only the thread of a run takes it to a document to persist.
LEMMA OthersStageNothing ==
  ASSUME TypeInv, NEW r \in Runs, Deciding(r), [Next]_vars, ~RunStep(r)
  PROVE  run'[r].pc # "stage"
<1>0. run[r].pc # "stage" /\ run \in [Runs -> RunState]
  BY DEF Deciding, Undecided, TypeInv, TypeOK
<1>1. CASE \E t \in Tasks : StartExisting(t) \/ StatusOp(t) \/ CancelOp(t)
  BY <1>0, <1>1 DEF StartExisting, StatusOp, CancelOp
<1>2. ASSUME NEW t \in Tasks, NEW q \in Runs, StartNew(t, q) PROVE run'[r].pc # "stage"
  BY <1>0, <1>2 DEF StartNew, RunState
<1>3. CASE ClientStep
  <2>1. CASE ClientPublish
    BY <1>0, <2>1 DEF ClientPublish, RunState
  <2>2. CASE Submit
    BY <1>0, <2>2 DEF Submit, RunState
  <2>3. CASE WithdrawFuture
    BY <1>0, <2>3 DEF WithdrawFuture, RunState
  <2> QED
    BY <1>0, <1>3, <2>1, <2>2, <2>3
       DEF ClientStep, ClientStage, ClientFill, StoreFuture, ReadStatus, ResultExpiry,
           IgnoreCancel, Signal, SignalProcess, Settle, ClientClean
<1>4. ASSUME NEW q \in Runs, RunStep(q) PROVE run'[r].pc # "stage"
  <2>1. q # r
    BY <1>4
  <2>2. CASE RunClean(q)
    BY <1>0, <2>1, <2>2 DEF RunClean, RunBecomes
  <2>3. CASE ~RunClean(q)
    BY <1>0, <1>4, <2>1, <2>3, RunStepMoves DEF Moves
  <2> QED
    BY <2>2, <2>3
<1>5. ASSUME NEW q \in Runs, Tick(q) \/ OrphanExits(q) PROVE run'[r].pc # "stage"
  BY <1>0, <1>5 DEF Tick, OrphanExits
<1>6. CASE Crash
  BY <1>0, <1>6 DEF Crash, Over, Fresh
<1>7. CASE UNCHANGED vars
  BY <1>0, <1>7 DEF vars
<1> QED
  BY <1>1, <1>2, <1>3, <1>4, <1>5, <1>6, <1>7 DEF Next

\* The last look a thread takes, at its event, is of the event that was set.
LEMMA SignalSeen ==
  ASSUME CancelInv, NEW r \in Runs, Signalled(r), Deciding(r)
  PROVE  CancelSeen(run[r].task)
<1>1. Open(r)
  BY DEF Deciding, Undecided, Open, Threaded
<1> QED
  BY <1>1, NoneAssumption DEF CancelInv, EventFound, Signalled, CancelSeen

LEMMA CancelledIsNoSuccess ==
  ASSUME TypeInv, NEW r \in Runs, NEW p \in Rec, NEW pc, NEW err
  PROVE  Persisting(r, Cancelled(p), pc, err).doc.status # "succeeded"
<1>1. Persisting(r, Cancelled(p), pc, err).doc = Cancelled(p)
  BY DEF Persisting, TypeInv, TypeOK, RunState
<1>2. Cancelled(p).status = "cancelled"
  BY DEF Cancelled, Rec
<1> QED
  BY <1>1, <1>2

LEMMA OwnStepHonours ==
  ASSUME TypeInv, CancelInv, NEW r \in Runs, Signalled(r), Deciding(r), RunStep(r),
         run'[r].pc = "stage"
  PROVE  run'[r].doc.status # "succeeded"
<1> DEFINE me == run[r]
<1>0. /\ me \in RunState /\ run \in [Runs -> RunState] /\ RunShape(me)
      /\ CancelSeen(me.task)
  BY SignalSeen DEF TypeInv, TypeOK
<1>1. CASE Check(r)
  <2>1. me.payload \in Rec
    BY <1>0, <1>1 DEF Check, RunIs, RunShape, Threaded
  <2>2. run'[r] = Persisting(r, Cancelled(me.payload), "clean", "ended")
    BY <1>0, <1>1 DEF Check, RunBecomes
  <2> QED
    BY <2>1, <2>2, CancelledIsNoSuccess
<1>2. CASE Recheck(r)
  <2>1. me.doc \in Rec
    BY <1>0, <1>2 DEF Recheck, RunIs, RunShape, Threaded
  <2>2. run'[r] = Persisting(r, Cancelled(me.doc), "clean", "failed")
    BY <1>0, <1>2 DEF Recheck, RunBecomes
  <2> QED
    BY <2>1, <2>2, CancelledIsNoSuccess
<1>3. CASE Finish(r)
  <2>1. me.payload \in Rec
    BY <1>0, <1>3 DEF Finish, RunIs, RunShape, Threaded
  <2>2. run'[r] = Persisting(r, Cancelled(me.payload), "clean", "ended")
    BY <1>0, <1>3 DEF Finish, RunBecomes
  <2> QED
    BY <2>1, <2>2, CancelledIsNoSuccess
<1>4. ~RunStage(r) /\ ~RunFill(r) /\ ~RunPublish(r) /\ ~ReportFailed(r) /\ ~RunClean(r)
  BY DEF RunStage, RunFill, RunPublish, ReportFailed, RunClean, RunIs, Deciding, Undecided
<1>5. CASE Begin(r)
  <2>1. run'[r].pc \in {"check", "ended"}
    <3>1. CASE ~Readable(record[me.task])
      BY <1>0, <1>5, <3>1 DEF Begin, RunBecomes, Over, Fresh
    <3>2. CASE Readable(record[me.task])
      BY <1>0, <1>5, <3>2 DEF Begin, RunBecomes, RunState
    <3> QED
      BY <3>1, <3>2
  <2> QED
    BY <2>1
<1>6. CASE Report(r)
  BY <1>0, <1>6 DEF Report, RunBecomes, RunState
<1>7. CASE Reread(r)
  <2>1. CASE ~Readable(record[me.task])
    BY <1>0, <1>7, <2>1 DEF Reread, RunGoes, RunBecomes, RunState
  <2>2. CASE Readable(record[me.task])
    BY <1>0, <1>7, <2>2 DEF Reread, RunGoes, RunBecomes, RunState
  <2> QED
    BY <2>1, <2>2
<1>8. CASE Attempt(r)
  BY <1>0, <1>8 DEF Attempt, RunBecomes, RunState
<1>9. CASE Launch(r)
  BY <1>0, <1>9 DEF Launch, RunBecomes, RunState
<1>10. CASE Popen(r)
  BY <1>0, <1>10 DEF Popen, RunGoes, RunBecomes, RunState
<1>11. CASE Subprocess(r)
  BY <1>0, <1>11 DEF Subprocess, RunBecomes, RunState
<1>12. CASE Judge(r)
  BY <1>0, <1>12 DEF Judge, RunBecomes, RunState
<1>13. CASE PipeCloses(r)
  BY <1>0, <1>13 DEF PipeCloses, RunGoes, RunBecomes, RunState
<1> QED
  BY <1>1, <1>2, <1>3, <1>4, <1>5, <1>6, <1>7, <1>8, <1>9, <1>10, <1>11, <1>12, <1>13
     DEF RunStep, ThreadStep

\* Without restarts and pruning, a run whose cancel event is set before its
\* last check never goes on to be recorded as succeeded, although the record
\* that shows the request may have been overwritten by then.
THEOREM CancelIsHonoured == ASSUME Quiet PROVE Spec => CancelHonoured
<1> DEFINE Honours ==
             \A r \in Runs :
               Signalled(r) /\ Deciding(r) =>
                 ~(run'[r].pc = "stage" /\ run'[r].doc.status = "succeeded")
<1>1. TypeInv /\ CancelInv /\ [Next]_vars => [Honours]_vars
  <2> SUFFICES ASSUME TypeInv, CancelInv, [Next]_vars, NEW r \in Runs, Signalled(r),
                      Deciding(r), run'[r].pc = "stage"
               PROVE  run'[r].doc.status # "succeeded"
    OBVIOUS
  <2> QED
    BY OthersStageNothing, OwnStepHonours
<1>2. Spec => [][Honours]_vars
  BY <1>1, AlwaysTypeInv, AlwaysCancelInv, PTL DEF Spec
<1> QED
  BY <1>2 DEF CancelHonoured

-----------------------------------------------------------------------------
(***************************************************************************)
(* What records rest on.  They are read, kept and written again by the     *)
(* loop and by threads of other runs, also after restarts; none of them    *)
(* makes a verdict of what is none, and a run that has come so far keeps   *)
(* its outcome.                                                            *)
(***************************************************************************)

\* Files get what was in them, or what the one who writes has in hand, or what no
\* one can parse.
Scraps(p) == Unreadable(p) /\ ~p.cancel
FilesFrom(t, doc) ==
    \A u \in Tasks :
        /\ \/ record'[u] \in {record[u], staged[u], NoRec} \/ Scraps(record'[u])
           \/ u = t /\ record'[u] = doc
        /\ \/ staged'[u] \in {staged[u], NoRec} \/ Scraps(staged'[u])
           \/ u = t /\ staged'[u] = doc

LEMMA TruncatesFiles ==
  ASSUME TypeInv, NEW w, NEW t \in Tasks, NEW doc \in Rec, Truncates(w, t, doc),
         record' = record
  PROVE  FilesFrom(t, doc)
<1>1. Scraps(Scrap(doc, "empty"))
  BY DEF Scrap, Scraps, Unreadable
<1> QED
  BY <1>1 DEF Truncates, FilesFrom, TypeInv, TypeOK

LEMMA FillsFiles ==
  ASSUME TypeInv, NEW w, NEW t \in Tasks, NEW doc \in Rec, Fills(w, t, doc)
  PROVE  FilesFrom(t, doc)
<1>1. Scraps(Scrap(doc, "torn"))
  BY DEF Scrap, Scraps, Unreadable
<1>2. PICK new \in {doc, Scrap(doc, "torn")} :
         \/ /\ handle[w] = "tmp" /\ UNCHANGED record
            /\ staged' = [staged EXCEPT ![t] = new]
         \/ /\ handle[w] = "record" /\ UNCHANGED staged
            /\ record' = [record EXCEPT ![t] = new]
         \/ handle[w] \notin {"tmp", "record"} /\ UNCHANGED <<record, staged>>
  BY FillsEffect DEF TypeInv
<1> QED
  BY <1>1, <1>2 DEF FilesFrom, TypeInv, TypeOK

\* So the files say what they said or what is written, if they say anything.
LEMMA FilesSay ==
  ASSUME NEW t, NEW doc, FilesFrom(t, doc)
  PROVE  /\ \A u \in Tasks, s \in Statuses :
               record'[u].status = s \/ staged'[u].status = s =>
                 record[u].status = s \/ staged[u].status = s \/ (u = t /\ doc.status = s)
         /\ \A u \in Tasks :
               CancelAsked(record'[u]) \/ CancelAsked(staged'[u]) =>
                 \/ CancelAsked(record[u]) \/ CancelAsked(staged[u])
                 \/ u = t /\ CancelAsked(doc)
<1>1. \A p : Scraps(p) => p.status \notin Statuses /\ ~CancelAsked(p)
  BY DEF Scraps, Unreadable, Statuses, Final, CancelAsked
<1>2. NoRec.status \notin Statuses /\ ~CancelAsked(NoRec)
  BY DEF NoRec, Statuses, Final, CancelAsked
<1> QED
  BY <1>1, <1>2 DEF FilesFrom

LEMMA RenamesFiles ==
  ASSUME TypeInv, NEW t \in Tasks, Renames(t), NEW u, NEW doc PROVE FilesFrom(u, doc)
  BY DEF Renames, FilesFrom, TypeInv, TypeOK

-----------------------------------------------------------------------------
\* A step of a thread.
Honest(r) ==
    /\ run'[r].task = run[r].task
    /\ \A q \in Runs \ {r} : run'[q] = run[q]
    /\ Sealed(run[r]) => Sealed(run'[r])
    /\ ReadsBack(run'[r])
    /\ Claims(run'[r]) => Claims(run[r]) \/ Sealed(run'[r])
    /\ AtWork(run'[r]) => AtWork(run[r])
    /\ ToldLast(run[r]) => ToldLast(run'[r])

LEMMA BecomesHonest ==
  ASSUME TypeInv, NEW r \in Runs, NEW new, RunBecomes(r, new), new.task = run[r].task,
         Sealed(run[r]) => Sealed(new), ReadsBack(new),
         Claims(new) => Claims(run[r]) \/ Sealed(new),
         AtWork(new) => AtWork(run[r]), ToldLast(run[r]) => ToldLast(new)
  PROVE  Honest(r)
  BY DEF RunBecomes, Honest, TypeInv, TypeOK

\* A document that is about to be written, by a run that is past its work or
\* claims no success.
LEMMA PersistingHonest ==
  ASSUME TypeInv, NEW r \in Runs, NEW doc, NEW pc \in {"work", "attempt", "clean"}, NEW err,
         run[r].pc \in {"check", "recheck", "failed", "finish"},
         pc # "clean" => run[r].pc = "check" /\ doc.status = "running",
         doc.status = "succeeded" => run[r].result = "ok" /\ pc = "clean",
         NEW new \in RunState, new.pc = "stage", new.then = pc, new.doc = doc,
         new.task = run[r].task, new.result = run[r].result,
         RunBecomes(r, new)
  PROVE  Honest(r)
<1>1. Sealed(run[r]) => Sealed(new)
  BY DEF Sealed, Done
<1>2. ReadsBack(new)
  BY DEF ReadsBack
<1>3. Claims(new) => Sealed(new)
  BY DEF Claims, Sealed
<1>4. AtWork(new) => AtWork(run[r])
  BY DEF AtWork
<1>5. ToldLast(new)
  BY DEF ToldLast, Verdicts
<1> QED
  BY <1>1, <1>2, <1>3, <1>4, <1>5, BecomesHonest

\* What a document looks like to its reader.
LEMMA PersistingLooks ==
  ASSUME TypeInv, NEW r \in Runs, run[r].pc \in Threaded \ {"clean", "stage", "fill", "publish"},
         NEW doc \in Rec, NEW pc \in {"work", "attempt", "clean"},
         NEW err \in {"failed", "ended"}
  PROVE  LET new == Persisting(r, doc, pc, err) IN
         /\ new \in RunState /\ new.pc = "stage" /\ new.then = pc /\ new.doc = doc
         /\ new.task = run[r].task /\ new.result = run[r].result
<1>1. run[r] \in RunState /\ doc \in MaybeRec
  BY DocTypes DEF TypeInv, TypeOK
<1> QED
  BY <1>1 DEF Persisting, RunState, RunPCs, Threaded

\* A run that is over, or goes on after a document was persisted, keeps its outcome.
LEMMA OverLooks ==
  ASSUME TypeInv, NEW r \in Runs, NEW pc
  PROVE  /\ Over(r, pc).pc = pc /\ Over(r, pc).task = run[r].task
         /\ Over(r, pc).result = run[r].result /\ ~Claims(Over(r, pc))
        /\ ToldLast(Over(r, pc))
  BY DEF Over, Fresh, NoRec, Claims, ToldLast, Verdicts

LEMMA PublishHonest == ASSUME TypeInv, NEW r \in Runs, RunPublish(r) PROVE Honest(r)
<1> DEFINE me == run[r]
<1>0. me \in RunState /\ me.pc = "publish"
  BY DEF RunPublish, RunIs, TypeInv, TypeOK
<1>1. PICK pc \in {me.then, me.fail} : RunBecomes(r, Resumed(r, pc))
  BY DEF RunPublish
<1>2. pc \in {"work", "attempt", "clean", "ended", "failed"}
  BY <1>0, <1>1 DEF RunState
<1>a. me.then = "clean" => pc \in {"clean", "ended", "failed"}
  BY <1>0, <1>1 DEF RunState
<1> DEFINE new == Resumed(r, pc)
<1>3. new.pc = pc /\ new.task = me.task /\ new.result = me.result
  <2>1. CASE pc \in {"clean", "ended"}
    BY <2>1, OverLooks DEF Resumed
  <2>2. CASE pc \notin {"clean", "ended"}
    BY <1>0, <2>2 DEF Resumed, RunState
  <2> QED
    BY <2>1, <2>2
<1> HIDE DEF new
<1>4. Sealed(me) => Sealed(new)
  BY <1>0, <1>3, <1>a DEF Sealed, Done
<1>5. ReadsBack(new) /\ ~Claims(new) /\ ToldLast(new)
  BY <1>2, <1>3 DEF ReadsBack, Claims, ToldLast
<1>6. AtWork(new) => AtWork(me)
  <2>1. AtWork(new) => pc \in {"work", "attempt"}
    BY <1>2, <1>3 DEF AtWork
  <2>2. pc \in {"work", "attempt"} => me.then \in {"work", "attempt"}
    BY <1>0, <1>1 DEF RunState
  <2> QED
    BY <1>0, <2>1, <2>2 DEF AtWork
<1> QED
  BY <1>1, <1>3, <1>4, <1>5, <1>6, BecomesHonest DEF new

LEMMA CheckHonest == ASSUME TypeInv, NEW r \in Runs, Check(r) PROVE Honest(r)
<1> DEFINE me == run[r]
<1>1. me.pc = "check" /\ me.payload \in Rec /\ me.payload \in MaybeRec
  BY DocTypes DEF Check, RunIs, TypeInv, RunShape, Threaded
<1>2. CASE CancelAsked(me.payload) \/ CancelSeen(me.task)
  <2> DEFINE doc == Cancelled(me.payload)
             new == Persisting(r, doc, "clean", "ended")
  <2>1. RunBecomes(r, new)
    BY <1>2 DEF Check
  <2>2. doc \in Rec /\ doc.status = "cancelled"
    BY <1>1, DocTypes
  <2>3. /\ new \in RunState /\ new.pc = "stage" /\ new.then = "clean" /\ new.doc = doc
        /\ new.task = me.task /\ new.result = me.result
    BY <1>1, <2>2, PersistingLooks DEF Threaded
  <2> HIDE DEF new, doc
  <2> QED
    BY <1>1, <2>1, <2>2, <2>3, PersistingHonest
<1>3. CASE ~(CancelAsked(me.payload) \/ CancelSeen(me.task))
  <2> DEFINE doc == Marked(me.payload, "running")
             pc == IF me.task \in Mutating THEN "attempt" ELSE "work"
             base == Persisting(r, doc, pc, "ended")
             new == [base EXCEPT !.payload = doc]
  <2>1. RunBecomes(r, new)
    BY <1>3 DEF Check
  <2>2. doc \in Rec /\ doc.status = "running" /\ doc \in MaybeRec
    BY <1>1, DocTypes DEF Statuses
  <2>3. /\ base \in RunState /\ base.pc = "stage" /\ base.then = pc /\ base.doc = doc
        /\ base.task = me.task /\ base.result = me.result
    BY <1>1, <2>2, PersistingLooks DEF Threaded
  <2>a. pc \in {"work", "attempt"}
    OBVIOUS
  <2> HIDE DEF base, doc, pc
  <2>4. /\ new \in RunState /\ new.pc = "stage" /\ new.then = pc /\ new.doc = doc
        /\ new.task = me.task /\ new.result = me.result
    BY <2>2, <2>3 DEF RunState
  <2> HIDE DEF new
  <2> QED
    BY <1>1, <2>1, <2>2, <2>4, <2>a, PersistingHonest
<1> QED
  BY <1>2, <1>3

LEMMA RecheckHonest ==
  ASSUME TypeInv, RealInv, NEW r \in Runs, Recheck(r) PROVE Honest(r)
<1> DEFINE me == run[r]
<1>1. /\ me.pc = "recheck" /\ me.payload \in Rec /\ me.doc \in Rec
  BY DEF Recheck, RunIs, TypeInv, RunShape, Threaded
<1>2. me.result = "ok"
  BY <1>1 DEF RealInv, ReadsBack
<1>3. CASE CancelAsked(me.doc) \/ CancelSeen(me.task)
  <2> DEFINE doc == Cancelled(me.doc)
             new == Persisting(r, doc, "clean", "failed")
  <2>1. RunBecomes(r, new)
    BY <1>3 DEF Recheck
  <2>2. doc \in Rec
    BY <1>1, DocTypes
  <2>3. /\ new \in RunState /\ new.pc = "stage" /\ new.then = "clean" /\ new.doc = doc
        /\ new.task = me.task /\ new.result = me.result
    BY <1>1, <2>2, PersistingLooks DEF Threaded
  <2> HIDE DEF new, doc
  <2> QED
    BY <1>1, <1>2, <2>1, <2>3, PersistingHonest
<1>4. CASE ~(CancelAsked(me.doc) \/ CancelSeen(me.task))
  <2> DEFINE doc == Marked(me.payload, "succeeded")
             base == Persisting(r, doc, "clean", "failed")
             new == [base EXCEPT !.payload = doc]
  <2>1. RunBecomes(r, new)
    BY <1>4 DEF Recheck
  <2>2. doc \in Rec /\ doc \in MaybeRec
    BY <1>1, DocTypes DEF Statuses, Final
  <2>3. /\ base \in RunState /\ base.pc = "stage" /\ base.then = "clean" /\ base.doc = doc
        /\ base.task = me.task /\ base.result = me.result
    BY <1>1, <2>2, PersistingLooks DEF Threaded
  <2> HIDE DEF base, doc
  <2>4. /\ new \in RunState /\ new.pc = "stage" /\ new.then = "clean" /\ new.doc = doc
        /\ new.task = me.task /\ new.result = me.result
    BY <2>2, <2>3 DEF RunState
  <2> HIDE DEF new
  <2> QED
    BY <1>1, <1>2, <2>1, <2>4, PersistingHonest
<1> QED
  BY <1>3, <1>4

LEMMA ReportFailedHonest == ASSUME TypeInv, NEW r \in Runs, ReportFailed(r) PROVE Honest(r)
<1> DEFINE doc == Marked(run[r].payload, "failed")
           new == Persisting(r, doc, "clean", "ended")
<1>1. run[r].pc = "failed" /\ run[r].payload \in Rec
  BY DEF ReportFailed, RunIs, TypeInv, RunShape, Threaded
<1>2. RunBecomes(r, new)
  BY DEF ReportFailed
<1>3. doc \in Rec /\ doc.status = "failed"
  BY <1>1, DocTypes DEF Statuses, Final
<1>4. /\ new \in RunState /\ new.pc = "stage" /\ new.then = "clean" /\ new.doc = doc
      /\ new.task = run[r].task /\ new.result = run[r].result
  BY <1>1, <1>3, PersistingLooks DEF Threaded
<1> HIDE DEF new, doc
<1> QED
  BY <1>1, <1>2, <1>3, <1>4, PersistingHonest

LEMMA FinishHonest == ASSUME TypeInv, NEW r \in Runs, Finish(r) PROVE Honest(r)
<1> DEFINE me == run[r]
<1>1. me.pc = "finish" /\ me.payload \in Rec
  BY DEF Finish, RunIs, TypeInv, RunShape, Threaded
<1>2. PICK doc :
          /\ RunBecomes(r, Persisting(r, doc, "clean", "ended"))
          /\ \/ doc = Cancelled(me.payload)
             \/ doc = Marked(me.payload, "failed")
             \/ doc = Marked(me.payload, "succeeded") /\ me.result = "ok"
  BY DEF Finish
<1>a. /\ Cancelled(me.payload) \in Rec /\ Cancelled(me.payload).status = "cancelled"
      /\ Marked(me.payload, "failed") \in Rec
      /\ Marked(me.payload, "failed").status = "failed"
      /\ Marked(me.payload, "succeeded") \in Rec
  BY <1>1, DocTypes DEF Statuses, Final
<1>3. doc \in Rec /\ (doc.status = "succeeded" => me.result = "ok")
  BY <1>2, <1>a
<1> DEFINE new == Persisting(r, doc, "clean", "ended")
<1>4. /\ new \in RunState /\ new.pc = "stage" /\ new.then = "clean" /\ new.doc = doc
      /\ new.task = me.task /\ new.result = me.result
  BY <1>1, <1>3, PersistingLooks DEF Threaded
<1>5. RunBecomes(r, new)
  BY <1>2
<1> HIDE DEF new
<1> QED
  BY <1>1, <1>3, <1>4, <1>5, PersistingHonest

\* The steps up to the verdict settle nothing yet and write nothing.
LEMMA WorkHonest ==
  ASSUME TypeInv, NEW r \in Runs,
         \/ Report(r) \/ Attempt(r) \/ Launch(r) \/ Popen(r) \/ Subprocess(r)
         \/ PipeCloses(r) \/ Judge(r)
  PROVE  Honest(r)
<1> DEFINE me == run[r]
<1>0. me \in RunState /\ run \in [Runs -> RunState]
  BY DEF TypeInv, TypeOK
<1>1. /\ run'[r].task = me.task
      /\ \A q \in Runs \ {r} : run'[q] = run[q]
      /\ run'[r].pc \in {"reread", "failed", "launch", "popen", "subprocess", "reap",
                        "judge", "attempt", "finish"}
      /\ run'[r].pc = "reread" => run'[r].result = "ok"
  <2>1. CASE Report(r)
    <3>1. CASE RunBecomes(r, [me EXCEPT !.pc = "reread", !.result = "ok"])
      BY <1>0, <3>1 DEF RunBecomes, RunState
    <3>2. CASE RunBecomes(r, [me EXCEPT !.pc = "failed", !.result = "failed"])
      BY <1>0, <3>2 DEF RunBecomes, RunState
    <3> QED
      BY <2>1, <3>1, <3>2 DEF Report
  <2>2. CASE Attempt(r)
    <3>1. CASE CancelSeen(me.task)
      BY <1>0, <2>2, <3>1 DEF Attempt, RunBecomes, RunState
    <3>2. CASE ~CancelSeen(me.task)
      BY <1>0, <2>2, <3>2 DEF Attempt, RunBecomes, RunState
    <3> QED
      BY <3>1, <3>2
  <2>3. CASE Launch(r)
    <3>1. CASE \E res \in {"failed", "transient"} :
                 RunBecomes(r, [me EXCEPT !.pc = "judge", !.result = res])
      BY <1>0, <3>1 DEF RunBecomes, RunState
    <3>2. CASE RunBecomes(r, [me EXCEPT !.pc = "popen", !.watch = events[me.task]])
      BY <1>0, <3>2 DEF RunBecomes, RunState
    <3> QED
      BY <2>3, <3>1, <3>2 DEF Launch
  <2>4. CASE Popen(r)
    BY <1>0, <2>4 DEF Popen, RunGoes, RunBecomes, RunState
  <2>5. CASE Subprocess(r)
    <3>1. PICK res \in {"ok", "failed", "transient", "cancelled"}, pc \in {"judge", "reap"} :
             RunBecomes(r, [me EXCEPT !.pc = pc, !.result = res, !.watch = None])
      BY <2>5 DEF Subprocess
    <3> QED
      BY <1>0, <3>1 DEF RunBecomes, RunState
  <2>6. CASE Judge(r)
    BY <1>0, <2>6 DEF Judge, RunBecomes, RunState
  <2>7. CASE PipeCloses(r)
    BY <1>0, <2>7 DEF PipeCloses, RunGoes, RunBecomes, RunState
  <2> QED
    BY <2>1, <2>2, <2>3, <2>4, <2>5, <2>6, <2>7
<1>2. ~Sealed(me)
  BY DEF Report, Attempt, Launch, Popen, Subprocess, PipeCloses, Judge, RunIs, Sealed, Done
<1>3. AtWork(me)
  BY DEF Report, Attempt, Launch, Popen, Subprocess, PipeCloses, Judge, RunIs, AtWork
<1> QED
  BY <1>1, <1>2, <1>3 DEF Honest, ReadsBack, Claims, ToldLast

LEMMA OwnHonest == ASSUME TypeInv, RealInv, NEW r \in Runs, RunStep(r) PROVE Honest(r)
<1> DEFINE me == run[r]
<1>0. me \in RunState /\ run \in [Runs -> RunState]
  BY DEF TypeInv, TypeOK
<1>1. CASE RunStage(r)
  <2> DEFINE new == [me EXCEPT !.pc = "fill"]
  <2>1. RunBecomes(r, new) /\ me.pc = "stage"
    BY <1>1 DEF RunStage, RunGoes, RunIs
  <2>2. /\ new.pc = "fill" /\ new.task = me.task /\ new.then = me.then
        /\ new.doc = me.doc /\ new.result = me.result
    BY <1>0 DEF RunState
  <2> HIDE DEF new
  <2> QED
    BY <2>1, <2>2, BecomesHonest DEF Sealed, Claims, ReadsBack, Done, AtWork, ToldLast
<1>a. CASE RunFill(r)
  <2> DEFINE new == [me EXCEPT !.pc = "publish"]
  <2>1. RunBecomes(r, new) /\ me.pc = "fill"
    BY <1>a DEF RunFill, RunGoes, RunIs
  <2>2. /\ new.pc = "publish" /\ new.task = me.task /\ new.then = me.then
        /\ new.doc = me.doc /\ new.result = me.result
    BY <1>0 DEF RunState
  <2> HIDE DEF new
  <2> QED
    BY <2>1, <2>2, BecomesHonest DEF Sealed, Claims, ReadsBack, Done, AtWork, ToldLast
<1>2. CASE RunPublish(r)
  BY <1>2, PublishHonest
<1>3. CASE Begin(r)
  <2>1. ~Sealed(me) /\ AtWork(me)
    BY <1>3 DEF Begin, RunIs, Sealed, Done, AtWork
  <2>2. CASE ~Readable(record[me.task])
    BY <1>3, <2>1, <2>2, OverLooks, BecomesHonest DEF Begin, ReadsBack
  <2>3. CASE Readable(record[me.task])
    <3> DEFINE new == [me EXCEPT !.pc = "check", !.payload = record[me.task]]
    <3>1. RunBecomes(r, new)
      BY <1>3, <2>3 DEF Begin
    <3>2. new.pc = "check" /\ new.task = me.task
      BY <1>0 DEF RunState
    <3> HIDE DEF new
    <3> QED
      BY <2>1, <3>1, <3>2, BecomesHonest DEF ReadsBack, Claims, ToldLast
  <2> QED
    BY <2>2, <2>3
<1>4. CASE Check(r)
  BY <1>4, CheckHonest
<1>5. CASE Reread(r)
  <2>1. me.pc = "reread" /\ me.result = "ok"
    BY <1>5 DEF Reread, RunIs, RealInv, ReadsBack
  <2>2. /\ run'[r].task = me.task /\ run'[r].result = me.result
        /\ run'[r].pc \in {"failed", "recheck"}
    <3>1. CASE ~Readable(record[me.task])
      BY <1>0, <1>5, <3>1 DEF Reread, RunGoes, RunBecomes, RunState
    <3>2. CASE Readable(record[me.task])
      BY <1>0, <1>5, <3>2 DEF Reread, RunGoes, RunBecomes, RunState
    <3> QED
      BY <3>1, <3>2
  <2>3. \A q \in Runs \ {r} : run'[q] = run[q]
    BY <1>0, <1>5 DEF Reread, RunGoes, RunBecomes
  <2> QED
    BY <2>1, <2>2, <2>3 DEF Honest, Sealed, ReadsBack, Claims, AtWork, ToldLast
<1>6. CASE Recheck(r)
  BY <1>6, RecheckHonest
<1>7. CASE ReportFailed(r)
  BY <1>7, ReportFailedHonest
<1>8. CASE \/ Report(r) \/ Attempt(r) \/ Launch(r) \/ Popen(r) \/ Subprocess(r)
           \/ PipeCloses(r) \/ Judge(r)
  BY <1>8, WorkHonest
<1>9. CASE Finish(r)
  BY <1>9, FinishHonest
<1>10. CASE RunClean(r)
  <2>1. RunBecomes(r, Over(r, "ended"))
    BY <1>10 DEF RunClean
  <2>2. Sealed(me) => Sealed(Over(r, "ended"))
    BY OverLooks DEF Sealed, Done
  <2> QED
    BY <2>1, <2>2, OverLooks, BecomesHonest DEF ReadsBack, AtWork
<1> QED
  BY <1>1, <1>a, <1>2, <1>3, <1>4, <1>5, <1>6, <1>7, <1>8, <1>9, <1>10 DEF RunStep, ThreadStep

RunGives(r) == IF run[r].pc \in {"stage", "fill"} THEN run[r].doc ELSE NoRec

LEMMA RunFiles ==
  ASSUME TypeInv, NEW r \in Runs, RunStep(r) PROVE FilesFrom(run[r].task, RunGives(r))
<1>0. RunIs(r, "stage") \/ RunIs(r, "fill") \/ RunIs(r, "publish") =>
         /\ run[r].task \in Tasks /\ run[r].doc \in Rec
         /\ run[r].pc # "publish" => RunGives(r) = run[r].doc
  BY DEF RunIs, RunGives, TypeInv, RunShape, Threaded
<1>1. CASE RunStage(r)
  BY <1>0, <1>1, TruncatesFiles DEF RunStage, RunIs
<1>2. CASE RunFill(r)
  BY <1>0, <1>2, FillsFiles DEF RunFill, RunIs
<1>3. CASE RunPublish(r)
  <2>1. CASE staged[run[r].task] = NoRec
    BY <1>3, <2>1 DEF RunPublish, FilesFrom
  <2>2. CASE staged[run[r].task] # NoRec
    BY <1>0, <1>3, <2>2, RenamesFiles DEF RunPublish
  <2> QED
    BY <2>1, <2>2
<1>4. CASE ~RunStage(r) /\ ~RunFill(r) /\ ~RunPublish(r)
  <2>1. record' = record /\ staged' = staged
    BY <1>4 DEF RunStep, ThreadStep, Begin, Check, Report, Reread, Recheck, ReportFailed,
                Attempt, Launch, Popen, Subprocess, PipeCloses, Judge, Finish, RunClean
  <2> QED
    BY <2>1 DEF FilesFrom
<1> QED
  BY <1>1, <1>2, <1>3, <1>4

LEMMA RunLeavesLoop == ASSUME NEW r, RunStep(r) PROVE client' = client
  BY DEF RunStep, ThreadStep, RunStage, RunFill, RunPublish, Begin, Check, Report, Reread,
         Recheck, ReportFailed, Attempt, Launch, Popen, Subprocess, PipeCloses, Judge, Finish,
         RunClean

-----------------------------------------------------------------------------
\* A step of the loop, but for the start of a new run.
LoopCall ==
    \/ \E t \in Tasks : StartExisting(t) \/ StatusOp(t) \/ CancelOp(t)
    \/ ClientStep

\* It submits a run, withdraws it or gives it up.
LoopOnRuns ==
    \A q \in Runs :
        \/ run'[q] = run[q]
        \/ /\ run'[q].task = run[q].task
           /\ run[q].pc \in {"starting", "queued"}
           /\ run'[q].pc \in {"queued", "withdrawn", "lost"}
           /\ run'[q].payload = run[q].payload /\ run'[q].result = run[q].result

LEMMA LoopRuns == ASSUME TypeInv, LoopCall PROVE LoopOnRuns
<1>0. run \in [Runs -> RunState]
  BY DEF TypeInv, TypeOK
<1>1. CASE run' = run
  BY <1>1 DEF LoopOnRuns
<1>2. CASE ClientPublish
  <2>1. CASE run' = [run EXCEPT ![client.run].pc = "lost"] /\ client.then = "submit"
    <3>1. client.run \in Runs /\ run[client.run].pc = "starting"
      BY <1>2, <2>1 DEF ClientPublish, ClientIs, TypeInv, StartShape, Starting
    <3> QED
      BY <1>0, <2>1, <3>1 DEF LoopOnRuns, RunState
  <2> QED
    BY <1>1, <1>2, <2>1 DEF ClientPublish
<1>3. CASE Submit
  <2>1. client.run \in Runs /\ run[client.run].pc = "starting"
    BY <1>3 DEF Submit, ClientIs, TypeInv, StartShape, Starting
  <2> QED
    BY <1>0, <1>3, <2>1 DEF Submit, LoopOnRuns, RunState
<1>4. CASE WithdrawFuture
  <2> DEFINE f == client.run
  <2>1. CASE f # None /\ run[f].pc \in {"queued", "withdrawn"}
             /\ run' = [run EXCEPT ![f].pc = "withdrawn"]
    <3>1. f \in Runs
      BY <2>1 DEF TypeInv, TypeOK, ClientState
    <3>2. CASE run[f].pc = "queued"
      BY <1>0, <2>1, <3>1, <3>2 DEF LoopOnRuns, RunState
    <3>3. CASE run[f].pc = "withdrawn"
      <4>1. run' = run
        BY <1>0, <2>1, <3>1, <3>3 DEF RunState
      <4> QED
        BY <1>1, <4>1
    <3> QED
      BY <2>1, <3>2, <3>3
  <2> QED
    BY <1>1, <1>4, <2>1 DEF WithdrawFuture
<1> QED
  BY <1>1, <1>2, <1>3, <1>4
     DEF LoopCall, StartExisting, StatusOp, CancelOp, ClientStep, ClientStage, ClientFill,
         StoreFuture, ReadStatus, ResultExpiry, IgnoreCancel, Signal, SignalProcess, Settle, ClientClean

LEMMA PrunedFiles ==
  ASSUME TypeInv, Prune, staged' = staged, NEW t, NEW doc PROVE FilesFrom(t, doc)
  BY DEF Prune, Pruned, FilesFrom

LEMMA LoopFiles == ASSUME TypeInv, LoopCall PROVE FilesFrom(client.task, client.doc)
<1>0. ClientIs("stage") \/ ClientIs("fill") \/ ClientIs("publish") =>
         client.task \in Tasks /\ client.doc \in Rec
  BY DEF ClientIs, TypeInv, ClientShape
<1>1. CASE ClientStage
  BY <1>0, <1>1, TruncatesFiles DEF ClientStage
<1>2. CASE ClientFill
  BY <1>0, <1>2, FillsFiles DEF ClientFill
<1>3. CASE ClientPublish
  <2>1. CASE staged[client.task] = NoRec
    BY <1>3, <2>1 DEF ClientPublish, FilesFrom
  <2>2. CASE staged[client.task] # NoRec
    BY <1>0, <1>3, <2>2, RenamesFiles DEF ClientPublish
  <2> QED
    BY <2>1, <2>2
<1>4. CASE \E t \in Tasks : StartExisting(t)
  BY <1>4, PrunedFiles DEF StartExisting
<1>5. CASE record' = record /\ staged' = staged
  BY <1>5 DEF FilesFrom
<1> QED
  BY <1>1, <1>2, <1>3, <1>4, <1>5
     DEF LoopCall, StatusOp, CancelOp, ClientStep, Submit, StoreFuture, ReadStatus,
         ResultExpiry, IgnoreCancel, Signal, WithdrawFuture, SignalProcess, Settle, ClientClean

\* After a step the loop holds a document with one of these statuses only if it
\* held one before, or has read one.
Holds(S) ==
    \A t \in Tasks : client'.task = t /\ client'.doc.status \in S =>
        \/ client.task = t /\ client.doc.status \in S
        \/ record[t].status \in S

\* It lets go of its document or keeps it.
LEMMA LetsGo ==
  ASSUME NEW S, "none" \notin S
  PROVE  /\ client' = Idle => Holds(S)
         /\ \A t \in Tasks : ClientReads(t) => Holds(S)
         /\ client'.task = client.task /\ client'.doc = client.doc => Holds(S)
<1>1. Idle.doc = NoRec /\ NoRec.status = "none"
  BY DEF Idle, NoRec
<1>2. ASSUME client' = Idle PROVE Holds(S)
  BY <1>1, <1>2 DEF Holds
<1>3. ASSUME NEW t \in Tasks, ClientReads(t) PROVE Holds(S)
  <2>1. client'.doc = NoRec
    BY <1>3 DEF ClientReads, Idle
  <2> QED
    BY <1>1, <2>1 DEF Holds
<1>4. ASSUME client'.task = client.task, client'.doc = client.doc PROVE Holds(S)
  BY <1>4 DEF Holds
<1> QED
  BY <1>2, <1>3, <1>4

\* Or it goes on with another that says nothing new.
LEMMA PersistHolds ==
  ASSUME TypeInv, NEW S, NEW doc, NEW pc, ClientPersists(doc, pc),
         doc.status \in S => client.doc.status \in S \/ record[client.task].status \in S
  PROVE  Holds(S)
<1>1. client'.task = client.task /\ client'.doc = doc
  BY DEF ClientPersists, TypeInv, TypeOK, ClientState
<1> QED
  BY <1>1 DEF Holds

\* Only where it settles a cancel does the loop itself come to a verdict.
LEMMA LoopHolds ==
  ASSUME TypeInv, LoopCall, NEW S \in SUBSET Verdicts, "cancelled" \in S => ~Settle
  PROVE  Holds(S)
<1>0. client \in ClientState /\ "none" \notin S /\ "expired" \notin S /\ "cancel_requested" \notin S
  BY DEF TypeInv, TypeOK, Verdicts
<1>a. \A p \in Rec : /\ Marked(p, "expired").status = "expired"
                     /\ Cancelled(p).status = "cancelled"
                     /\ CancelRequested(p).status = "cancel_requested"
                     /\ [p EXCEPT !.cancel = TRUE].status = p.status
                     /\ [p EXCEPT !.resultExpired = TRUE].status = p.status
  BY DEF Rec, Marked, Cancelled, CancelRequested
<1>2. ASSUME NEW t \in Tasks, StartExisting(t) \/ StatusOp(t) PROVE Holds(S)
  BY <1>0, <1>2, LetsGo DEF StartExisting, StatusOp
<1>3. ASSUME NEW t \in Tasks, CancelOp(t) PROVE Holds(S)
  <2>1. Marked(record[t], "expired").status = "expired"
    BY <1>3, <1>a, RecordRead DEF CancelOp
  <2>2. client'.task = t /\ client'.doc \in {record[t], Marked(record[t], "expired")}
    <3> DEFINE c == [Idle EXCEPT !.task = t, !.doc = record[t]]
    <3>1. \/ client' = [c EXCEPT !.pc = "stage", !.doc = Marked(record[t], "expired"),
                                 !.then = "ignore"]
          \/ client' = [c EXCEPT !.pc = "signal"]
          \/ client' = [c EXCEPT !.pc = "read"]
          \/ client' = [c EXCEPT !.pc = "ignore"]
      BY <1>3 DEF CancelOp, Final
    <3> QED
      BY <3>1 DEF Idle
  <2> QED
    BY <1>0, <2>1, <2>2 DEF Holds
<1>4. CASE ClientStage \/ ClientFill \/ Submit \/ Signal \/ WithdrawFuture
  <2>1. client'.task = client.task /\ client'.doc = client.doc
    BY <1>0, <1>4 DEF ClientStage, ClientFill, Submit, Signal, WithdrawFuture, ClientGoes, ClientState
  <2> QED
    BY <1>0, <2>1, LetsGo
<1>5. CASE ClientPublish
  <2>1. \/ client' = Idle
        \/ client' = [client EXCEPT !.pc = client.then, !.then = "idle"]
    BY <1>5 DEF ClientPublish
  <2>2. client' = Idle \/ (client'.task = client.task /\ client'.doc = client.doc)
    BY <1>0, <2>1 DEF ClientState
  <2> QED
    BY <1>0, <2>2, LetsGo
<1>6. CASE StoreFuture \/ ClientClean
  <2>1. client.task \in Tasks /\ ClientReads(client.task)
    BY <1>6 DEF StoreFuture, ClientClean, ClientIs, TypeInv, ClientShape
  <2> QED
    BY <1>0, <2>1, LetsGo
<1>7. CASE ReadStatus
  <2> DEFINE p == record[client.task]
  <2>1. client.task \in Tasks
    BY <1>7 DEF ReadStatus, ClientIs, TypeInv, ClientShape
  <2>2. CASE ~Readable(p)
    BY <1>0, <1>7, <2>2, LetsGo DEF ReadStatus
  <2>3. CASE Readable(p) /\ p.status \notin Final /\ Aged(p)
    <3>1. Marked(p, "expired").status = "expired"
      BY <1>a, <2>1, <2>3, RecordRead
    <3>2. ClientPersists(Marked(p, "expired"), "result")
      BY <1>7, <2>3 DEF ReadStatus
    <3> QED
      BY <1>0, <3>1, <3>2, PersistHolds
  <2>4. CASE Readable(p) /\ ~(p.status \notin Final /\ Aged(p))
    <3>1. client' = [client EXCEPT !.pc = "result", !.doc = p]
      BY <1>7, <2>4 DEF ReadStatus
    <3>2. client'.task = client.task /\ client'.doc = p
      BY <1>0, <3>1 DEF ClientState
    <3> QED
      BY <3>2 DEF Holds
  <2> QED
    BY <2>2, <2>3, <2>4
<1>8. CASE ResultExpiry
  <2>1. client.doc \in Rec
    BY <1>8 DEF ResultExpiry, ClientIs, TypeInv, ClientShape
  <2>2. \/ client' = Idle
        \/ ClientPersists([client.doc EXCEPT !.resultExpired = TRUE], "idle")
    BY <1>8 DEF ResultExpiry
  <2> QED
    BY <1>0, <1>a, <2>1, <2>2, LetsGo, PersistHolds
<1>9. CASE IgnoreCancel
  <2>1. client.doc \in Rec
    BY <1>9 DEF IgnoreCancel, ClientIs, TypeInv, ClientShape
  <2>2. ClientPersists([client.doc EXCEPT !.cancel = TRUE], "read")
    BY <1>9 DEF IgnoreCancel
  <2> QED
    BY <1>a, <2>1, <2>2, PersistHolds
<1>10. CASE SignalProcess
  <2>1. client.doc \in Rec
    BY <1>10 DEF SignalProcess, ClientIs, TypeInv, ClientShape
  <2>2. ClientPersists(CancelRequested(client.doc), "settle")
    BY <1>10 DEF SignalProcess
  <2> QED
    BY <1>0, <1>a, <2>1, <2>2, PersistHolds
<1>11. CASE Settle
  <2> DEFINE p == record[client.task]
  <2>1. client.task \in Tasks
    BY <1>11 DEF Settle, ClientIs, TypeInv, ClientShape
  <2>2. \/ ClientReads(client.task)
        \/ client' = Idle
        \/ Readable(p) /\ ClientPersists(Cancelled(p), "clean")
    BY <1>11 DEF Settle
  <2>3. CASE Readable(p) /\ ClientPersists(Cancelled(p), "clean")
    <3>1. Cancelled(p).status = "cancelled"
      BY <1>a, <2>1, <2>3, RecordRead
    <3> QED
      BY <1>11, <2>3, <3>1, PersistHolds
  <2> QED
    BY <1>0, <2>1, <2>2, <2>3, LetsGo
<1> QED
  BY <1>2, <1>3, <1>4, <1>5, <1>6, <1>7, <1>8, <1>9, <1>10, <1>11 DEF LoopCall, ClientStep

\* A new run.
LEMMA NewRun ==
  ASSUME TypeInv, NEW t \in Tasks, NEW r \in Runs, StartNew(t, r)
  PROVE  /\ run[r].pc = "unused" /\ run'[r].pc = "starting" /\ run'[r].task = t
         /\ \A q \in Runs \ {r} : run'[q] = run[q]
         /\ client'.doc.status = "pending"
         /\ FilesFrom(client.task, client.doc)
<1>1. /\ run[r].pc = "unused" /\ run'[r].pc = "starting" /\ run'[r].task = t
      /\ \A q \in Runs \ {r} : run'[q] = run[q]
  BY DEF StartNew, TypeInv, TypeOK, RunState
<1>2. client'.doc.status = "pending"
  BY DEF StartNew, Idle, Pending
<1>3. FilesFrom(client.task, client.doc)
  BY PrunedFiles DEF StartNew
<1> QED
  BY <1>1, <1>2, <1>3

\* A crash leaves the files, and of a run its outcome.
LEMMA CrashLooks ==
  ASSUME Crash
  PROVE  /\ \A q \in Runs : /\ Sealed(run[q]) => Sealed(run'[q]) /\ run'[q].task = run[q].task
                            /\ run'[q].pc \in {"unused", "ended", "withdrawn", "lost"}
         /\ client'.doc.status = "none" /\ UNCHANGED <<record, staged>>
<1>1. \A q \in Runs : \/ run'[q] = run[q] /\ run[q].pc \in {"unused", "ended", "withdrawn"}
                      \/ run'[q] = Over(q, "lost")
  BY DEF Crash
<1>2. \A q \in Runs : /\ Over(q, "lost").pc = "lost" /\ Over(q, "lost").task = run[q].task
                      /\ Over(q, "lost").result = run[q].result
  BY DEF Over, Fresh
<1>3. \A q \in Runs : /\ Sealed(run[q]) => Sealed(run'[q]) /\ run'[q].task = run[q].task
                      /\ run'[q].pc \in {"unused", "ended", "withdrawn", "lost"}
  BY <1>1, <1>2 DEF Sealed, Done
<1> QED
  BY <1>3 DEF Crash, Idle, NoRec

-----------------------------------------------------------------------------
(***************************************************************************)
(* What a success rests on.  No assumption on what clients do is needed.   *)
(***************************************************************************)

LEMMA InitRealInv == Init => RealInv
  BY DEF Init, RealInv, Claimed, Claims, ReadsBack, NoRec, Idle, Fresh

\* What every step has to show.
LEMMA RealKept ==
  ASSUME RealInv,
         \A q \in Runs : Sealed(run[q]) => Sealed(run'[q]) /\ run'[q].task = run[q].task,
         \A q \in Runs : ReadsBack(run'[q]),
         \A t \in Tasks : Claimed(t)' => Claimed(t) \/ Proven(t)'
  PROVE  RealInv'
<1>1. \A t \in Tasks : Proven(t) => Proven(t)'
  BY DEF Proven
<1> QED
  BY <1>1 DEF RealInv

LEMMA RunStepReal == ASSUME TypeInv, RealInv, NEW r \in Runs, RunStep(r) PROVE RealInv'
<1>0. Honest(r) /\ FilesFrom(run[r].task, RunGives(r)) /\ client' = client
  BY OwnHonest, RunFiles, RunLeavesLoop
<1>1. \A q \in Runs : Sealed(run[q]) => Sealed(run'[q]) /\ run'[q].task = run[q].task
  BY <1>0 DEF Honest
<1>2. \A q \in Runs : ReadsBack(run'[q])
  BY <1>0 DEF RealInv, Honest
<1>3. \A t \in Tasks : Claimed(t)' => Claimed(t) \/ Proven(t)'
  <2> TAKE t \in Tasks
  <2>1. run[r].task = t /\ RunGives(r).status = "succeeded" => Claimed(t)
    BY DEF RunGives, NoRec, Claimed, Claims
  <2>2. ASSUME NEW q \in Runs, run'[q].task = t, Claims(run'[q])
        PROVE  Claimed(t) \/ Proven(t)'
    BY <1>0, <2>2 DEF Honest, Claimed, Proven
  <2>3. record'[t].status = "succeeded" \/ staged'[t].status = "succeeded" => Claimed(t)
    BY <1>0, <2>1, FilesSay DEF Claimed, Statuses, Final
  <2> QED
    BY <1>0, <2>2, <2>3 DEF Claimed
<1> QED
  BY <1>1, <1>2, <1>3, RealKept

LEMMA LoopReal ==
  ASSUME TypeInv, RealInv, FilesFrom(client.task, client.doc), Holds({"succeeded"}),
         \A q \in Runs : \/ run'[q] = run[q]
                         \/ ~Sealed(run[q]) /\ run'[q].pc \notin Threaded
  PROVE  RealInv'
<1>1. \A q \in Runs : Sealed(run[q]) => Sealed(run'[q]) /\ run'[q].task = run[q].task
  OBVIOUS
<1>2. \A q \in Runs : ReadsBack(run'[q])
  BY DEF RealInv, ReadsBack, Threaded
<1>3. \A q \in Runs : Claims(run'[q]) => run'[q] = run[q]
  BY DEF Claims, Threaded
<1>4. \A t \in Tasks : Claimed(t)' => Claimed(t)
  BY <1>3, FilesSay DEF Claimed, Holds, Statuses, Final
<1> QED
  BY <1>1, <1>2, <1>4, RealKept

LEMMA CrashReal == ASSUME RealInv, Crash PROVE RealInv'
<1>1. \A q \in Runs : ReadsBack(run'[q]) /\ ~Claims(run'[q])
  BY CrashLooks DEF ReadsBack, Claims
<1>2. \A t \in Tasks : Claimed(t)' => Claimed(t)
  BY <1>1, CrashLooks DEF Claimed
<1> QED
  BY <1>1, <1>2, CrashLooks, RealKept

LEMMA NextRealInv == TypeInv /\ RealInv /\ [Next]_vars => RealInv'
<1> SUFFICES ASSUME TypeInv, RealInv, [Next]_vars PROVE RealInv'
  OBVIOUS
<1>1. CASE LoopCall
  <2>1. Holds({"succeeded"})
    BY <1>1, LoopHolds DEF Verdicts
  <2>2. \A q \in Runs : \/ run'[q] = run[q]
                        \/ ~Sealed(run[q]) /\ run'[q].pc \notin Threaded
    BY <1>1, LoopRuns DEF LoopOnRuns, Sealed, Done, Threaded
  <2> QED
    BY <1>1, <2>1, <2>2, LoopFiles, LoopReal
<1>2. ASSUME NEW t \in Tasks, NEW r \in Runs, StartNew(t, r) PROVE RealInv'
  <2>1. Holds({"succeeded"})
    BY <1>2, NewRun DEF Holds
  <2>2. \A q \in Runs : \/ run'[q] = run[q]
                        \/ ~Sealed(run[q]) /\ run'[q].pc \notin Threaded
    BY <1>2, NewRun DEF Sealed, Done, Threaded
  <2> QED
    BY <1>2, <2>1, <2>2, NewRun, LoopReal
<1>3. ASSUME NEW r \in Runs, RunStep(r) PROVE RealInv'
  BY <1>3, RunStepReal
<1>4. CASE UNCHANGED <<record, staged, client, run>>
  BY <1>4 DEF RealInv, Claimed, Proven
<1>5. ASSUME NEW r \in Runs, Tick(r) \/ OrphanExits(r) PROVE RealInv'
  BY <1>4, <1>5 DEF Tick, OrphanExits
<1>6. CASE Crash
  BY <1>6, CrashReal
<1> QED
  BY <1>1, <1>2, <1>3, <1>4, <1>5, <1>6 DEF Next, LoopCall, vars

LEMMA AlwaysRealInv == Spec => []RealInv
  BY InitRealInv, AlwaysTypeInv, NextRealInv, PTL DEF Spec

\* A record says "succeeded" only if a run of the task did succeed, whatever the loop
\* and other runs of the task read and wrote in between, after any restart, pruning or
\* crash, and whichever thread published which other thread's temporary file.
THEOREM SuccessHolds == Spec => []SuccessIsReal
<1>1. RealInv => SuccessIsReal
  BY DEF RealInv, Claimed, Proven, Sealed, SuccessIsReal
<1> QED
  BY <1>1, AlwaysRealInv, PTL

-----------------------------------------------------------------------------
(***************************************************************************)
(* Verdicts and subprocesses, without restarts and pruning.  While a task  *)
(* has a run that may have a subprocess nobody has a verdict to write: the *)
(* run has none yet, no other run is live, and the loop comes to one only  *)
(* where it knows that no run is open.                                     *)
(***************************************************************************)

LEMMA InitStrayInv == Init => StrayInv
  BY DEF Init, StrayInv, AtWork, Told, ToldLast, Verdicts, NoRec, Idle, Fresh

LEMMA WorkIsLive == \A r \in Runs : AtWork(run[r]) => Live(r)
  BY DEF AtWork, Live, Threaded

\* What every step but the start of a new run has to show: it puts no run to work,
\* deletes no record, and a new verdict is of a task with no run at work.
LEMMA StrayKept ==
  ASSUME StrayInv,
         \A q \in Runs : AtWork(run'[q]) => AtWork(run[q]) /\ run'[q].task = run[q].task,
         \A q \in Runs : ToldLast(run'[q]),
         \A t \in Tasks : record[t] # NoRec => record'[t] # NoRec,
         \A q \in Runs : AtWork(run[q]) => run[q].task \in Tasks,
         \A t \in Tasks : Told(t)' =>
             \/ Told(t)
             \/ /\ record'[t] # NoRec
                /\ \A q \in Runs : AtWork(run[q]) => run[q].task # t
  PROVE  StrayInv'
<1>1. \A q \in Runs : AtWork(run'[q]) => ~Told(run[q].task)'
  BY DEF StrayInv
<1>2. \A t \in Tasks : Told(t)' => record'[t] # NoRec
  BY DEF StrayInv
<1> QED
  BY <1>1, <1>2 DEF StrayInv

LEMMA WorkersTask == ASSUME TypeInv PROVE \A q \in Runs : AtWork(run[q]) => run[q].task \in Tasks
  BY DEF TypeInv, RunShape, AtWork

LEMMA RunStepStray ==
  ASSUME TypeInv, CancelInv, RealInv, StrayInv, NEW r \in Runs, RunStep(r) PROVE StrayInv'
<1> DEFINE me == run[r]
<1>0. Honest(r) /\ FilesFrom(me.task, RunGives(r)) /\ client' = client
  BY OwnHonest, RunFiles, RunLeavesLoop
<1>1. Open(r) /\ \A t \in Tasks : record[t] # NoRec => record'[t] # NoRec
  <2>1. CASE RunClean(r)
    BY <2>1 DEF RunClean, RunIs, Open, Threaded
  <2>2. CASE ~RunClean(r)
    BY <2>2, RunStepMoves DEF Moves
  <2> QED
    BY <2>1, <2>2
<1>2. Live(r) /\ me.task \in Tasks /\ record[me.task] # NoRec
  BY <1>1, OpenIsLive DEF CancelInv, Recorded, Open, Threaded, TypeInv, RunShape
<1>3. \A q \in Runs : /\ AtWork(run'[q]) => AtWork(run[q]) /\ run'[q].task = run[q].task
                      /\ ToldLast(run'[q])
  BY <1>0 DEF Honest, StrayInv
<1>4. RunGives(r).status \in Verdicts =>
        \A q \in Runs : AtWork(run[q]) => run[q].task # me.task
  <2>1. ASSUME RunGives(r).status \in Verdicts PROVE ~AtWork(me)
    <3>1. me.pc \in {"stage", "fill"} /\ me.doc.status \in Verdicts
      BY <2>1 DEF RunGives, NoRec, Verdicts
    <3> QED
      BY <3>1 DEF StrayInv, ToldLast, AtWork
  <2>2. \A q \in Runs : AtWork(run[q]) /\ run[q].task = me.task => q = r
    BY <1>2, WorkIsLive DEF CancelInv, OneRunPerTask
  <2> QED
    BY <2>1, <2>2
<1>5. ASSUME NEW t \in Tasks, Told(t)'
      PROVE  \/ Told(t)
             \/ /\ record'[t] # NoRec
                /\ \A q \in Runs : AtWork(run[q]) => run[q].task # t
  <2>1. \/ Told(t)
        \/ t = me.task /\ RunGives(r).status \in Verdicts
    BY <1>0, <1>5, FilesSay DEF Told, Verdicts, Statuses, Final
  <2> QED
    BY <1>1, <1>2, <1>4, <2>1
<1> QED
  BY <1>1, <1>3, <1>5, WorkersTask, StrayKept

LEMMA LoopStray ==
  ASSUME Quiet, TypeInv, CancelInv, StrayInv, LoopCall PROVE StrayInv'
<1>0. FilesFrom(client.task, client.doc) /\ LoopOnRuns
  BY LoopFiles, LoopRuns
<1>1. \A t \in Tasks : record[t] # NoRec => record'[t] # NoRec
  <2>1. CASE \E t \in Tasks : StartExisting(t)
    BY <2>1, NothingPruned DEF StartExisting, Prune, CancelInv
  <2>2. CASE ClientPublish
    BY <2>2 DEF ClientPublish, Renames, TypeInv, TypeOK
  <2>a. CASE ClientFill
    BY <2>a, FillsType DEF ClientFill, ClientIs, TypeInv, ClientShape
  <2>3. CASE record' = record
    BY <2>3
  <2> QED
    BY <2>1, <2>2, <2>a, <2>3
       DEF LoopCall, StatusOp, CancelOp, ClientStep, ClientStage, Submit, StoreFuture,
           ReadStatus, ResultExpiry, IgnoreCancel, Signal, WithdrawFuture, SignalProcess,
           Settle, ClientClean
<1>2. \A q \in Runs : /\ AtWork(run'[q]) => AtWork(run[q]) /\ run'[q].task = run[q].task
                      /\ ToldLast(run'[q])
  BY <1>0 DEF LoopOnRuns, AtWork, ToldLast, StrayInv
<1>3. \A t \in Tasks : record'[t].status \in Verdicts \/ staged'[t].status \in Verdicts => Told(t)
  BY <1>0, FilesSay DEF Told, Verdicts, Statuses, Final
<1>4. CASE ~Settle
  <2>1. Holds(Verdicts)
    BY <1>4, LoopHolds
  <2>2. \A t \in Tasks : Told(t)' => Told(t)
    BY <1>3, <2>1 DEF Told, Holds
  <2> QED
    BY <1>1, <1>2, <2>2, WorkersTask, StrayKept
<1>5. CASE Settle
  <2> DEFINE p == record[client.task]
             over == client.settled \/ run[client.run].pc \in Done
  <2>1. client.pc = "settle" /\ client.task \in Tasks /\ UNCHANGED <<record, staged, run>>
    BY <1>5 DEF Settle, ClientIs, TypeInv, ClientShape
  <2>2. CASE ~(over /\ Readable(p) /\ p.status \notin Final)
    <3>1. ClientReads(client.task) \/ client' = Idle
      BY <1>5, <2>2 DEF Settle
    <3>2. Holds(Verdicts)
      BY <2>1, <3>1, LetsGo DEF Verdicts
    <3>3. \A t \in Tasks : Told(t)' => Told(t)
      BY <1>3, <3>2 DEF Told, Holds
    <3> QED
      BY <1>1, <1>2, <3>3, WorkersTask, StrayKept
  <2>3. CASE over /\ Readable(p) /\ p.status \notin Final
    <3>1. ClientPersists(Cancelled(p), "clean")
      BY <1>5, <2>3 DEF Settle
    <3>2. client'.task = client.task
      BY <3>1 DEF ClientPersists, TypeInv, TypeOK, ClientState
    <3>3. \A r \in Runs : Open(r) => run[r].task # client.task
      BY <2>1, <2>3 DEF CancelInv, LoopKnows, Cancelling, Settling, Open, Threaded, Done
    <3>4. \A r \in Runs : AtWork(run[r]) => Open(r)
      BY <2>1, WorkIsLive, OpenIsLive DEF CancelInv, StartsInLoop, Starting
    <3>5. ASSUME NEW t \in Tasks, Told(t)'
          PROVE  \/ Told(t)
                 \/ /\ record'[t] # NoRec
                    /\ \A q \in Runs : AtWork(run[q]) => run[q].task # t
      <4>1. Told(t) \/ t = client.task
        BY <1>3, <3>2, <3>5 DEF Told
      <4> QED
        BY <2>1, <2>3, <3>3, <3>4, <4>1, FileFacts
    <3> QED
      BY <1>1, <1>2, <3>5, WorkersTask, StrayKept
  <2> QED
    BY <2>2, <2>3
<1> QED
  BY <1>4, <1>5

\* A new run is started where there is no record: nobody has a verdict to write.
LEMMA StartNewStray ==
  ASSUME Quiet, TypeInv, CancelInv, StrayInv, NEW t \in Tasks, NEW r \in Runs, StartNew(t, r)
  PROVE  StrayInv'
<1>1. record' = record /\ staged' = staged /\ record[t] = NoRec
  BY NothingPruned DEF StartNew, Prune, Quiet, CancelInv
<1>2. \A u \in Tasks : Told(u)' => Told(u)
  BY <1>1, NewRun DEF Told, Verdicts
<1>3. ~Told(t)'
  BY <1>1, <1>2 DEF StrayInv
<1>4. \A u \in Tasks : Told(u)' => record'[u] # NoRec
  BY <1>1, <1>2 DEF StrayInv
<1>5. \A q \in Runs : ToldLast(run'[q])
  BY NewRun DEF StrayInv, ToldLast
<1>6. ASSUME NEW q \in Runs, AtWork(run'[q]) PROVE ~Told(run[q].task)'
  <2>1. CASE q = r
    <3>1. run'[q].task = t
      BY <2>1, NewRun
    <3> QED
      BY <1>3, <3>1 DEF Told
  <2>2. CASE q # r
    <3>1. run'[q] = run[q] /\ run[q].task \in Tasks /\ ~Told(run[q].task)
      BY <1>6, <2>2, NewRun, WorkersTask DEF StrayInv
    <3> QED
      BY <1>2, <3>1
  <2> QED
    BY <2>1, <2>2
<1> QED
  BY <1>4, <1>5, <1>6 DEF StrayInv

LEMMA CrashStray == ASSUME StrayInv, Crash PROVE StrayInv'
<1>1. \A q \in Runs : ~AtWork(run'[q]) /\ ToldLast(run'[q])
  BY CrashLooks DEF AtWork, ToldLast
<1>2. \A t \in Tasks : Told(t)' => record'[t] # NoRec
  BY CrashLooks DEF StrayInv, Told, Verdicts
<1> QED
  BY <1>1, <1>2 DEF StrayInv

LEMMA NextStrayInv ==
  ASSUME Quiet PROVE TypeInv /\ CancelInv /\ RealInv /\ StrayInv /\ [Next]_vars => StrayInv'
<1> SUFFICES ASSUME TypeInv, CancelInv, RealInv, StrayInv, [Next]_vars PROVE StrayInv'
  OBVIOUS
<1>1. CASE LoopCall
  BY <1>1, LoopStray
<1>2. ASSUME NEW t \in Tasks, NEW r \in Runs, StartNew(t, r) PROVE StrayInv'
  BY <1>2, StartNewStray
<1>3. ASSUME NEW r \in Runs, RunStep(r) PROVE StrayInv'
  BY <1>3, RunStepStray
<1>4. CASE UNCHANGED <<record, staged, client, run>>
  BY <1>4 DEF StrayInv, Told
<1>5. ASSUME NEW r \in Runs, Tick(r) \/ OrphanExits(r) PROVE StrayInv'
  BY <1>4, <1>5 DEF Tick, OrphanExits
<1>6. CASE Crash
  BY <1>6, CrashStray
<1> QED
  BY <1>1, <1>2, <1>3, <1>4, <1>5, <1>6 DEF Next, LoopCall, vars

LEMMA AlwaysStrayInv == ASSUME Quiet PROVE Spec => []StrayInv
<1>1. Init => StrayInv
  BY InitStrayInv
<1>2. TypeInv /\ CancelInv /\ RealInv /\ StrayInv /\ [Next]_vars => StrayInv'
  BY NextStrayInv
<1> QED
  BY <1>1, <1>2, AlwaysTypeInv, AlwaysCancelInv, AlwaysRealInv, PTL DEF Spec

\* Without restarts and pruning, no record calls a task over while the server that
\* started its subprocess runs and the subprocess exists: neither the thread, which
\* has waited for it or killed it, nor a cancel that settles the task, nor a document
\* that someone read earlier and still has to write.
THEOREM NoStray == ASSUME Quiet PROVE Spec => []NoStrayProcess
<1>1. CancelInv /\ StrayInv => NoStrayProcess
  BY DEF CancelInv, Watches, StrayInv, AtWork, Told, Verdicts, NoStrayProcess
<1> QED
  BY <1>1, AlwaysCancelInv, AlwaysStrayInv, PTL

-----------------------------------------------------------------------------
(***************************************************************************)
(* The refinement of the contract: AskInv is inductive where nobody        *)
(* restarts, nothing expires and the server stays up, and under it every   *)
(* step is one of the contract or leaves its variables alone.              *)
(***************************************************************************)

LEMMA NoRecAsks == ~CancelAsked(NoRec)
  BY DEF CancelAsked, NoRec

LEMMA InitAskInv == Init => AskInv
<1> SUFFICES ASSUME Init PROVE AskInv
  OBVIOUS
<1>1. /\ \A t \in Tasks : record[t] = NoRec /\ staged[t] = NoRec
      /\ \A t \in Tasks : events[t] = None /\ futures[t] = None
      /\ client.pc = "idle" /\ client.doc = NoRec /\ fired = {}
  BY DEF Init, Idle
<1>2. \A r \in Runs : run[r].pc = "unused" /\ run[r].payload = NoRec /\ run[r].result = "none"
  BY DEF Init, Fresh
<1>3. \A t \in Tasks : ~Heard(t)
  BY <1>1, NoRecAsks DEF Heard
<1>4. \A r \in Runs : ~AtWork(run[r])
  BY <1>2 DEF AtWork
<1>5. RunsFit
  BY <1>2, <1>4 DEF RunsFit, Untouched, Knows, DocFits
<1>6. Registered /\ NeverExpired
  BY <1>1, NoneAssumption DEF Registered, NeverExpired, NoRec
<1>7. LoopFits
  BY <1>1 DEF LoopFits, NoRec
<1>8. HandlesHeld /\ Untorn
  BY <1>2 DEF Init, HandlesHeld, Untorn, Writers
<1> QED
  BY <1>3, <1>4, <1>5, <1>6, <1>7, <1>8 DEF AskInv, HeardFires, HeardRecorded

LEMMA CalmFacts ==
  ASSUME Calm, TypeInv, CancelInv
  PROVE  Quiet /\ ~Crash /\ \A p : ~Aged(p)
<1>1. Quiet
  BY DEF Calm, Quiet
<1>2. ~Crash
  BY DEF Calm, Crash, TypeInv, TypeOK
<1>3. \A p : ~Aged(p)
  BY DEF Calm, Aged, CancelInv, NotRetired, TypeInv, TypeOK
<1> QED
  BY <1>1, <1>2, <1>3

\* A run at work finds its own event, set or not.
LEMMA OwnEvent ==
  ASSUME CancelInv, NEW r \in Runs, Open(r) PROVE CancelSeen(run[r].task) <=> r \in fired
  BY NoneAssumption DEF CancelInv, EventFound, CancelSeen

\* What every step has to show of requests.
LEMMA HeardKept ==
  ASSUME TypeInv, HeardFires, HeardRecorded, fired \subseteq fired',
         \A q \in Runs : AtWork(run'[q]) => AtWork(run[q]) /\ run'[q].task = run[q].task,
         \A t \in Tasks : record[t] # NoRec => record'[t] # NoRec,
         \A t \in Tasks : Heard(t)' =>
             \/ Heard(t)
             \/ /\ record'[t] # NoRec
                /\ \A q \in Runs : AtWork(run[q]) /\ run[q].task = t => q \in fired'
  PROVE  HeardFires' /\ HeardRecorded'
<1>1. \A q \in Runs : AtWork(run'[q]) /\ Heard(run[q].task)' => q \in fired'
  BY WorkersTask DEF HeardFires
<1>2. \A t \in Tasks : Heard(t)' => record'[t] # NoRec
  BY DEF HeardRecorded
<1> QED
  BY <1>1, <1>2 DEF HeardFires, HeardRecorded

-----------------------------------------------------------------------------
\* The steps of a thread, and what they mean to the contract.

PhaseOf(me) ==
    CASE me.pc \in {"unused", "starting"} -> "none"
      [] me.pc = "queued" -> "accepted"
      [] me.pc \in {"stage", "fill", "publish"} /\ me.doc.status # "running" -> me.doc.status
      [] me.pc = "failed" -> "failed"
      [] me.pc \in Done \cup {"clean"} -> "over"
      [] OTHER -> "working"

LEMMA PhaseFacts ==
  ASSUME NEW me, me.pc \in RunPCs
  PROVE  /\ me.pc \in {"unused", "starting"} => PhaseOf(me) = "none"
         /\ me.pc = "queued" => PhaseOf(me) = "accepted"
         /\ me.pc \in {"stage", "fill", "publish"} /\ me.doc.status # "running" =>
               PhaseOf(me) = me.doc.status
         /\ me.pc \in {"stage", "fill", "publish"} /\ me.doc.status = "running" =>
               PhaseOf(me) = "working"
         /\ me.pc = "failed" => PhaseOf(me) = "failed"
         /\ me.pc \in Done \cup {"clean"} => PhaseOf(me) = "over"
         /\ me.pc \in {"check", "work", "reread", "recheck", "attempt", "launch", "popen",
                       "subprocess", "reap", "judge", "finish"} => PhaseOf(me) = "working"
<1>1. CASE me.pc \in {"unused", "starting"}
  BY <1>1 DEF PhaseOf, Done
<1>2. CASE me.pc = "queued"
  BY <1>2 DEF PhaseOf, Done
<1>3. CASE me.pc \in {"stage", "fill", "publish"}
  BY <1>3 DEF PhaseOf, Done
<1>4. CASE me.pc = "failed"
  BY <1>4 DEF PhaseOf, Done
<1>5. CASE me.pc \in Done \cup {"clean"}
  BY <1>5 DEF PhaseOf, Done
<1>6. CASE me.pc \in {"check", "work", "reread", "recheck", "attempt", "launch", "popen",
                      "subprocess", "reap", "judge", "finish"}
  BY <1>6 DEF PhaseOf, Done
<1> QED
  BY <1>1, <1>2, <1>3, <1>4, <1>5, <1>6 DEF RunPCs, Threaded, Done

\* From one phase to the next, as the contract has it.
Advances(r, old, new) ==
    \/ new = old
    \/ old = "accepted" /\ new = "working"
    \/ old = "working" /\ new = "failed"
    \/ old = "working" /\ new = "succeeded" /\ r \notin fired
    \/ old = "working" /\ new = "cancelled" /\ r \in fired
    \/ old \in {"succeeded", "cancelled"} /\ new = "failed"
    \/ old \in Verdicts \cup {"working"} /\ new = "over"

Fits(r, new) ==
    /\ Knows(new, r) /\ DocFits(new)
    /\ Advances(r, PhaseOf(run[r]), PhaseOf(new))

\* A thread with its work behind it persists a verdict.
LEMMA VerdictFits ==
  ASSUME TypeInv, NEW r \in Runs, NEW new \in RunState,
         run[r].pc \in {"check", "recheck", "failed", "finish"},
         new.pc = "stage", new.then = "clean", new.doc.status \in Verdicts,
         new.fail = "failed" => new.doc.status \in {"succeeded", "cancelled"},
         run[r].pc = "failed" => new.doc.status = "failed",
         new.doc.status = "succeeded" => r \notin fired,
         new.doc.status = "cancelled" => r \in fired
  PROVE  Fits(r, new)
<1>1. run[r].pc \in RunPCs /\ new.pc \in RunPCs
  BY DEF TypeInv, TypeOK, RunState
<1>2. PhaseOf(new) = new.doc.status
  BY <1>1, PhaseFacts DEF Verdicts
<1>3. PhaseOf(run[r]) = IF run[r].pc = "failed" THEN "failed" ELSE "working"
  BY <1>1, PhaseFacts
<1>4. ~AtWork(new) /\ DocFits(new)
  BY DEF AtWork, DocFits
<1>5. Advances(r, PhaseOf(run[r]), PhaseOf(new))
  BY <1>2, <1>3 DEF Advances, Verdicts
<1> QED
  BY <1>4, <1>5 DEF Fits, Knows

\* What it looks like when it does.
LEMMA PersistingFail ==
  ASSUME TypeInv, NEW r \in Runs, NEW doc, NEW pc, NEW err
  PROVE  Persisting(r, doc, pc, err).fail = err
  BY DEF Persisting, TypeInv, TypeOK, RunState

LEMMA CheckFits ==
  ASSUME TypeInv, CancelInv, AskInv, NEW r \in Runs, Check(r) PROVE Fits(r, run'[r])
<1> DEFINE me == run[r]
<1>1. /\ me.pc = "check" /\ me.payload \in Rec /\ me.payload \in MaybeRec
      /\ run \in [Runs -> RunState] /\ me \in RunState
  BY DocTypes DEF Check, RunIs, TypeInv, TypeOK, RunShape, Threaded
<1>2. CASE CancelAsked(me.payload) \/ CancelSeen(me.task)
  <2> DEFINE doc == Cancelled(me.payload)
             new == Persisting(r, doc, "clean", "ended")
  <2>1. run'[r] = new
    BY <1>1, <1>2 DEF Check, RunBecomes
  <2>2. doc \in Rec /\ doc.status = "cancelled"
    BY <1>1, DocTypes
  <2>3. new \in RunState /\ new.pc = "stage" /\ new.then = "clean" /\ new.doc = doc
    BY <1>1, <2>2, PersistingLooks DEF Threaded
  <2>4. new.fail = "ended"
    BY PersistingFail
  <2>5. r \in fired
    <3>1. AtWork(me) /\ Open(r)
      BY <1>1 DEF AtWork, Open, Threaded
    <3> QED
      BY <1>2, <3>1, OwnEvent DEF AskInv, RunsFit, Knows
  <2> HIDE DEF new, doc
  <2>6. Fits(r, new)
    BY <1>1, <2>2, <2>3, <2>4, <2>5, VerdictFits DEF Verdicts
  <2> QED
    BY <2>1, <2>6
<1>3. CASE ~(CancelAsked(me.payload) \/ CancelSeen(me.task))
  <2> DEFINE doc == Marked(me.payload, "running")
             pc == IF me.task \in Mutating THEN "attempt" ELSE "work"
             base == Persisting(r, doc, pc, "ended")
             new == [base EXCEPT !.payload = doc]
  <2>1. run'[r] = new
    BY <1>1, <1>3 DEF Check, RunBecomes
  <2>2. doc \in Rec /\ doc.status = "running" /\ doc \in MaybeRec
    BY <1>1, DocTypes DEF Statuses
  <2>3. ~doc.cancel /\ ~CancelAsked(doc)
    BY <1>1, <1>3 DEF CancelAsked, Marked, Rec
  <2>4. /\ base \in RunState /\ base.pc = "stage" /\ base.then = pc /\ base.doc = doc
        /\ base.result = me.result
    BY <1>1, <2>2, PersistingLooks DEF Threaded
  <2>5. base.fail = "ended"
    BY PersistingFail
  <2>a. pc \in {"work", "attempt"}
    OBVIOUS
  <2> HIDE DEF base, doc, pc
  <2>6. /\ new \in RunState /\ new.pc = "stage" /\ new.then = pc /\ new.doc = doc
        /\ new.result = me.result /\ new.payload = doc /\ new.fail = "ended"
    BY <2>2, <2>4, <2>5 DEF RunState
  <2> HIDE DEF new
  <2>7. Knows(new, r)
    BY <1>1, <2>3, <2>6 DEF Knows, AskInv, RunsFit, AtWork
  <2>8. DocFits(new)
    BY <2>2, <2>3, <2>6, <2>a DEF DocFits
  <2>9. PhaseOf(me) = "working" /\ PhaseOf(new) = "working"
    BY <1>1, <2>2, <2>6, PhaseFacts DEF RunPCs, Threaded
  <2> QED
    BY <2>1, <2>7, <2>8, <2>9 DEF Fits, Advances
<1> QED
  BY <1>2, <1>3

LEMMA RecheckFits ==
  ASSUME TypeInv, CancelInv, AskInv, NEW r \in Runs, Recheck(r) PROVE Fits(r, run'[r])
<1> DEFINE me == run[r]
<1>1. /\ me.pc = "recheck" /\ me.payload \in Rec /\ me.doc \in Rec
      /\ run \in [Runs -> RunState] /\ me \in RunState
  BY DEF Recheck, RunIs, TypeInv, TypeOK, RunShape, Threaded
<1>a. AtWork(me) /\ Open(r)
  BY <1>1 DEF AtWork, Open, Threaded
<1>2. CASE CancelAsked(me.doc) \/ CancelSeen(me.task)
  <2> DEFINE doc == Cancelled(me.doc)
             new == Persisting(r, doc, "clean", "failed")
  <2>1. run'[r] = new
    BY <1>1, <1>2 DEF Recheck, RunBecomes
  <2>2. doc \in Rec /\ doc.status = "cancelled"
    BY <1>1, DocTypes
  <2>3. new \in RunState /\ new.pc = "stage" /\ new.then = "clean" /\ new.doc = doc
    BY <1>1, <2>2, PersistingLooks DEF Threaded
  <2>4. r \in fired
    BY <1>1, <1>2, <1>a, OwnEvent DEF AskInv, RunsFit, Knows
  <2> HIDE DEF new, doc
  <2>5. Fits(r, new)
    BY <1>1, <2>2, <2>3, <2>4, VerdictFits DEF Verdicts
  <2> QED
    BY <2>1, <2>5
<1>3. CASE ~(CancelAsked(me.doc) \/ CancelSeen(me.task))
  <2> DEFINE doc == Marked(me.payload, "succeeded")
             base == Persisting(r, doc, "clean", "failed")
             new == [base EXCEPT !.payload = doc]
  <2>1. run'[r] = new
    BY <1>1, <1>3 DEF Recheck, RunBecomes
  <2>2. doc \in Rec /\ doc \in MaybeRec /\ doc.status = "succeeded"
    BY <1>1, DocTypes DEF Statuses, Final
  <2>3. base \in RunState /\ base.pc = "stage" /\ base.then = "clean" /\ base.doc = doc
    BY <1>1, <2>2, PersistingLooks DEF Threaded
  <2> HIDE DEF base, doc
  <2>4. new \in RunState /\ new.pc = "stage" /\ new.then = "clean" /\ new.doc = doc
    BY <2>2, <2>3 DEF RunState
  <2>5. r \notin fired
    BY <1>3, <1>a, OwnEvent
  <2> HIDE DEF new
  <2>6. Fits(r, new)
    BY <1>1, <2>2, <2>4, <2>5, VerdictFits DEF Verdicts
  <2> QED
    BY <2>1, <2>6
<1> QED
  BY <1>2, <1>3

LEMMA ReportFailedFits ==
  ASSUME TypeInv, NEW r \in Runs, ReportFailed(r) PROVE Fits(r, run'[r])
<1> DEFINE doc == Marked(run[r].payload, "failed")
           new == Persisting(r, doc, "clean", "ended")
<1>1. run[r].pc = "failed" /\ run[r].payload \in Rec /\ run \in [Runs -> RunState]
  BY DEF ReportFailed, RunIs, TypeInv, TypeOK, RunShape, Threaded
<1>2. run'[r] = new
  BY <1>1 DEF ReportFailed, RunBecomes
<1>3. doc \in Rec /\ doc.status = "failed"
  BY <1>1, DocTypes DEF Statuses, Final
<1>4. new \in RunState /\ new.pc = "stage" /\ new.then = "clean" /\ new.doc = doc
  BY <1>1, <1>3, PersistingLooks DEF Threaded
<1>5. new.fail = "ended"
  BY PersistingFail
<1> HIDE DEF new, doc
<1>6. Fits(r, new)
  BY <1>1, <1>3, <1>4, <1>5, VerdictFits DEF Verdicts
<1> QED
  BY <1>2, <1>6

LEMMA FinishFits ==
  ASSUME TypeInv, CancelInv, AskInv, NEW r \in Runs, Finish(r) PROVE Fits(r, run'[r])
<1> DEFINE me == run[r]
<1>1. /\ me.pc = "finish" /\ me.payload \in Rec /\ run \in [Runs -> RunState]
  BY DEF Finish, RunIs, TypeInv, TypeOK, RunShape, Threaded
<1>2. (me.result = "cancelled" => r \in fired) /\ (CancelSeen(me.task) <=> r \in fired)
  <2>1. AtWork(me) /\ Open(r)
    BY <1>1 DEF AtWork, Open, Threaded
  <2> QED
    BY <2>1, OwnEvent DEF AskInv, RunsFit, Knows
<1>3. PICK doc :
          /\ RunBecomes(r, Persisting(r, doc, "clean", "ended"))
          /\ \/ doc = Cancelled(me.payload) /\ r \in fired
             \/ doc = Marked(me.payload, "failed")
             \/ doc = Marked(me.payload, "succeeded") /\ r \notin fired
  BY <1>2 DEF Finish
<1>a. /\ Cancelled(me.payload) \in Rec /\ Cancelled(me.payload).status = "cancelled"
      /\ Marked(me.payload, "failed") \in Rec
      /\ Marked(me.payload, "failed").status = "failed"
      /\ Marked(me.payload, "succeeded") \in Rec
      /\ Marked(me.payload, "succeeded").status = "succeeded"
  BY <1>1, DocTypes DEF Statuses, Final
<1>4. /\ doc \in Rec /\ doc.status \in Verdicts
      /\ doc.status = "succeeded" => r \notin fired
      /\ doc.status = "cancelled" => r \in fired
  BY <1>3, <1>a DEF Verdicts
<1> DEFINE new == Persisting(r, doc, "clean", "ended")
<1>5. new \in RunState /\ new.pc = "stage" /\ new.then = "clean" /\ new.doc = doc
  BY <1>1, <1>4, PersistingLooks DEF Threaded
<1>6. new.fail = "ended"
  BY PersistingFail
<1>7. run'[r] = new
  BY <1>1, <1>3 DEF RunBecomes
<1> HIDE DEF new
<1>8. Fits(r, new)
  BY <1>1, <1>4, <1>5, <1>6, VerdictFits
<1> QED
  BY <1>7, <1>8


\* Between two steps of the work, or from it to its failure.
Working == {"work", "reread", "recheck", "attempt", "launch", "popen", "subprocess", "reap",
            "judge", "finish"}
LEMMA WorkFits ==
  ASSUME TypeInv, NEW r \in Runs, NEW new, run[r].pc \in Working,
         new.pc \in Working \cup {"failed"}, Knows(new, r)
  PROVE  Fits(r, new)
<1>1. run[r].pc \in RunPCs /\ new.pc \in RunPCs
  BY DEF Working, RunPCs, Threaded
<1>2. PhaseOf(run[r]) = "working"
  BY <1>1, PhaseFacts DEF Working
<1>3. PhaseOf(new) \in {"working", "failed"}
  BY <1>1, PhaseFacts DEF Working
<1>4. DocFits(new)
  BY DEF DocFits, Working
<1> QED
  BY <1>2, <1>3, <1>4 DEF Fits, Advances

\* A step of the work that reads nothing.
LEMMA StillKnows ==
  ASSUME TypeInv, AskInv, NEW r \in Runs, AtWork(run[r]), NEW new,
         new.payload = run[r].payload, new.pc # "recheck",
         new.result = run[r].result \/ (new.result = "cancelled" => r \in fired)
  PROVE  Knows(new, r)
  BY DEF AskInv, RunsFit, Knows

LEMMA WorkStepFits ==
  ASSUME TypeInv, CancelInv, AskInv, NEW r \in Runs,
         \/ Report(r) \/ Reread(r) \/ Attempt(r) \/ Launch(r) \/ Popen(r) \/ Subprocess(r)
         \/ PipeCloses(r) \/ Judge(r)
  PROVE  Fits(r, run'[r])
<1> DEFINE me == run[r]
<1>0. /\ me \in RunState /\ run \in [Runs -> RunState] /\ me.pc \in Working
      /\ AtWork(me) /\ Open(r) /\ me.task \in Tasks
  BY DEF TypeInv, TypeOK, RunShape, Report, Reread, Attempt, Launch, Popen, Subprocess,
         PipeCloses, Judge, RunIs, Working, AtWork, Open, Threaded
<1>1. CASE Report(r)
  <2>1. /\ run'[r].payload = me.payload /\ run'[r].result \in {"ok", "failed"}
        /\ run'[r].pc \in {"reread", "failed"}
    <3>1. CASE RunBecomes(r, [me EXCEPT !.pc = "reread", !.result = "ok"])
      BY <1>0, <3>1 DEF RunBecomes, RunState
    <3>2. CASE RunBecomes(r, [me EXCEPT !.pc = "failed", !.result = "failed"])
      BY <1>0, <3>2 DEF RunBecomes, RunState
    <3> QED
      BY <1>1, <3>1, <3>2 DEF Report
  <2> QED
    BY <1>0, <2>1, WorkFits, StillKnows DEF Working
<1>2. CASE Reread(r)
  <2>1. CASE ~Readable(record[me.task])
    <3>1. /\ run'[r].payload = me.payload /\ run'[r].result = me.result
          /\ run'[r].pc = "failed"
      BY <1>0, <1>2, <2>1 DEF Reread, RunGoes, RunBecomes, RunState
    <3> QED
      BY <1>0, <3>1, WorkFits, StillKnows
  <2>2. CASE Readable(record[me.task])
    <3>1. /\ run'[r].payload = me.payload /\ run'[r].result = me.result
          /\ run'[r].pc = "recheck" /\ run'[r].doc = record[me.task]
      BY <1>0, <1>2, <2>2 DEF Reread, RunBecomes, RunState
    <3>2. CancelAsked(record[me.task]) => r \in fired
      BY <1>0 DEF AskInv, HeardFires, Heard
    <3>3. Knows(run'[r], r)
      BY <1>0, <3>1, <3>2 DEF AskInv, RunsFit, Knows
    <3> QED
      BY <1>0, <3>1, <3>3, WorkFits DEF Working
  <2> QED
    BY <2>1, <2>2
<1>3. CASE Attempt(r)
  <2>1. /\ run'[r].payload = me.payload /\ run'[r].pc \in {"finish", "launch"}
        /\ run'[r].result = me.result \/ CancelSeen(me.task)
    <3>1. CASE CancelSeen(me.task)
      BY <1>0, <1>3, <3>1 DEF Attempt, RunBecomes, RunState
    <3>2. CASE ~CancelSeen(me.task)
      BY <1>0, <1>3, <3>2 DEF Attempt, RunBecomes, RunState
    <3> QED
      BY <3>1, <3>2
  <2>2. CancelSeen(me.task) => r \in fired
    BY <1>0, OwnEvent
  <2> QED
    BY <1>0, <2>1, <2>2, WorkFits, StillKnows DEF Working
<1>4. CASE Launch(r)
  <2>1. /\ run'[r].payload = me.payload /\ run'[r].pc \in {"judge", "popen"}
        /\ run'[r].result = me.result \/ run'[r].result # "cancelled"
    <3>1. CASE \E res \in {"failed", "transient"} :
                 RunBecomes(r, [run[r] EXCEPT !.pc = "judge", !.result = res])
      BY <1>0, <3>1 DEF RunBecomes, RunState
    <3>2. CASE RunBecomes(r, [run[r] EXCEPT !.pc = "popen", !.watch = events[run[r].task]])
      BY <1>0, <3>2 DEF RunBecomes, RunState
    <3> QED
      BY <1>4, <3>1, <3>2 DEF Launch
  <2> QED
    BY <1>0, <2>1, WorkFits, StillKnows DEF Working
<1>5. CASE Popen(r)
  <2>1. /\ run'[r].payload = me.payload /\ run'[r].pc = "subprocess"
        /\ run'[r].result = me.result
    BY <1>0, <1>5 DEF Popen, RunGoes, RunBecomes, RunState
  <2> QED
    BY <1>0, <2>1, WorkFits, StillKnows DEF Working
<1>6. CASE Subprocess(r)
  <2>1. me.watch = r
    BY <1>6 DEF Subprocess, RunIs, CancelInv, Watches
  <2>2. PICK res \in {"ok", "failed", "transient", "cancelled"}, pc \in {"judge", "reap"} :
          /\ res = "cancelled" => me.watch \in fired
          /\ RunBecomes(r, [me EXCEPT !.pc = pc, !.result = res, !.watch = None])
    BY <1>6 DEF Subprocess
  <2>3. /\ run'[r].payload = me.payload /\ run'[r].pc \in {"judge", "reap"}
        /\ run'[r].result = "cancelled" => r \in fired
    BY <1>0, <2>1, <2>2 DEF RunBecomes, RunState
  <2> QED
    BY <1>0, <2>3, WorkFits, StillKnows DEF Working
<1>7. CASE Judge(r)
  <2>1. /\ run'[r].payload = me.payload /\ run'[r].pc \in {"finish", "attempt"}
        /\ run'[r].result = me.result \/ CancelSeen(me.task)
    <3>1. CASE CancelSeen(me.task)
      BY <1>0, <1>7, <3>1 DEF Judge, RunBecomes, RunState
    <3>2. CASE ~CancelSeen(me.task)
      BY <1>0, <1>7, <3>2 DEF Judge, RunBecomes, RunState
    <3> QED
      BY <3>1, <3>2
  <2>2. CancelSeen(me.task) => r \in fired
    BY <1>0, OwnEvent
  <2> QED
    BY <1>0, <2>1, <2>2, WorkFits, StillKnows DEF Working
<1>8. CASE PipeCloses(r)
  <2>1. /\ run'[r].payload = me.payload /\ run'[r].pc = "judge"
        /\ run'[r].result = me.result
    BY <1>0, <1>8 DEF PipeCloses, RunGoes, RunBecomes, RunState
  <2> QED
    BY <1>0, <2>1, WorkFits, StillKnows DEF Working
<1> QED
  BY <1>1, <1>2, <1>3, <1>4, <1>5, <1>6, <1>7, <1>8

LEMMA BeginFits ==
  ASSUME TypeInv, CancelInv, AskInv, NEW r \in Runs, Begin(r) PROVE Fits(r, run'[r])
<1> DEFINE me == run[r]
<1>0. /\ me \in RunState /\ run \in [Runs -> RunState] /\ me.pc = "queued"
      /\ AtWork(me) /\ Open(r)
  BY DEF TypeInv, TypeOK, Begin, RunIs, AtWork, Open
<1>1. Readable(record[me.task])
  <2>1. record[me.task] # NoRec /\ ~Unreadable(record[me.task])
    BY <1>0 DEF CancelInv, Recorded, AskInv, Untorn
  <2>2. record[me.task] \in FileState
    BY <1>0 DEF TypeInv, TypeOK, RunShape
  <2> QED
    BY <2>1, <2>2, FileFacts DEF FileState, MaybeRec, Unreadable
<1>2. run'[r].pc = "check" /\ run'[r].payload = record[me.task] /\ run'[r].result = me.result
  BY <1>0, <1>1 DEF Begin, RunBecomes, RunState
<1>3. Knows(run'[r], r)
  BY <1>0, <1>2 DEF AskInv, HeardFires, Heard, RunsFit, Knows
<1>4. PhaseOf(me) = "accepted" /\ PhaseOf(run'[r]) = "working"
  BY <1>0, <1>2, PhaseFacts DEF RunPCs, Threaded
<1> QED
  BY <1>2, <1>3, <1>4 DEF Fits, DocFits, Advances

LEMMA PublishFits ==
  ASSUME TypeInv, AskInv, NEW r \in Runs, RunPublish(r) PROVE Fits(r, run'[r])
<1> DEFINE me == run[r]
<1>0. /\ me \in RunState /\ run \in [Runs -> RunState] /\ me.pc = "publish"
      /\ DocFits(me) /\ Knows(me, r)
  BY DEF TypeInv, TypeOK, RunPublish, RunIs, AskInv, RunsFit
<1>1. PICK pc \in {me.then, me.fail} : RunBecomes(r, Resumed(r, pc))
  BY DEF RunPublish
<1>2. run'[r].pc = pc
  <2>1. CASE pc \in {"clean", "ended"}
    BY <1>0, <1>1, <2>1, OverLooks DEF Resumed, RunBecomes
  <2>2. CASE pc \notin {"clean", "ended"}
    BY <1>0, <1>1, <2>2 DEF Resumed, RunBecomes, RunState
  <2> QED
    BY <2>1, <2>2
<1>3. pc \in {"work", "attempt"} =>
        run'[r].payload = me.payload /\ run'[r].result = me.result
  BY <1>0, <1>1 DEF Resumed, RunBecomes, RunState
<1>4. pc \in {"work", "attempt", "clean", "ended", "failed"}
  BY <1>0, <1>1 DEF RunState
<1>5. DocFits(run'[r])
  BY <1>2, <1>4 DEF DocFits
<1>6. pc \in {"work", "attempt"} => me.then \in {"work", "attempt"}
  BY <1>0, <1>1 DEF RunState
<1>7. Knows(run'[r], r)
  BY <1>0, <1>2, <1>3, <1>4, <1>6 DEF Knows, AtWork
<1> DEFINE new == run'[r]
<1>8. new.pc \in RunPCs
  BY <1>2, <1>4 DEF RunPCs, Threaded, Done
<1>9. PhaseOf(me) = IF me.doc.status = "running" THEN "working" ELSE me.doc.status
  BY <1>0, PhaseFacts DEF RunPCs, Threaded
<1>10. PhaseOf(new) = IF pc \in {"work", "attempt"} THEN "working"
                      ELSE IF pc = "failed" THEN "failed" ELSE "over"
  BY <1>2, <1>4, <1>8, PhaseFacts DEF Done
<1>11. me.doc.status \in Verdicts \cup {"running"}
  BY <1>0 DEF DocFits
<1>12. pc \in {"work", "attempt"} => me.doc.status = "running"
  BY <1>0, <1>6 DEF DocFits
<1>13. pc = "failed" => me.doc.status \in {"succeeded", "cancelled"}
  <2>1. pc = "failed" => me.fail = "failed"
    BY <1>0, <1>1 DEF RunState
  <2> QED
    BY <1>0, <2>1 DEF DocFits
<1> HIDE DEF new
<1>14. Advances(r, PhaseOf(me), PhaseOf(new))
  BY <1>4, <1>9, <1>10, <1>11, <1>12, <1>13 DEF Advances, Verdicts
<1> QED
  BY <1>5, <1>7, <1>14 DEF Fits, new

LEMMA RunStepFits ==
  ASSUME TypeInv, CancelInv, AskInv, NEW r \in Runs, RunStep(r) PROVE Fits(r, run'[r])
<1> DEFINE me == run[r]
<1>0. me \in RunState /\ run \in [Runs -> RunState]
  BY DEF TypeInv, TypeOK
<1>1. CASE RunStage(r) \/ RunFill(r)
  <2>1. /\ me.pc \in {"stage", "fill"} /\ run'[r].pc \in {"fill", "publish"}
        /\ run'[r].payload = me.payload /\ run'[r].result = me.result /\ run'[r].doc = me.doc
        /\ run'[r].then = me.then /\ run'[r].fail = me.fail
    BY <1>0, <1>1 DEF RunStage, RunFill, RunIs, RunGoes, RunBecomes, RunState
  <2>2. Knows(me, r) /\ DocFits(me)
    BY DEF AskInv, RunsFit
  <2>3. Knows(run'[r], r) /\ DocFits(run'[r])
    BY <2>1, <2>2 DEF Knows, DocFits, AtWork
  <2>4. me.pc \in RunPCs /\ run'[r].pc \in RunPCs
    BY <2>1 DEF RunPCs, Threaded
  <2>5. PhaseOf(me) = PhaseOf(run'[r])
    BY <2>1, <2>4, PhaseFacts
  <2> QED
    BY <2>3, <2>5 DEF Fits, Advances
<1>2. CASE RunClean(r)
  <2>1. me.pc = "clean" /\ run'[r].pc = "ended"
    BY <1>0, <1>2, OverLooks DEF RunClean, RunIs, RunBecomes
  <2>2. PhaseOf(me) = "over" /\ PhaseOf(run'[r]) = "over"
    BY <2>1, PhaseFacts DEF RunPCs, Threaded, Done
  <2> QED
    BY <2>1, <2>2 DEF Fits, Knows, DocFits, Advances, AtWork
<1> QED
  BY <1>1, <1>2, CheckFits, RecheckFits, ReportFailedFits, FinishFits, WorkStepFits, BeginFits,
     PublishFits
     DEF RunStep, ThreadStep

-----------------------------------------------------------------------------
\* What a step of a thread leaves of the requests.

LEMMA RunStepLeaves ==
  ASSUME TypeInv, NEW r \in Runs, RunStep(r)
  PROVE  /\ fired' = fired /\ Open(r)
         /\ \A q \in Runs \ {r} : run'[q] = run[q]
         /\ run'[r].task = run[r].task /\ run'[r].pc \in Threaded \cup {"ended"}
         /\ \A t \in Tasks : events'[t] \in {events[t], None} /\ futures'[t] \in {futures[t], None}
         /\ \A t \in Tasks : record[t] # NoRec => record'[t] # NoRec
<1>1. fired' = fired
  BY DEF RunStep, ThreadStep, RunStage, RunFill, RunPublish, Begin, Check, Report, Reread,
         Recheck, ReportFailed, Attempt, Launch, Popen, Subprocess, PipeCloses, Judge, Finish,
         RunClean
<1>2. CASE RunClean(r)
  <2>1. run[r].pc = "clean" /\ run' = [run EXCEPT ![r] = Over(r, "ended")]
    BY <1>2 DEF RunClean, RunIs, RunBecomes
  <2>2. /\ \A q \in Runs \ {r} : run'[q] = run[q]
        /\ run'[r].task = run[r].task /\ run'[r].pc = "ended"
    BY <2>1, OverLooks DEF TypeInv, TypeOK
  <2>3. \A t \in Tasks : events'[t] \in {events[t], None} /\ futures'[t] \in {futures[t], None}
    BY <1>2 DEF RunClean, CleanupRuntime, TypeInv, TypeOK
  <2> QED
    BY <1>1, <1>2, <2>1, <2>2, <2>3 DEF RunClean, Open, Threaded
<1>3. CASE ~RunClean(r)
  BY <1>1, <1>3, RunStepMoves DEF Moves
<1> QED
  BY <1>2, <1>3

\* A document that a thread persists before its work asks for nothing, and one that
\* it persists afterwards is the last of its task's runs.
LEMMA GivesQuietly ==
  ASSUME TypeInv, CancelInv, AskInv, NEW r \in Runs, Open(r)
  PROVE  /\ RunGives(r).status # "expired"
         /\ CancelAsked(RunGives(r)) => \A q \in Runs : AtWork(run[q]) => run[q].task # run[r].task
<1>1. CASE run[r].pc \notin {"stage", "fill"}
  BY <1>1, NoRecAsks DEF RunGives, NoRec
<1>2. CASE run[r].pc \in {"stage", "fill"}
  <2>1. DocFits(run[r]) /\ RunGives(r) = run[r].doc
    BY <1>2 DEF AskInv, RunsFit, RunGives
  <2>2. run[r].doc.status # "expired"
    BY <1>2, <2>1 DEF DocFits, Verdicts
  <2>3. CancelAsked(run[r].doc) => ~AtWork(run[r])
    BY <1>2, <2>1 DEF DocFits, CancelAsked, AtWork
  <2>4. \A q \in Runs : AtWork(run[q]) /\ run[q].task = run[r].task => q = r
    BY OpenIsLive, WorkIsLive DEF CancelInv, OneRunPerTask
  <2> QED
    BY <2>1, <2>2, <2>3, <2>4
<1> QED
  BY <1>1, <1>2

\* Whom a step on a task's files concerns.
LEMMA TruncatesHandles ==
  ASSUME TypeInv, NEW w \in Writers, NEW t, NEW doc, Truncates(w, t, doc)
  PROVE  /\ handle'[w] = "tmp" /\ \A v \in Writers \ {w} : handle'[v] = handle[v]
         /\ \A u \in Tasks \ {t} : staged'[u] = staged[u]
  BY DEF Truncates, TypeInv, TypeOK

LEMMA FillsHandles ==
  ASSUME TypeInv, NEW w \in Writers, NEW t, NEW doc, Fills(w, t, doc)
  PROVE  /\ handle'[w] = "none" /\ \A v \in Writers \ {w} : handle'[v] = handle[v]
         /\ \A u \in Tasks \ {t} : staged'[u] = staged[u] /\ record'[u] = record[u]
<1>1. handle'[w] = "none" /\ \A v \in Writers \ {w} : handle'[v] = handle[v]
  BY DEF Fills, TypeInv, TypeOK
<1>2. /\ UNCHANGED staged \/ \E new : staged' = [staged EXCEPT ![t] = new]
      /\ UNCHANGED record \/ \E new : record' = [record EXCEPT ![t] = new]
  BY DEF Fills
<1> QED
  BY <1>1, <1>2 DEF TypeInv, TypeOK

LEMMA RenamesHandles ==
  ASSUME TypeInv, NEW t, Renames(t)
  PROVE  /\ \A v \in Writers : handle[v] = "none" \/ TaskOf(v) # t => handle'[v] = handle[v]
         /\ \A u \in Tasks \ {t} : staged'[u] = staged[u] /\ record'[u] = record[u]
  BY DEF Renames, TypeInv, TypeOK

\* What a step of a thread does to files that are not its own.
LEMMA RunStepElsewhere ==
  ASSUME TypeInv, HandlesHeld, NEW r \in Runs, RunStep(r)
  PROVE  /\ \A u \in Tasks : u # run[r].task => staged'[u] = staged[u] /\ record'[u] = record[u]
         /\ client.task # run[r].task => handle'[Loop] = handle[Loop]
         /\ \A q \in Runs \ {r} : handle[q] = "none" => handle'[q] = "none"
         /\ handle'[r] # "none" => run'[r].pc = "fill"
<1>0. /\ run \in [Runs -> RunState] /\ Loop \notin Runs
      /\ Loop \in Writers /\ Runs \subseteq Writers /\ TaskOf(Loop) = client.task
  BY LoopAssumption DEF TypeInv, TypeOK, Writers, TaskOf
<1>1. CASE RunStage(r)
  <2>1. run'[r].pc = "fill" /\ record' = record /\ Truncates(r, run[r].task, run[r].doc)
    BY <1>0, <1>1 DEF RunStage, RunGoes, RunBecomes, RunState
  <2> QED
    BY <1>0, <2>1, TruncatesHandles
<1>2. CASE RunFill(r)
  BY <1>0, <1>2, FillsHandles DEF RunFill
<1>3. CASE RunPublish(r)
  <2>1. run[r].pc = "publish" /\ handle[r] = "none"
    BY <1>3 DEF RunPublish, RunIs, HandlesHeld
  <2>2. CASE staged[run[r].task] = NoRec
    BY <1>3, <2>1, <2>2 DEF RunPublish
  <2>3. CASE staged[run[r].task] # NoRec
    BY <1>0, <1>3, <2>1, <2>3, RenamesHandles DEF RunPublish
  <2> QED
    BY <2>2, <2>3
<1>4. CASE ~RunStage(r) /\ ~RunFill(r) /\ ~RunPublish(r)
  <2>1. UNCHANGED <<record, staged, handle>> /\ run[r].pc # "fill"
    BY <1>4 DEF RunStep, ThreadStep, Begin, Check, Report, Reread, Recheck, ReportFailed,
                Attempt, Launch, Popen, Subprocess, PipeCloses, Judge, Finish, RunClean, RunIs
  <2> QED
    BY <2>1 DEF HandlesHeld
<1> QED
  BY <1>1, <1>2, <1>3, <1>4

LEMMA RunStepFilesHeld ==
  ASSUME TypeInv, CancelInv, AskInv, NEW r \in Runs, RunStep(r) PROVE HandlesHeld' /\ Untorn'
<1>0. HandlesHeld /\ Untorn /\ client' = client
  BY RunLeavesLoop DEF AskInv
<1>1. /\ Live(r) /\ run'[r].pc \notin {"starting", "queued"}
      /\ \A q \in Runs \ {r} : run'[q] = run[q]
  BY RunStepLeaves, OpenIsLive DEF Threaded
<1>2. HandlesHeld'
  BY <1>0, <1>1, RunStepElsewhere DEF HandlesHeld
<1>3. ASSUME NEW q \in Runs, run'[q].pc \in {"starting", "queued"}
      PROVE  /\ q # r /\ run'[q] = run[q] /\ run[q].task \in Tasks
             /\ run[q].task # run[r].task
  <2>1. q # r /\ run'[q] = run[q]
    BY <1>1, <1>3
  <2>2. Live(q) /\ run[q].task \in Tasks
    BY <1>3, <2>1 DEF Live, TypeInv, RunShape
  <2> QED
    BY <1>1, <2>1, <2>2 DEF CancelInv, OneRunPerTask
<1>4. Untorn'
  BY <1>0, <1>3, RunStepElsewhere DEF Untorn
<1> QED
  BY <1>2, <1>4

LEMMA RunStepAsk ==
  ASSUME TypeInv, CancelInv, RealInv, AskInv, NEW r \in Runs, RunStep(r) PROVE AskInv'
<1> DEFINE me == run[r]
<1>1. /\ fired' = fired /\ Open(r)
      /\ \A q \in Runs \ {r} : run'[q] = run[q]
      /\ run'[r].task = me.task /\ run'[r].pc \in Threaded \cup {"ended"}
      /\ \A t \in Tasks : events'[t] \in {events[t], None} /\ futures'[t] \in {futures[t], None}
      /\ \A t \in Tasks : record[t] # NoRec => record'[t] # NoRec
  BY RunStepLeaves
<1>2. Honest(r) /\ FilesFrom(me.task, RunGives(r)) /\ client' = client
  BY OwnHonest, RunFiles, RunLeavesLoop
<1>3. /\ RunGives(r).status # "expired"
      /\ CancelAsked(RunGives(r)) => \A q \in Runs : AtWork(run[q]) => run[q].task # me.task
  BY <1>1, GivesQuietly
<1>4. me.task \in Tasks /\ record[me.task] # NoRec
  BY <1>1 DEF CancelInv, Recorded, Open, Threaded, TypeInv, RunShape
<1>5. HeardFires' /\ HeardRecorded'
  <2>1. \A q \in Runs : AtWork(run'[q]) => AtWork(run[q]) /\ run'[q].task = run[q].task
    BY <1>1, <1>2 DEF Honest
  <2>2. ASSUME NEW t \in Tasks, Heard(t)'
        PROVE  \/ Heard(t)
               \/ /\ record'[t] # NoRec
                  /\ \A q \in Runs : AtWork(run[q]) /\ run[q].task = t => q \in fired'
    <3>1. Heard(t) \/ (t = me.task /\ CancelAsked(RunGives(r)))
      BY <1>2, <2>2, FilesSay DEF Heard
    <3> QED
      BY <1>1, <1>3, <1>4, <3>1
  <2> QED
    BY <1>1, <2>1, <2>2, HeardKept DEF AskInv
<1>6. RunsFit'
  <2>1. Fits(r, run'[r])
    BY RunStepFits
  <2>2. Untouched(run'[r])
    BY <1>1 DEF Untouched, Threaded
  <2>3. \A q \in Runs : Untouched(run'[q]) /\ Knows(run'[q], q) /\ DocFits(run'[q])
    BY <1>1, <2>1, <2>2 DEF Fits, AskInv, RunsFit
  <2>4. \A q \in Runs : Knows(run'[q], q) => Knows(run[q], q)'
    BY <1>1 DEF Knows
  <2> QED
    BY <2>3, <2>4 DEF RunsFit, Untouched, DocFits
<1>7. \A q \in Runs : Submitted(q) => Submitted(q)' /\ run'[q].task = run[q].task
  BY <1>1 DEF Submitted, Threaded
<1>8. Registered'
  <2>1. None \notin Runs
    BY NoneAssumption
  <2> QED
    BY <1>1, <1>7, <2>1 DEF AskInv, Registered
<1>9. NeverExpired'
  BY <1>2, <1>3, FilesSay DEF AskInv, NeverExpired, Statuses, Final
<1>10. LoopFits'
  <2>1. \A q \in Runs : AtWork(run'[q]) => AtWork(run[q]) /\ run'[q].task = run[q].task
    BY <1>1, <1>2 DEF Honest
  <2>2. client.pc \in {"signal", "withdraw", "kill"} => record'[client.task] # NoRec
    BY <1>1 DEF AskInv, LoopFits, TypeInv, ClientShape
  <2> QED
    BY <1>1, <1>2, <1>7, <2>1, <2>2 DEF AskInv, LoopFits
<1>11. HandlesHeld' /\ Untorn'
  BY RunStepFilesHeld
<1> QED
  BY <1>5, <1>6, <1>8, <1>9, <1>10, <1>11 DEF AskInv

-----------------------------------------------------------------------------
\* The steps of the loop.

LEMMA LoopKeepsRecords ==
  ASSUME Quiet, TypeInv, CancelInv, LoopCall
  PROVE  \A t \in Tasks : record[t] # NoRec => record'[t] # NoRec
<1>1. CASE \E t \in Tasks : StartExisting(t)
  BY <1>1, NothingPruned DEF StartExisting, Prune, CancelInv
<1>2. CASE ClientPublish
  BY <1>2 DEF ClientPublish, Renames, TypeInv, TypeOK
<1>a. CASE ClientFill
  BY <1>a, FillsType DEF ClientFill, ClientIs, TypeInv, ClientShape
<1>3. CASE record' = record
  BY <1>3
<1> QED
  BY <1>1, <1>2, <1>a, <1>3
     DEF LoopCall, StatusOp, CancelOp, ClientStep, ClientStage, Submit, StoreFuture,
         ReadStatus, ResultExpiry, IgnoreCancel, Signal, WithdrawFuture, SignalProcess,
         Settle, ClientClean

\* The loop at rest, and one that is about to report a task.
AtRest == client' = Idle \/ \E t \in Tasks : ClientReads(t)
LEMMA RestFacts ==
  ASSUME AtRest
  PROVE  LoopFits' /\ ~CancelAsked(client'.doc)
<1>1. client'.pc \in {"idle", "read"} /\ client'.doc = NoRec
  <2>1. ASSUME NEW t \in Tasks, ClientReads(t)
        PROVE  client'.pc = "read" /\ client'.doc = NoRec
    BY <2>1 DEF ClientReads, Idle
  <2>2. CASE client' = Idle
    BY <2>2 DEF Idle
  <2> QED
    BY <2>1, <2>2 DEF AtRest
<1>2. LoopFits'
  BY <1>1 DEF LoopFits, NoRec
<1> QED
  BY <1>1, <1>2, NoRecAsks

\* What the loop has in hand after a step is no news, or no news to a run at work.
Says(t) ==
    \/ Heard(t)
    \/ record[t] # NoRec /\ \A q \in Runs : AtWork(run[q]) /\ run[q].task = t => q \in fired
LoopSays == \A t \in Tasks : client'.task = t /\ CancelAsked(client'.doc) => Says(t)

\* The loop persists a document.
LEMMA PersistFits ==
  ASSUME TypeInv, NEW doc, NEW pc \in ClientThen \ {"ignore"}, ClientPersists(doc, pc),
         doc.status # "expired", CancelAsked(doc) => Says(client.task)
  PROVE  LoopFits' /\ LoopSays
<1>1. /\ client'.pc = "stage" /\ client'.then = pc /\ client'.doc = doc
      /\ client'.task = client.task
  BY DEF ClientPersists, TypeInv, TypeOK, ClientState
<1> QED
  BY <1>1 DEF LoopFits, LoopSays

LEMMA RestSays == ASSUME AtRest PROVE LoopFits' /\ LoopSays
  BY RestFacts DEF LoopSays

\* It keeps its document.
LEMMA KeptSays == ASSUME client'.task = client.task, client'.doc = client.doc PROVE LoopSays
  BY DEF LoopSays, Says, Heard

\* No thread is at work on the task of a final record that the loop holds.
LEMMA HeldVerdict ==
  ASSUME StrayInv, client.task \in Tasks, client.doc.status \in Verdicts PROVE Says(client.task)
  BY DEF StrayInv, Told, Says

\* Those steps that begin a call or read the record.
LEMMA ReadingFits ==
  ASSUME Calm, TypeInv, CancelInv, StrayInv, AskInv,
         \/ \E t \in Tasks : StartExisting(t) \/ StatusOp(t) \/ CancelOp(t)
         \/ StoreFuture \/ ClientClean \/ ReadStatus \/ ResultExpiry \/ IgnoreCancel
  PROVE  LoopFits' /\ LoopSays
<1>0. client \in ClientState /\ \A p : ~Aged(p)
  BY CalmFacts DEF TypeInv, TypeOK
<1>1. CASE \E t \in Tasks : StartExisting(t) \/ StatusOp(t)
  BY <1>1, RestSays DEF StartExisting, StatusOp, AtRest
<1>2. ASSUME NEW t \in Tasks, CancelOp(t) PROVE LoopFits' /\ LoopSays
  <2> DEFINE p == record[t]
             c == [Idle EXCEPT !.task = t, !.doc = p]
  <2>1. p # NoRec /\ p.status # "expired"
    BY <1>2, FileFacts DEF CancelOp, AskInv, NeverExpired
  <2>2. \/ client' = [c EXCEPT !.pc = "signal"]
        \/ client' = [c EXCEPT !.pc = "read"]
        \/ p.status \in Final \ {"cancelled"} /\ client' = [c EXCEPT !.pc = "ignore"]
    BY <1>0, <1>2, <2>1 DEF CancelOp, Final
  <2>3. /\ client'.task = t /\ client'.doc = p /\ client'.pc \in {"signal", "read", "ignore"}
        /\ client'.pc = "ignore" => p.status \in Final
    BY <2>2 DEF Idle
  <2>4. record' = record
    BY <1>2 DEF CancelOp
  <2>5. LoopFits'
    BY <2>1, <2>3, <2>4 DEF LoopFits, Final, Verdicts
  <2>6. LoopSays
    BY <2>3 DEF LoopSays, Says, Heard
  <2> QED
    BY <2>5, <2>6
<1>3. CASE StoreFuture \/ ClientClean
  <2>1. client.task \in Tasks /\ ClientReads(client.task)
    BY <1>3 DEF StoreFuture, ClientClean, ClientIs, TypeInv, ClientShape
  <2> QED
    BY <2>1, RestSays DEF AtRest
<1>4. CASE ReadStatus
  <2> DEFINE p == record[client.task]
  <2>1. client.task \in Tasks
    BY <1>4 DEF ReadStatus, ClientIs, TypeInv, ClientShape
  <2>2. CASE ~Readable(p)
    BY <1>4, <2>2, RestSays DEF ReadStatus, AtRest
  <2>3. CASE Readable(p)
    <3>1. client' = [client EXCEPT !.pc = "result", !.doc = p]
      BY <1>0, <1>4, <2>3 DEF ReadStatus
    <3>2. client'.pc = "result" /\ client'.doc = p /\ client'.task = client.task
      BY <1>0, <3>1 DEF ClientState
    <3>3. p.status # "expired"
      BY <2>1 DEF AskInv, NeverExpired
    <3>4. LoopFits'
      BY <3>2, <3>3 DEF LoopFits
    <3>5. LoopSays
      BY <3>2 DEF LoopSays, Says, Heard
    <3> QED
      BY <3>4, <3>5
  <2> QED
    BY <2>2, <2>3
<1>5. CASE ResultExpiry
  <2>1. client' = Idle
    BY <1>0, <1>5 DEF ResultExpiry
  <2> QED
    BY <2>1, RestSays DEF AtRest
<1>6. CASE IgnoreCancel
  <2> DEFINE doc == [client.doc EXCEPT !.cancel = TRUE]
  <2>1. client.doc \in Rec /\ client.task \in Tasks /\ client.doc.status \in Verdicts
    BY <1>6 DEF IgnoreCancel, ClientIs, TypeInv, ClientShape, AskInv, LoopFits
  <2>2. ClientPersists(doc, "read")
    BY <1>6 DEF IgnoreCancel
  <2>3. doc.status = client.doc.status
    BY <2>1 DEF Rec
  <2>4. Says(client.task)
    BY <2>1, HeldVerdict
  <2>5. doc.status # "expired" /\ "read" \in ClientThen \ {"ignore"}
    BY <2>1, <2>3 DEF Verdicts, ClientThen
  <2> HIDE DEF doc
  <2> QED
    BY <2>2, <2>4, <2>5, PersistFits
<1> QED
  BY <1>1, <1>2, <1>3, <1>4, <1>5, <1>6

\* Those that go on with the call.
LEMMA GoingFits ==
  ASSUME TypeInv, CancelInv, AskInv,
         ClientStage \/ ClientFill \/ ClientPublish \/ Submit \/ Signal \/ WithdrawFuture
  PROVE  LoopFits' /\ LoopSays
<1>0. client \in ClientState
  BY DEF TypeInv, TypeOK
<1>1. CASE ClientStage \/ ClientFill
  <2>1. client.doc.status # "expired" /\ client.then # "ignore"
    BY <1>1 DEF ClientStage, ClientFill, ClientIs, AskInv, LoopFits
  <2>2. /\ client'.pc \in {"fill", "publish"} /\ client'.task = client.task
        /\ client'.doc = client.doc /\ client'.then = client.then
    BY <1>0, <1>1 DEF ClientStage, ClientFill, ClientGoes, ClientState
  <2>3. LoopFits'
    BY <2>1, <2>2 DEF LoopFits
  <2> QED
    BY <2>2, <2>3, KeptSays
<1>2. CASE ClientPublish
  <2>1. /\ client.pc = "publish" /\ client.then \in ClientThen \ {"ignore"}
        /\ client.doc.status # "expired"
    BY <1>2 DEF ClientPublish, ClientIs, TypeInv, ClientShape, AskInv, LoopFits
  <2>2. \/ client' = Idle
        \/ client' = [client EXCEPT !.pc = client.then, !.then = "idle"]
    BY <1>2 DEF ClientPublish
  <2>3. CASE client' = Idle
    BY <2>3, RestSays DEF AtRest
  <2>4. CASE client' = [client EXCEPT !.pc = client.then, !.then = "idle"]
    <3>1. /\ client'.pc = client.then /\ client'.task = client.task
          /\ client'.doc = client.doc
      BY <1>0, <2>4 DEF ClientState
    <3>2. LoopFits'
      BY <2>1, <3>1 DEF LoopFits, ClientThen
    <3> QED
      BY <3>1, <3>2, KeptSays
  <2> QED
    BY <2>2, <2>3, <2>4
<1>3. CASE Submit
  <2>1. /\ client.run \in Runs /\ run[client.run].task = client.task
        /\ client.doc.status # "expired"
    BY <1>3 DEF Submit, ClientIs, TypeInv, StartShape, Starting, AskInv, LoopFits
  <2>2. /\ client'.pc = "store" /\ client'.task = client.task /\ client'.doc = client.doc
        /\ client'.run = client.run
    BY <1>0, <1>3 DEF Submit, ClientGoes, ClientState
  <2>3. run'[client.run].pc = "queued" /\ run'[client.run].task = client.task
    BY <1>3, <2>1 DEF Submit, TypeInv, TypeOK, RunState
  <2>4. LoopFits'
    BY <2>1, <2>2, <2>3 DEF LoopFits, Submitted
  <2> QED
    BY <2>2, <2>4, KeptSays
<1>4. CASE Signal
  <2> DEFINE t == client.task
             e == IF events[t] = None THEN Orphan ELSE events[t]
  <2>1. /\ client.pc = "signal" /\ t \in Tasks /\ client.doc.status # "expired"
        /\ record[t] # NoRec
    BY <1>4 DEF Signal, ClientIs, TypeInv, ClientShape, AskInv, LoopFits
  <2>2. /\ client'.pc = "withdraw" /\ client'.task = t /\ client'.doc = client.doc
        /\ client'.run = futures[t]
    BY <1>0, <1>4 DEF Signal, ClientState
  <2>3. fired' = fired \cup {e} /\ run' = run /\ record' = record
    BY <1>4 DEF Signal
  <2>4. ASSUME NEW r \in Runs, AtWork(run[r]), run[r].task = t PROVE r \in fired'
    <3>1. Open(r)
      <4>1. run[r].pc # "starting"
        BY <2>1 DEF CancelInv, StartsInLoop, Starting
      <4> QED
        BY <2>4, <4>1, WorkIsLive, OpenIsLive
    <3>2. events[t] = r
      BY <2>4, <3>1 DEF CancelInv, EventFound
    <3> QED
      BY <2>3, <3>2, NoneAssumption
  <2>5. futures[t] \in Runs => Submitted(futures[t]) /\ run[futures[t]].task = t
    BY <2>1 DEF AskInv, Registered
  <2>6. LoopFits'
    BY <2>1, <2>2, <2>3, <2>4, <2>5 DEF LoopFits, Submitted
  <2> QED
    BY <2>2, <2>6, KeptSays
<1>5. CASE WithdrawFuture
  <2>1. /\ client.pc = "withdraw" /\ client.task \in Tasks /\ client.doc.status # "expired"
        /\ record[client.task] # NoRec
        /\ \A r \in Runs : AtWork(run[r]) /\ run[r].task = client.task => r \in fired
    BY <1>5 DEF WithdrawFuture, ClientIs, TypeInv, ClientShape, AskInv, LoopFits
  <2>2. client'.pc = "kill" /\ client'.task = client.task /\ client'.doc = client.doc
    BY <1>0, <1>5 DEF WithdrawFuture, ClientState
  <2>3. \A q \in Runs : AtWork(run'[q]) => AtWork(run[q]) /\ run'[q].task = run[q].task
    BY <1>5, LoopRuns DEF LoopCall, ClientStep, LoopOnRuns, AtWork
  <2>4. fired' = fired /\ record' = record
    BY <1>5 DEF WithdrawFuture
  <2>5. LoopFits'
    BY <2>1, <2>2, <2>3, <2>4 DEF LoopFits
  <2> QED
    BY <2>2, <2>5, KeptSays
<1> QED
  BY <1>1, <1>2, <1>3, <1>4, <1>5

\* Those that persist a request.
LEMMA AskingFits ==
  ASSUME TypeInv, CancelInv, AskInv, SignalProcess \/ Settle
  PROVE  LoopFits' /\ LoopSays
<1>1. CASE SignalProcess
  <2>1. client.doc \in Rec /\ Says(client.task)
    BY <1>1 DEF SignalProcess, ClientIs, TypeInv, ClientShape, AskInv, LoopFits, Says
  <2>2. ClientPersists(CancelRequested(client.doc), "settle")
    BY <1>1 DEF SignalProcess
  <2>3. CancelRequested(client.doc).status # "expired"
    BY <2>1 DEF CancelRequested, Rec
  <2> QED
    BY <2>1, <2>2, <2>3, PersistFits DEF ClientThen
<1>2. CASE Settle
  <2> DEFINE p == record[client.task]
             over == client.settled \/ run[client.run].pc \in Done
  <2>1. client.pc = "settle" /\ client.task \in Tasks
    BY <1>2 DEF Settle, ClientIs, TypeInv, ClientShape
  <2>2. CASE ~(over /\ Readable(p) /\ p.status \notin Final)
    <3>1. ClientReads(client.task) \/ client' = Idle
      BY <1>2, <2>2 DEF Settle
    <3> QED
      BY <2>1, <3>1, RestSays DEF AtRest
  <2>3. CASE over /\ Readable(p) /\ p.status \notin Final
    <3>1. ClientPersists(Cancelled(p), "clean")
      BY <1>2, <2>3 DEF Settle
    <3>2. Cancelled(p).status # "expired"
      BY <2>1, <2>3, RecordRead, DocTypes
    <3>3. \A r \in Runs : Open(r) => run[r].task # client.task
      BY <2>1, <2>3 DEF CancelInv, LoopKnows, Cancelling, Settling, Open, Threaded, Done
    <3>4. \A r \in Runs : AtWork(run[r]) => Open(r)
      BY <2>1, WorkIsLive, OpenIsLive DEF CancelInv, StartsInLoop, Starting
    <3>5. Says(client.task)
      BY <2>3, <3>3, <3>4, FileFacts DEF Says
    <3> QED
      BY <3>1, <3>2, <3>5, PersistFits DEF ClientThen
  <2> QED
    BY <2>2, <2>3
<1> QED
  BY <1>1, <1>2

\* What the loop does to the registries.
LEMMA LoopRegisters ==
  ASSUME TypeInv, AskInv, LoopCall
  PROVE  Registered' /\ fired \subseteq fired'
<1>1. \A q \in Runs : Submitted(q) => Submitted(q)' /\ run'[q].task = run[q].task
  BY LoopRuns DEF LoopOnRuns, Submitted
<1>2. CASE Submit
  <2>1. PICK r \in Runs : r = client.run
    BY <1>2 DEF Submit, ClientIs, TypeInv, StartShape, Starting
  <2>2. /\ run'[r].pc = "queued" /\ client.task \in Tasks
        /\ events' = [events EXCEPT ![client.task] = r]
        /\ UNCHANGED <<futures, fired>>
    BY <1>2, <2>1 DEF Submit, ClientIs, TypeInv, ClientShape, TypeOK, RunState
  <2>3. Submitted(r)'
    BY <2>2 DEF Submitted
  <2>4. \A t \in Tasks : events'[t] = events[t] \/ events'[t] = r
    BY <2>2 DEF TypeInv, TypeOK
  <2>5. \A t \in Tasks : events'[t] \in Runs => run'[events'[t]].pc \notin {"unused", "starting"}
    BY <1>1, <2>3, <2>4 DEF AskInv, Registered, Submitted
  <2> QED
    BY <1>1, <2>2, <2>5 DEF AskInv, Registered, Submitted
<1>3. CASE StoreFuture
  <2>1. /\ client.run \in Runs /\ client.task \in Tasks
        /\ Submitted(client.run) /\ run[client.run].task = client.task
        /\ futures' = [futures EXCEPT ![client.task] = client.run]
        /\ UNCHANGED <<events, fired>>
    BY <1>3 DEF StoreFuture, ClientIs, TypeInv, ClientShape, AskInv, LoopFits
  <2>2. \A t \in Tasks : futures'[t] = futures[t] \/ (t = client.task /\ futures'[t] = client.run)
    BY <2>1 DEF TypeInv, TypeOK
  <2> QED
    BY <1>1, <2>1, <2>2 DEF AskInv, Registered
<1>4. CASE Signal
  <2> DEFINE t == client.task
             e == IF events[t] = None THEN Orphan ELSE events[t]
  <2>1. /\ t \in Tasks /\ events' = [events EXCEPT ![t] = e] /\ fired' = fired \cup {e}
        /\ futures' = futures
    BY <1>4 DEF Signal, ClientIs, TypeInv, ClientShape
  <2>2. e \in Runs => Submitted(e)
    BY <2>1, NoneAssumption DEF AskInv, Registered
  <2>3. \A u \in Tasks : events'[u] = events[u] \/ events'[u] = e
    BY <2>1 DEF TypeInv, TypeOK
  <2> HIDE DEF e
  <2> QED
    BY <1>1, <2>1, <2>2, <2>3 DEF AskInv, Registered
<1>5. CASE ClientClean
  <2>1. \A t \in Tasks : events'[t] \in {events[t], None} /\ futures'[t] \in {futures[t], None}
    BY <1>5 DEF ClientClean, CleanupRuntime, TypeInv, TypeOK
  <2>2. fired' = fired
    BY <1>5 DEF ClientClean
  <2>3. None \notin Runs
    BY NoneAssumption
  <2> QED
    BY <1>1, <2>1, <2>2, <2>3 DEF AskInv, Registered
<1>6. CASE UNCHANGED <<events, futures, fired>>
  BY <1>1, <1>6 DEF AskInv, Registered
<1> QED
  BY <1>2, <1>3, <1>4, <1>5, <1>6
     DEF LoopCall, registry, StartExisting, StatusOp, CancelOp, ClientStep, ClientStage,
         ClientFill, ClientPublish, ReadStatus, ResultExpiry, IgnoreCancel, WithdrawFuture, SignalProcess,
         Settle

LEMMA PruneHandles ==
  ASSUME TypeInv, Prune PROVE \A v \in Writers : handle[v] = "none" => handle'[v] = "none"
  BY DEF Prune, TypeInv, TypeOK

LEMMA LoopHandles == ASSUME TypeInv, AskInv, LoopCall PROVE HandlesHeld'
<1>0. HandlesHeld /\ Loop \notin Runs /\ Loop \in Writers /\ Runs \subseteq Writers
  BY LoopAssumption DEF AskInv, Writers
<1>1. \A q \in Runs : handle[q] = "none" => handle'[q] = "none"
  <2>1. CASE \E t \in Tasks : StartExisting(t)
    BY <1>0, <2>1, PruneHandles DEF StartExisting
  <2>2. CASE ClientStage
    BY <1>0, <2>2, TruncatesHandles DEF ClientStage
  <2>3. CASE ClientFill
    BY <1>0, <2>3, FillsHandles DEF ClientFill
  <2>4. CASE ClientPublish
    BY <1>0, <2>4, RenamesHandles DEF ClientPublish
  <2>5. CASE handle' = handle
    BY <2>5
  <2> QED
    BY <2>1, <2>2, <2>3, <2>4, <2>5
       DEF LoopCall, StatusOp, CancelOp, ClientStep, Submit, StoreFuture, ReadStatus,
           ResultExpiry, IgnoreCancel, Signal, WithdrawFuture, SignalProcess, Settle,
           ClientClean
<1>2. \A q \in Runs : run[q].pc = "fill" => run'[q] = run[q]
  BY LoopRuns DEF LoopOnRuns
<1> QED
  BY <1>0, <1>1, <1>2 DEF HandlesHeld

\* The other steps of the loop do not go on to fill or publish.
LEMMA LoopSitsElsewhere ==
  ASSUME TypeInv,
         \/ \E t \in Tasks : StartExisting(t) \/ StatusOp(t) \/ CancelOp(t)
         \/ Submit \/ StoreFuture \/ ReadStatus \/ ResultExpiry \/ IgnoreCancel \/ Signal
         \/ WithdrawFuture \/ SignalProcess \/ Settle \/ ClientClean
  PROVE  client'.pc \notin {"fill", "publish"}
<1>0. client \in ClientState
  BY DEF TypeInv, TypeOK
<1>1. \A t : ClientReads(t) => client'.pc = "read"
  BY DEF ClientReads, Idle
<1>2. \A doc, pc : ClientPersists(doc, pc) => client'.pc = "stage"
  BY <1>0 DEF ClientPersists, ClientState
<1>3. client' = Idle => client'.pc = "idle"
  BY DEF Idle
<1>4. ASSUME NEW t \in Tasks, CancelOp(t) PROVE client'.pc \notin {"fill", "publish"}
  <2> DEFINE c == [Idle EXCEPT !.task = t, !.doc = record[t]]
  <2>1. \/ client' = [c EXCEPT !.pc = "stage", !.doc = Marked(record[t], "expired"),
                               !.then = "ignore"]
        \/ client' = [c EXCEPT !.pc = "signal"]
        \/ client' = [c EXCEPT !.pc = "read"]
        \/ client' = [c EXCEPT !.pc = "ignore"]
    BY <1>4 DEF CancelOp, Final
  <2> QED
    BY <2>1 DEF Idle
<1>5. ASSUME NEW t \in Tasks, StartExisting(t) \/ StatusOp(t)
      PROVE  client'.pc \notin {"fill", "publish"}
  BY <1>1, <1>5 DEF StartExisting, StatusOp
<1>6. CASE Submit \/ Signal \/ WithdrawFuture
  BY <1>0, <1>6 DEF Submit, Signal, WithdrawFuture, ClientGoes, ClientState
<1>7. CASE StoreFuture \/ ClientClean \/ IgnoreCancel \/ SignalProcess
  BY <1>1, <1>2, <1>7 DEF StoreFuture, ClientClean, IgnoreCancel, SignalProcess
<1>8. CASE ReadStatus
  <2> DEFINE p == record[client.task]
  <2>1. \/ client' = Idle \/ ClientPersists(Marked(p, "expired"), "result")
        \/ client' = [client EXCEPT !.pc = "result", !.doc = p]
    BY <1>8 DEF ReadStatus
  <2> QED
    BY <1>0, <1>2, <1>3, <2>1 DEF ClientState
<1>9. CASE ResultExpiry
  BY <1>2, <1>3, <1>9 DEF ResultExpiry
<1>10. CASE Settle
  <2>1. \/ ClientReads(client.task) \/ client' = Idle
        \/ ClientPersists(Cancelled(record[client.task]), "clean")
    BY <1>10 DEF Settle
  <2> QED
    BY <1>1, <1>2, <1>3, <2>1
<1> QED
  BY <1>4, <1>5, <1>6, <1>7, <1>8, <1>9, <1>10

\* The loop writes alone for a run that no thread has taken up.
LEMMA LoopUntorn == ASSUME Quiet, TypeInv, CancelInv, AskInv, LoopCall PROVE Untorn'
<1>0. /\ HandlesHeld /\ Untorn /\ Loop \notin Runs /\ Loop \in Writers
      /\ Runs \subseteq Writers
      /\ \A q \in Runs : TaskOf(q) = run[q].task
      /\ client \in ClientState /\ staged \in [Tasks -> FileState]
      /\ record \in [Tasks -> FileState]
  BY LoopAssumption DEF AskInv, Writers, TaskOf, TypeInv, TypeOK
<1> SUFFICES ASSUME NEW q \in Runs, run'[q].pc \in {"starting", "queued"}
             PROVE  /\ ~Unreadable(record'[run'[q].task])
                    /\ client'.task = run'[q].task =>
                         /\ client'.pc = "fill" =>
                              handle'[Loop] = "tmp" /\ staged'[client'.task].status = "empty"
                         /\ client'.pc = "publish" => Readable(staged'[client'.task])
  BY DEF Untorn
<1> DEFINE t == run[q].task
<1>1. run'[q].task = t /\ run[q].pc \in {"starting", "queued"} /\ t \in Tasks
  BY LoopRuns DEF LoopOnRuns, TypeInv, RunShape
<1>2. /\ ~Unreadable(record[t])
      /\ client.task = t =>
           /\ client.pc = "fill" => handle[Loop] = "tmp" /\ staged[t].status = "empty"
           /\ client.pc = "publish" => Readable(staged[t])
  BY <1>0, <1>1 DEF Untorn
<1> HIDE DEF t
<1>3. CASE ClientStage
  <2>1. /\ client'.pc = "fill" /\ client'.task = client.task /\ record' = record
        /\ Truncates(Loop, client.task, client.doc) /\ client.task \in Tasks
    BY <1>0, <1>3 DEF ClientStage, ClientIs, ClientGoes, ClientState, TypeInv, ClientShape
  <2>2. handle'[Loop] = "tmp" /\ staged'[client.task].status = "empty"
    BY <1>0, <2>1, TruncatesHandles DEF Truncates, Scrap
  <2> QED
    BY <1>1, <1>2, <2>1, <2>2
<1>4. CASE ClientFill
  <2>1. /\ client.pc = "fill" /\ client'.pc = "publish" /\ client'.task = client.task
        /\ Fills(Loop, client.task, client.doc) /\ client.task \in Tasks /\ client.doc \in Rec
    BY <1>0, <1>4 DEF ClientFill, ClientIs, ClientGoes, ClientState, TypeInv, ClientShape
  <2>2. CASE client.task # t
    <3>1. record'[t] = record[t]
      BY <1>0, <1>1, <2>1, <2>2, FillsHandles
    <3> QED
      BY <1>1, <1>2, <2>1, <2>2, <3>1
  <2>3. CASE client.task = t
    <3>1. handle[Loop] = "tmp" /\ staged[t].status = "empty"
      BY <1>2, <2>1, <2>3
    <3>2. ~Shared(Loop, t)
      <4> SUFFICES ASSUME NEW v \in Runs, run[v].task = t, handle[v] = "tmp" PROVE FALSE
        BY <1>0, <3>1 DEF Shared, Writers
      <4>1. run[v].pc = "fill"
        BY <1>0 DEF HandlesHeld
      <4>2. Live(v) /\ Live(q) /\ v # q
        BY <1>1, <4>1 DEF Live, Threaded
      <4> QED
        BY <4>2 DEF CancelInv, OneRunPerTask, t
    <3>3. Written(Loop, t, staged[t], client.doc) = {client.doc}
      BY <3>1, <3>2 DEF Written
    <3>4. staged' = [staged EXCEPT ![t] = client.doc] /\ record' = record
      BY <2>1, <2>3, <3>1, <3>3 DEF Fills
    <3>5. Readable(staged'[t])
      BY <1>0, <1>1, <2>1, <3>4, FileFacts DEF FileState, MaybeRec
    <3> QED
      BY <1>1, <1>2, <2>1, <2>3, <3>4, <3>5
  <2> QED
    BY <2>2, <2>3
<1>5. CASE ClientPublish
  <2>1. client.pc = "publish" /\ client.task \in Tasks /\ client.then \in ClientThen
    BY <1>5 DEF ClientPublish, ClientIs, TypeInv, ClientShape
  <2>2. client'.pc \notin {"fill", "publish"}
    <3>1. \/ client' = Idle
          \/ client' = [client EXCEPT !.pc = client.then, !.then = "idle"]
      BY <1>5 DEF ClientPublish
    <3>2. client' = Idle => client'.pc = "idle"
      BY DEF Idle
    <3>3. client' = [client EXCEPT !.pc = client.then, !.then = "idle"] =>
             client'.pc = client.then
      BY <1>0 DEF ClientState
    <3> QED
      BY <2>1, <3>1, <3>2, <3>3 DEF ClientThen
  <2>3. ~Unreadable(record'[t])
    <3>1. CASE client.task = t
      <4>1. Readable(staged[t]) /\ staged[t] # NoRec
        BY <1>2, <2>1, <3>1, FileFacts
      <4>2. record'[t] = staged[t]
        BY <1>0, <1>5, <2>1, <3>1, <4>1 DEF ClientPublish, Renames
      <4> QED
        BY <4>1, <4>2 DEF Readable, Unreadable, Statuses, Final
    <3>2. CASE client.task # t
      <4>1. record'[t] = record[t]
        BY <1>1, <1>5, <3>2, RenamesHandles DEF ClientPublish
      <4> QED
        BY <1>2, <4>1
    <3> QED
      BY <3>1, <3>2
  <2> QED
    BY <1>1, <2>2, <2>3
<1>6. CASE \/ \E u \in Tasks : StartExisting(u) \/ StatusOp(u) \/ CancelOp(u)
           \/ Submit \/ StoreFuture \/ ReadStatus \/ ResultExpiry \/ IgnoreCancel \/ Signal
           \/ WithdrawFuture \/ SignalProcess \/ Settle \/ ClientClean
  <2>1. client'.pc \notin {"fill", "publish"}
    BY <1>6, LoopSitsElsewhere
  <2>2. record' = record
    BY <1>6, NothingPruned
       DEF CancelInv, StartExisting, Prune, StatusOp, CancelOp, Submit, StoreFuture, ReadStatus,
           ResultExpiry, IgnoreCancel, Signal, WithdrawFuture, SignalProcess, Settle, ClientClean
  <2> QED
    BY <1>1, <1>2, <2>1, <2>2
<1> QED
  BY <1>3, <1>4, <1>5, <1>6 DEF LoopCall, ClientStep

LEMMA LoopAsk ==
  ASSUME Calm, TypeInv, CancelInv, StrayInv, AskInv, LoopCall PROVE AskInv'
<1>0. Quiet
  BY DEF Calm, Quiet
<1>1. LoopFits' /\ LoopSays
  BY ReadingFits, GoingFits, AskingFits DEF LoopCall, ClientStep
<1>2. Registered' /\ fired \subseteq fired'
  BY LoopRegisters
<1>3. FilesFrom(client.task, client.doc) /\ LoopOnRuns
  BY LoopFiles, LoopRuns
<1>4. \A t \in Tasks : record[t] # NoRec => record'[t] # NoRec
  BY <1>0, LoopKeepsRecords
<1>5. HeardFires' /\ HeardRecorded'
  <2>1. \A q \in Runs : AtWork(run'[q]) => AtWork(run[q]) /\ run'[q].task = run[q].task
    BY <1>3 DEF LoopOnRuns, AtWork
  <2>2. ASSUME NEW t \in Tasks, Heard(t)'
        PROVE  \/ Heard(t)
               \/ /\ record'[t] # NoRec
                  /\ \A q \in Runs : AtWork(run[q]) /\ run[q].task = t => q \in fired'
    <3>1. CASE client'.task = t /\ CancelAsked(client'.doc)
      BY <1>1, <1>2, <1>4, <3>1 DEF LoopSays, Says
    <3>2. CASE ~(client'.task = t /\ CancelAsked(client'.doc))
      BY <1>3, <2>2, <3>2, FilesSay DEF Heard
    <3> QED
      BY <3>1, <3>2
  <2> QED
    BY <1>2, <1>4, <2>1, <2>2, HeardKept DEF AskInv
<1>6. RunsFit'
  <2>1. ASSUME NEW q \in Runs PROVE (Untouched(run[q]) /\ Knows(run[q], q) /\ DocFits(run[q]))'
    <3>1. Untouched(run[q]) /\ Knows(run[q], q) /\ DocFits(run[q])
      BY DEF AskInv, RunsFit
    <3>2. CASE run'[q] = run[q]
      BY <1>2, <3>1, <3>2 DEF Untouched, Knows, DocFits
    <3>3. CASE run'[q] # run[q]
      <4>1. /\ run[q].pc \in {"starting", "queued"}
            /\ run'[q].pc \in {"queued", "withdrawn", "lost"}
            /\ run'[q].payload = NoRec /\ run'[q].result = "none"
        BY <1>3, <3>1, <3>3 DEF LoopOnRuns, Untouched
      <4> QED
        BY <4>1, NoRecAsks DEF Untouched, Knows, DocFits
    <3> QED
      BY <3>2, <3>3
  <2> QED
    BY <2>1 DEF RunsFit
<1>7. NeverExpired'
  <2>1. client.doc.status # "expired"
    BY DEF AskInv, LoopFits
  <2> QED
    BY <1>3, <2>1, FilesSay DEF AskInv, NeverExpired, Statuses, Final
<1>8. HandlesHeld' /\ Untorn'
  BY <1>0, LoopHandles, LoopUntorn
<1> QED
  BY <1>1, <1>2, <1>5, <1>6, <1>7, <1>8 DEF AskInv

LEMMA StartNewAsk ==
  ASSUME Calm, TypeInv, CancelInv, AskInv, NEW t \in Tasks, NEW r \in Runs, StartNew(t, r)
  PROVE  AskInv'
<1>0. Quiet
  BY DEF Calm, Quiet
<1>1. /\ record' = record /\ record[t] = NoRec
      /\ UNCHANGED <<staged, events, futures, fired>>
  BY <1>0, NothingPruned DEF StartNew, Prune, Quiet, CancelInv, registry
<1>2. /\ run[r].pc = "unused" /\ run'[r].pc = "starting" /\ run'[r].task = t
      /\ run'[r].payload = run[r].payload /\ run'[r].result = run[r].result
      /\ \A q \in Runs \ {r} : run'[q] = run[q]
  BY DEF StartNew, TypeInv, TypeOK, RunState
<1>3. /\ client'.pc = "stage" /\ client'.then = "submit" /\ client'.task = t
      /\ client'.doc = Pending(r)
  BY DEF StartNew, Idle
<1>4. ~CancelAsked(Pending(r)) /\ Pending(r).status = "pending"
  BY DEF CancelAsked, Pending
<1>5. \A u \in Tasks : Heard(u)' => Heard(u)
  BY <1>1, <1>3, <1>4 DEF Heard
<1>6. ~Heard(t)
  BY <1>1 DEF AskInv, HeardRecorded
<1>7. HeardFires'
  <2>1. ASSUME NEW q \in Runs, NEW u \in Tasks, AtWork(run'[q]), run'[q].task = u, Heard(u)'
        PROVE  q \in fired
    <3>1. q # r
      BY <1>2, <1>5, <1>6, <2>1
    <3>2. run'[q] = run[q]
      BY <1>2, <3>1
    <3> QED
      BY <1>5, <2>1, <3>2 DEF AskInv, HeardFires
  <2>2. \A q \in Runs : AtWork(run'[q]) => run'[q].task \in Tasks
    BY <1>2, WorkersTask
  <2> QED
    BY <1>1, <2>1, <2>2 DEF HeardFires, Heard
<1>8. HeardRecorded'
  BY <1>1, <1>5 DEF AskInv, HeardRecorded
<1>9. RunsFit'
  <2>1. ASSUME NEW q \in Runs PROVE (Untouched(run[q]) /\ Knows(run[q], q) /\ DocFits(run[q]))'
    <3>1. Untouched(run[q]) /\ Knows(run[q], q) /\ DocFits(run[q])
      BY DEF AskInv, RunsFit
    <3>2. CASE q # r
      BY <1>1, <1>2, <3>1, <3>2 DEF Untouched, Knows, DocFits
    <3>3. CASE q = r
      <4>1. run'[q].payload = NoRec /\ run'[q].result = "none" /\ run'[q].pc = "starting"
        BY <1>2, <3>1, <3>3 DEF Untouched
      <4> QED
        BY <4>1, NoRecAsks DEF Untouched, Knows, DocFits
    <3> QED
      BY <3>2, <3>3
  <2> QED
    BY <2>1 DEF RunsFit
<1>10. Registered'
  <2>1. \A q \in Runs : Submitted(q) => Submitted(q)' /\ run'[q].task = run[q].task
    BY <1>2 DEF Submitted
  <2> QED
    BY <1>1, <2>1 DEF AskInv, Registered
<1>11. NeverExpired' /\ LoopFits'
  BY <1>1, <1>3, <1>4 DEF AskInv, NeverExpired, LoopFits
<1>12. HandlesHeld'
  <2>1. \A q \in Runs : handle[q] = "none" => handle'[q] = "none"
    BY PruneHandles DEF StartNew, Writers
  <2>2. \A q \in Runs : run[q].pc = "fill" => run'[q] = run[q]
    BY <1>2
  <2> QED
    BY <2>1, <2>2 DEF AskInv, HandlesHeld
<1>13. Untorn'
  <2>1. ASSUME NEW q \in Runs, run'[q].pc \in {"starting", "queued"}
        PROVE  ~Unreadable(record'[run'[q].task])
    <3>1. CASE q = r
      BY <1>1, <1>2, <3>1 DEF Unreadable, NoRec
    <3>2. CASE q # r
      BY <1>1, <1>2, <2>1, <3>2 DEF AskInv, Untorn
    <3> QED
      BY <3>1, <3>2
  <2> QED
    BY <1>3, <2>1 DEF Untorn
<1> QED
  BY <1>7, <1>8, <1>9, <1>10, <1>11, <1>12, <1>13 DEF AskInv

LEMMA NextAskInv ==
  ASSUME Calm
  PROVE  TypeInv /\ CancelInv /\ RealInv /\ StrayInv /\ AskInv /\ [Next]_vars => AskInv'
<1> SUFFICES ASSUME TypeInv, CancelInv, RealInv, StrayInv, AskInv, [Next]_vars PROVE AskInv'
  OBVIOUS
<1>1. CASE LoopCall
  BY <1>1, LoopAsk
<1>2. ASSUME NEW t \in Tasks, NEW r \in Runs, StartNew(t, r) PROVE AskInv'
  BY <1>2, StartNewAsk
<1>3. ASSUME NEW r \in Runs, RunStep(r) PROVE AskInv'
  BY <1>3, RunStepAsk
<1>4. CASE UNCHANGED <<record, staged, handle, events, futures, fired, client, run>>
  BY <1>4 DEF AskInv, HeardFires, HeardRecorded, Heard, RunsFit, Knows, Untouched, DocFits,
              Registered, Submitted, NeverExpired, LoopFits, HandlesHeld, Untorn
<1>5. ASSUME NEW r \in Runs, Tick(r) \/ OrphanExits(r) PROVE AskInv'
  BY <1>4, <1>5 DEF Tick, OrphanExits, registry
<1>6. ~Crash
  BY CalmFacts
<1> QED
  BY <1>1, <1>2, <1>3, <1>4, <1>5, <1>6 DEF Next, LoopCall, vars

LEMMA AlwaysAskInv == ASSUME Calm PROVE Spec => []AskInv
<1>0. Quiet
  BY DEF Calm, Quiet
<1>1. Init => AskInv
  BY InitAskInv
<1>2. TypeInv /\ CancelInv /\ RealInv /\ StrayInv /\ AskInv /\ [Next]_vars => AskInv'
  BY NextAskInv
<1>3. Spec => []CancelInv
  BY <1>0, AlwaysCancelInv
<1>4. Spec => []StrayInv
  BY <1>0, AlwaysStrayInv
<1> QED
  BY <1>1, <1>2, <1>3, <1>4, AlwaysTypeInv, AlwaysRealInv, PTL DEF Spec

-----------------------------------------------------------------------------
\* Every step is one of the contract, or none.

LEMMA PhaseIs ==
  ASSUME NEW r \in Runs PROVE Phase(r) = PhaseOf(run[r]) /\ Phase(r)' = PhaseOf(run'[r])
  BY DEF Phase, PhaseOf

ShownTask(r) == IF Phase(r) = "none" THEN None ELSE run[r].task

LEMMA SamePhase ==
  ASSUME NEW r \in Runs, run'[r] = run[r] PROVE Phase(r)' = Phase(r) /\ ShownTask(r)' = ShownTask(r)
<1>1. Phase(r)' = Phase(r)
  BY PhaseIs
<1> QED
  BY <1>1 DEF ShownTask

\* One run advances.
LEMMA ContractAdvance ==
  ASSUME NEW r \in Runs, \A q \in Runs \ {r} : Phase(q)' = Phase(q),
         Advances(r, Phase(r), Phase(r)'), \A q \in Runs : ShownTask(q)' = ShownTask(q), fired' = fired
  PROVE  [Contract!Next]_(Contract!vars)
<1> DEFINE P == [q \in Runs |-> Phase(q)]
           T == [q \in Runs |-> ShownTask(q)]
<1>1. P' = [P EXCEPT ![r] = Phase(r)']
  OBVIOUS
<1>2. T' = T /\ (fired \cap Runs)' = fired \cap Runs
  OBVIOUS
<1>3. P[r] = Phase(r)
  OBVIOUS
<1>4. r \in fired <=> r \in fired \cap Runs
  OBVIOUS
<1>5. CASE Phase(r)' = Phase(r)
  <2>1. P' = P
    BY <1>1, <1>5
  <2> QED
    BY <1>2, <2>1 DEF Contract!vars, ShownTask
<1>6. CASE Phase(r) = "accepted" /\ Phase(r)' = "working"
  <2>1. Contract!StartWork(r)
    BY <1>1, <1>2, <1>3, <1>6 DEF Contract!StartWork, ShownTask
  <2> QED
    BY <2>1 DEF Contract!Next
<1>7. ASSUME NEW v \in Contract!Verdicts, Phase(r) = "working", Phase(r)' = v,
             v = "succeeded" => r \notin fired, v = "cancelled" => r \in fired
      PROVE  Contract!Next
  <2>1. Contract!Decide(r, v)
    BY <1>1, <1>2, <1>3, <1>4, <1>7 DEF Contract!Decide, ShownTask
  <2> QED
    BY <2>1 DEF Contract!Next
<1>8. CASE Phase(r) \in {"succeeded", "cancelled"} /\ Phase(r)' = "failed"
  <2>1. Contract!Fail(r)
    BY <1>1, <1>2, <1>3, <1>8 DEF Contract!Fail, ShownTask
  <2> QED
    BY <2>1 DEF Contract!Next
<1>9. CASE Phase(r) \in Verdicts \cup {"working"} /\ Phase(r)' = "over"
  <2>1. Contract!Close(r)
    BY <1>1, <1>2, <1>3, <1>9 DEF Contract!Close, Contract!Verdicts, Verdicts, ShownTask
  <2> QED
    BY <2>1 DEF Contract!Next
<1> QED
  BY <1>5, <1>6, <1>7, <1>8, <1>9 DEF Advances, Contract!Verdicts

LEMMA ContractStutter ==
  ASSUME \A q \in Runs : Phase(q)' = Phase(q) /\ ShownTask(q)' = ShownTask(q),
         (fired \cap Runs)' = fired \cap Runs
  PROVE  UNCHANGED Contract!vars
  BY DEF Contract!vars, ShownTask

\* A run that was submitted has a phase.
LEMMA SubmittedPhase ==
  ASSUME NEW me, me.pc \in RunPCs \ {"unused", "starting"}, DocFits(me)
  PROVE  PhaseOf(me) # "none"
<1>1. me.pc \in {"stage", "fill", "publish"} => me.doc.status # "none"
  BY DEF DocFits, Verdicts
<1>2. me.pc \in {"stage", "fill", "publish"} => PhaseOf(me) # "none"
  BY <1>1, PhaseFacts
<1>3. me.pc \notin {"stage", "fill", "publish"} => PhaseOf(me) # "none"
  BY PhaseFacts DEF RunPCs, Threaded, Done
<1> QED
  BY <1>2, <1>3

LEMMA RunStepContract ==
  ASSUME TypeInv, CancelInv, AskInv, NEW r \in Runs, RunStep(r)
  PROVE  [Contract!Next]_(Contract!vars)
<1>1. /\ fired' = fired /\ Open(r)
      /\ \A q \in Runs \ {r} : run'[q] = run[q]
      /\ run'[r].task = run[r].task /\ run'[r].pc \in Threaded \cup {"ended"}
  BY RunStepLeaves
<1>2. Fits(r, run'[r])
  BY RunStepFits
<1>3. Advances(r, Phase(r), Phase(r)')
  BY <1>2, PhaseIs DEF Fits
<1>4. \A q \in Runs \ {r} : Phase(q)' = Phase(q) /\ ShownTask(q)' = ShownTask(q)
  BY <1>1, SamePhase
<1>5. Phase(r) # "none" /\ Phase(r)' # "none"
  <2>1. run[r].pc \in RunPCs \ {"unused", "starting"} /\ DocFits(run[r])
    BY <1>1 DEF Open, RunPCs, Threaded, AskInv, RunsFit
  <2>2. run'[r].pc \in RunPCs \ {"unused", "starting"} /\ DocFits(run'[r])
    BY <1>1, <1>2 DEF RunPCs, Threaded, Done, Fits
  <2> QED
    BY <2>1, <2>2, SubmittedPhase, PhaseIs
<1>6. ShownTask(r)' = ShownTask(r)
  BY <1>1, <1>5 DEF ShownTask
<1>7. \A q \in Runs : ShownTask(q)' = ShownTask(q)
  BY <1>4, <1>6
<1> QED
  BY <1>1, <1>3, <1>4, <1>7, ContractAdvance

LEMMA SubmitContract ==
  ASSUME TypeInv, CancelInv, AskInv, Submit PROVE Contract!Next
<1> DEFINE P == [q \in Runs |-> Phase(q)]
           T == [q \in Runs |-> ShownTask(q)]
<1>0. PICK r \in Runs : r = client.run
  BY DEF Submit, ClientIs, TypeInv, StartShape, Starting
<1>1. PICK t \in Tasks : t = client.task
  BY DEF Submit, ClientIs, TypeInv, ClientShape
<1>2. /\ run[r].pc = "starting" /\ run[r].task = t
      /\ run'[r].pc = "queued" /\ run'[r].task = t
      /\ \A q \in Runs \ {r} : run'[q] = run[q]
      /\ fired' = fired
  BY <1>0, <1>1 DEF Submit, ClientIs, TypeInv, TypeOK, StartShape, Starting, RunState
<1>3. Phase(r) = "none" /\ Phase(r)' = "accepted"
  BY <1>2, PhaseIs, PhaseFacts DEF RunPCs
<1>4. ShownTask(r)' = t
  BY <1>2, <1>3 DEF ShownTask
<1>5. \A q \in Runs \ {r} : Phase(q)' = Phase(q) /\ ShownTask(q)' = ShownTask(q)
  BY <1>2, SamePhase
<1>6. P' = [P EXCEPT ![r] = "accepted"] /\ T' = [T EXCEPT ![r] = t]
  BY <1>3, <1>4, <1>5
<1>7. ASSUME NEW q \in Runs, ShownTask(q) = t PROVE Phase(q) \notin {"accepted", "working"}
  <2> SUFFICES ASSUME Phase(q) \in {"accepted", "working"} PROVE FALSE
    OBVIOUS
  <2>1. run[q].task = t
    BY <1>7 DEF ShownTask
  <2>2. Live(q)
    <3>1. run[q].pc \in RunPCs
      BY DEF TypeInv, TypeOK, RunState
    <3>2. run[q].pc \notin {"unused"} \cup Done
      BY <3>1, PhaseIs, PhaseFacts
    <3> QED
      BY <3>1, <3>2 DEF Live, RunPCs
  <2>3. q = r
    BY <1>2, <2>1, <2>2 DEF CancelInv, OneRunPerTask, Live
  <2> QED
    BY <1>3, <2>3
<1>8. Contract!Accept(r, t)
  BY <1>2, <1>3, <1>6, <1>7 DEF Contract!Accept, Contract!Open, ShownTask
<1> QED
  BY <1>8 DEF Contract!Next

LEMMA SignalContract ==
  ASSUME TypeInv, AskInv, Signal PROVE [Contract!Next]_(Contract!vars)
<1> DEFINE t == client.task
           e == IF events[t] = None THEN Orphan ELSE events[t]
<1>1. t \in Tasks /\ fired' = fired \cup {e} /\ run' = run
  BY DEF Signal, ClientIs, TypeInv, ClientShape
<1>2. \A q \in Runs : Phase(q)' = Phase(q) /\ ShownTask(q)' = ShownTask(q)
  BY <1>1, SamePhase
<1>3. CASE e \in Runs
  <2>1. Phase(e) # "none"
    <3>1. Submitted(e)
      BY <1>1, <1>3, NoneAssumption DEF AskInv, Registered
    <3>2. run[e].pc \in RunPCs /\ DocFits(run[e])
      BY <1>3 DEF TypeInv, TypeOK, RunState, AskInv, RunsFit
    <3> QED
      BY <1>3, <3>1, <3>2, SubmittedPhase, PhaseIs DEF Submitted
  <2> HIDE DEF e
  <2>2. Contract!Ask(e)
    BY <1>1, <1>2, <1>3, <2>1 DEF Contract!Ask, ShownTask
  <2> QED
    BY <1>3, <2>2 DEF Contract!Next
<1>4. CASE e \notin Runs
  <2>1. (fired \cap Runs)' = fired \cap Runs
    BY <1>1, <1>4
  <2> QED
    BY <1>2, <2>1, ContractStutter
<1> QED
  BY <1>3, <1>4

LEMMA WithdrawContract ==
  ASSUME TypeInv, AskInv, WithdrawFuture PROVE [Contract!Next]_(Contract!vars)
<1> DEFINE P == [q \in Runs |-> Phase(q)]
<1>1. fired' = fired /\ client.pc = "withdraw"
  BY DEF WithdrawFuture, ClientIs
<1>2. CASE run' = run
  BY <1>1, <1>2, SamePhase, ContractStutter
<1>3. CASE run' # run
  <2>1. PICK r \in Runs : r = client.run
    BY <1>3 DEF WithdrawFuture, TypeInv, TypeOK, ClientState
  <2>2. run[r].pc \in {"queued", "withdrawn"} /\ run' = [run EXCEPT ![r].pc = "withdrawn"]
    BY <1>3, <2>1 DEF WithdrawFuture
  <2>3. run[r].pc = "queued"
    BY <1>3, <2>2 DEF TypeInv, TypeOK, RunState
  <2>4. /\ run'[r].pc = "withdrawn" /\ run'[r].task = run[r].task
        /\ \A q \in Runs \ {r} : run'[q] = run[q]
    BY <2>2 DEF TypeInv, TypeOK, RunState
  <2>5. r \in fired
    <3>1. run[r].task = client.task /\ AtWork(run[r])
      BY <1>1, <2>1, <2>3 DEF AskInv, LoopFits, AtWork
    <3> QED
      BY <1>1, <3>1 DEF AskInv, LoopFits
  <2>6. Phase(r) = "accepted" /\ Phase(r)' = "over"
    BY <2>3, <2>4, PhaseIs, PhaseFacts DEF RunPCs, Done
  <2>7. \A q \in Runs \ {r} : Phase(q)' = Phase(q) /\ ShownTask(q)' = ShownTask(q)
    BY <2>4, SamePhase
  <2>8. ShownTask(r)' = ShownTask(r)
    BY <2>4, <2>6 DEF ShownTask
  <2>9. P' = [P EXCEPT ![r] = "over"]
    BY <2>6, <2>7
  <2>10. \A q \in Runs : ShownTask(q)' = ShownTask(q)
    BY <2>7, <2>8
  <2>11. Contract!Withdraw(r)
    BY <1>1, <2>5, <2>6, <2>9, <2>10 DEF Contract!Withdraw, ShownTask
  <2> QED
    BY <2>11 DEF Contract!Next
<1> QED
  BY <1>2, <1>3

LEMMA StepContract ==
  ASSUME Calm, TypeInv, CancelInv, AskInv, [Next]_vars
  PROVE  [Contract!Next]_(Contract!vars)
<1>1. CASE UNCHANGED <<run, fired>>
  BY <1>1, SamePhase, ContractStutter
<1>2. CASE ClientPublish
  <2>1. client.then = "submit" => staged[client.task] # NoRec
    BY <1>2, FileFacts
       DEF ClientPublish, ClientIs, AskInv, Untorn, TypeInv, StartShape, Starting
  <2>2. UNCHANGED <<run, fired>>
    BY <1>2, <2>1 DEF ClientPublish
  <2> QED
    BY <1>1, <2>2
<1>3. CASE Submit \/ Signal \/ WithdrawFuture
  BY <1>3, SubmitContract, SignalContract, WithdrawContract
<1>4. ASSUME NEW t \in Tasks, NEW r \in Runs, StartNew(t, r) PROVE [Contract!Next]_(Contract!vars)
  <2>1. /\ run[r].pc = "unused" /\ run'[r].pc = "starting"
        /\ \A q \in Runs \ {r} : run'[q] = run[q]
    BY <1>4, NewRun
  <2>2. Phase(r) = "none" /\ Phase(r)' = "none"
    BY <2>1, PhaseIs, PhaseFacts DEF RunPCs
  <2>3. ShownTask(r)' = ShownTask(r)
    BY <2>2 DEF ShownTask
  <2>4. \A q \in Runs : Phase(q)' = Phase(q) /\ ShownTask(q)' = ShownTask(q)
    BY <2>1, <2>2, <2>3, SamePhase
  <2>5. fired' = fired
    BY <1>4 DEF StartNew
  <2> QED
    BY <2>4, <2>5, ContractStutter
<1>5. ASSUME NEW r \in Runs, RunStep(r) PROVE [Contract!Next]_(Contract!vars)
  BY <1>5, RunStepContract
<1>6. ASSUME NEW r \in Runs, Tick(r) \/ OrphanExits(r) PROVE UNCHANGED <<run, fired>>
  BY <1>6 DEF Tick, OrphanExits
<1>7. ~Crash
  BY CalmFacts
<1>8. CASE ClientStep
  BY <1>1, <1>2, <1>3, <1>8
     DEF ClientStep, ClientStage, ClientFill, StoreFuture, ReadStatus, ResultExpiry,
         IgnoreCancel, SignalProcess, Settle, ClientClean
<1>9. CASE \E t \in Tasks : StartExisting(t) \/ StatusOp(t) \/ CancelOp(t)
  BY <1>1, <1>9 DEF StartExisting, StatusOp, CancelOp
<1> QED
  BY <1>1, <1>4, <1>5, <1>6, <1>7, <1>8, <1>9 DEF Next, vars

LEMMA InitContract == Init => Contract!Init
<1> SUFFICES ASSUME Init PROVE Contract!Init
  OBVIOUS
<1>1. \A r \in Runs : Phase(r) = "none" /\ ShownTask(r) = None
  <2> TAKE r \in Runs
  <2>1. run[r].pc = "unused"
    BY DEF Init, Fresh
  <2>2. Phase(r) = "none"
    BY <2>1, PhaseIs, PhaseFacts DEF RunPCs
  <2> QED
    BY <2>2 DEF ShownTask
<1>2. fired \cap Runs = {}
  BY DEF Init
<1> QED
  BY <1>1, <1>2 DEF Contract!Init, ShownTask

\* While the server stays up, nobody asks for a restart and no record expires, the
\* tasks implement the contract their clients rely on: one open run per task, verdicts
\* that agree with what was asked, and a cancel that binds whom it reached in time.
THEOREM ImplementsContract == ASSUME Calm PROVE Spec => ContractSpec
<1>0. Quiet
  BY DEF Calm, Quiet
<1>1. Init => Contract!Init
  BY InitContract
<1>2. TypeInv /\ CancelInv /\ AskInv /\ [Next]_vars => [Contract!Next]_(Contract!vars)
  BY StepContract
<1>3. Spec => []CancelInv
  BY <1>0, AlwaysCancelInv
<1> QED
  BY <1>1, <1>2, <1>3, AlwaysTypeInv, AlwaysAskInv, PTL DEF Spec, ContractSpec, Contract!Spec
=============================================================================
