------------------------ MODULE MutationReplayGuard ------------------------
(***************************************************************************)
(* The opt-in guard around every mutating tool call that arrives over HTTP *)
(* (_run_with_mutation_replay_guard in src/source/server.py).  Before the  *)
(* tool runs, the call is recorded in a bounded journal on disk; after it, *)
(* the record gets the outcome.  A call whose digest is recorded already   *)
(* is answered from the record, a call that reuses a recorded idempotency  *)
(* key for another digest is refused.                                      *)
(*                                                                         *)
(* The event loop runs one client call at a time, but a guarded tool may   *)
(* call another guarded tool (workspace_transaction calls                  *)
(* apply_unified_diff), so guards nest: the stack below.  Every save goes  *)
(* through a temporary file and a rename and is one step here.             *)
(***************************************************************************)
EXTENDS Naturals, Sequences, FiniteSets

CONSTANTS
    Sessions,   \* authorized HTTP sessions
    Keys,       \* idempotency keys
    NoKey,
    Bodies,     \* a tool with its arguments, the key left out
    Wraps,      \* the body a tool calls in turn, or NoBody
    NoBody,
    MaxEntries, \* MCP_MUTATION_REPLAY_GUARD_MAX_ENTRIES
    MaxGuards,  \* bound on the number of records ever made
    MaxHead     \* bound on HEAD moves

ASSUME KeysAssumption == NoKey \notin Keys
ASSUME BodiesAssumption ==
    /\ NoBody \notin Bodies
    /\ Wraps \in [Bodies -> Bodies \cup {NoBody}]
    /\ \A b \in Bodies : Wraps[b] # NoBody => Wraps[Wraps[b]] = NoBody
ASSUME BoundsAssumption ==
    MaxEntries \in Nat \ {0} /\ MaxGuards \in Nat /\ MaxHead \in Nat

VARIABLES
    journal,    \* the entries on disk, oldest first
    stale,      \* how many of them are past the TTL; they are the oldest
    stack,      \* the guarded calls in progress, outermost first
    head,       \* the git HEAD
    guards,     \* records made so far
    ran,        \* history: the mutations that were started
    used,       \* history: the bodies clients sent with each key
    answer      \* history: what the client was told last

vars == <<journal, stale, stack, head, guards, ran, used, answer>>

Ids == 1..MaxGuards
Digests == Bodies \X (0..MaxHead)
Entry == [id : Ids, session : Sessions, key : Keys \cup {NoKey}, digest : Digests,
          status : {"started", "applied", "failed"}]
Outcomes == {"ok", "not ok", "raised", "conflict"}
Frame == [step : {"begin", "run", "finish"}, id : Ids \cup {0}, session : Sessions,
          key : Keys \cup {NoKey}, header : BOOLEAN, digest : Digests,
          outcome : Outcomes \cup {"none"}]
Run == [id : Ids, session : Sessions, digest : Digests, outcome : Outcomes]
NoAnswer == [kind |-> "none"]
Answer == [kind : {"none"}] \cup
          [kind : {"result", "duplicate"}, outcome : Outcomes, session : Sessions,
           key : Keys \cup {NoKey}, body : Bodies]

TypeOK ==
    /\ journal \in Seq(Entry)
    /\ stale \in 0..Len(journal)
    /\ stack \in Seq(Frame)
    /\ head \in 0..MaxHead
    /\ guards \in 0..MaxGuards
    /\ ran \subseteq Run
    /\ used \in [Sessions \X Keys -> SUBSET Bodies]
    /\ answer \in Answer

Init ==
    /\ journal = <<>>
    /\ stale = 0
    /\ stack = <<>>
    /\ head = 0
    /\ guards = 0
    /\ ran = {}
    /\ used = [sk \in Sessions \X Keys |-> {}]
    /\ answer = NoAnswer

-----------------------------------------------------------------------------
\* The journal.

\* The newest MaxEntries of a sequence.
Newest(s) == IF Len(s) <= MaxEntries THEN s
             ELSE SubSeq(s, Len(s) - MaxEntries + 1, Len(s))

\* _mutation_replay_prune_entries
Pruned == Newest(SubSeq(journal, stale + 1, Len(journal)))

\* Broken variants: a retry under another key, or a reused key, goes unnoticed.
KeyConcerns(e, f) ==
    e.session = f.session /\ IF f.key = NoKey THEN e.digest = f.digest ELSE e.key = f.key
DigestConcerns(e, f) == e.session = f.session /\ e.digest = f.digest

\* Within a session, a record of the same key for another digest, and one of
\* the same digest whatever its key.
Clashes(e, f) == f.key # NoKey /\ e.key = f.key /\ e.digest # f.digest
Concerns(e, f) == e.session = f.session /\ (Clashes(e, f) \/ e.digest = f.digest)
Hits(f) == {i \in DOMAIN Pruned : Concerns(Pruned[i], f)}
FirstHit(f) == CHOOSE i \in Hits(f) : \A k \in Hits(f) : i <= k

-----------------------------------------------------------------------------
\* The call in progress.

Top == stack[Len(stack)]
Under == SubSeq(stack, 1, Len(stack) - 1)
Busy(step) == stack # <<>> /\ Top.step = step
TopBecomes(f) == stack' = [stack EXCEPT ![Len(stack)] = f]

\* workspace_transaction wraps what it gets in a dictionary without "ok", which
\* counts as a success; an exception passes through.
Finishing(f, outcome) ==
    [f EXCEPT !.step = "finish",
              !.outcome = IF outcome \in {"raised", "conflict"} THEN outcome ELSE "ok"]

Told(kind, outcome) ==
    [kind |-> kind, outcome |-> outcome, session |-> Top.session, key |-> Top.key,
     body |-> Top.digest[1]]

\* The guarded function returns or raises, to the client or to its caller.
Return(kind, outcome) ==
    IF Under = <<>>
    THEN stack' = <<>> /\ answer' = Told(kind, outcome)
    ELSE /\ stack' = [Under EXCEPT ![Len(Under)] = Finishing(Under[Len(Under)], outcome)]
         /\ UNCHANGED answer

\* A client calls a mutating tool, giving the key as a header, as an argument
\* or not at all.
Call(s, k, inHeader, b) ==
    /\ stack = <<>>
    /\ inHeader => k # NoKey
    /\ stack' = <<[step |-> "begin", id |-> 0, session |-> s, key |-> k,
                   header |-> inHeader, digest |-> <<b, head>>, outcome |-> "none"]>>
    /\ used' = IF k = NoKey THEN used ELSE [used EXCEPT ![<<s, k>>] = @ \cup {b}]
    /\ answer' = NoAnswer
    /\ UNCHANGED <<journal, stale, head, guards, ran>>

\* Broken variant: the record is written only when the tool has returned.
BeginUnsaved ==
    /\ Busy("begin") /\ Hits(Top) = {} /\ guards < MaxGuards
    /\ guards' = guards + 1
    /\ TopBecomes([Top EXCEPT !.step = "run", !.id = guards'])
    /\ UNCHANGED <<journal, stale, head, ran, used, answer>>

\* _mutation_replay_guard_begin: nothing recorded concerns the call, so a
\* record of it is appended and saved before the tool runs.
BeginRecorded ==
    /\ Busy("begin") /\ Hits(Top) = {} /\ guards < MaxGuards
    /\ guards' = guards + 1
    /\ journal' = Newest(Append(Pruned,
                    [id |-> guards', session |-> Top.session, key |-> Top.key,
                     digest |-> Top.digest, status |-> "started"]))
    /\ stale' = 0
    /\ TopBecomes([Top EXCEPT !.step = "run", !.id = guards'])
    /\ UNCHANGED <<head, ran, used, answer>>

\* Broken variant: the repeated call puts the record back to started.
DuplicateReopens ==
    /\ Busy("begin") /\ Hits(Top) # {}
    /\ LET e == Pruned[FirstHit(Top)] IN
       /\ ~Clashes(e, Top)
       /\ Return("duplicate", IF e.status = "applied" THEN "ok" ELSE "not ok")
    /\ journal' = [Pruned EXCEPT ![FirstHit(Top)].status = "started"]
    /\ stale' = 0
    /\ UNCHANGED <<head, guards, ran, used>>

\* The first record that concerns the call has its digest: the tool does not
\* run again, and the answer is ok only if the record says applied.
BeginDuplicate ==
    /\ Busy("begin") /\ Hits(Top) # {}
    /\ LET e == Pruned[FirstHit(Top)] IN
       /\ ~Clashes(e, Top)
       /\ Return("duplicate", IF e.status = "applied" THEN "ok" ELSE "not ok")
    /\ journal' = Pruned /\ stale' = 0
    /\ UNCHANGED <<head, guards, ran, used>>

\* The first record that concerns the call has its key and another digest.
BeginConflict ==
    /\ Busy("begin") /\ Hits(Top) # {}
    /\ Clashes(Pruned[FirstHit(Top)], Top)
    /\ Return("result", "conflict")
    /\ journal' = Pruned /\ stale' = 0
    /\ UNCHANGED <<head, guards, ran, used>>

\* The tool does its work, which may fail half-way, and may take the journal
\* with it (mode restore cleans the work tree, ignored files too if asked to).
Execute ==
    /\ Busy("run") /\ Wraps[Top.digest[1]] = NoBody
    /\ \E o \in {"ok", "not ok", "raised"} :
        /\ ran' = ran \cup {[id |-> Top.id, session |-> Top.session,
                              digest |-> Top.digest, outcome |-> o]}
        /\ TopBecomes([Top EXCEPT !.step = "finish", !.outcome = o])
    /\ UNCHANGED <<journal, stale>> \/ (journal' = <<>> /\ stale' = 0)
    /\ UNCHANGED <<head, guards, used, answer>>

\* The tool rejects its arguments.
Reject ==
    /\ Busy("run")
    /\ TopBecomes([Top EXCEPT !.step = "finish", !.outcome = "raised"])
    /\ UNCHANGED <<journal, stale, head, guards, ran, used, answer>>

\* The tool calls another guarded one: the header's key is in force there too,
\* a key among the arguments is not passed on.
Invoke ==
    /\ Busy("run") /\ Wraps[Top.digest[1]] # NoBody
    /\ stack' = Append(stack, [Top EXCEPT !.step = "begin", !.id = 0,
                                          !.key = IF Top.header THEN @ ELSE NoKey,
                                          !.digest = <<Wraps[Top.digest[1]], head>>])
    /\ UNCHANGED <<journal, stale, head, guards, ran, used, answer>>

\* Broken variant: applied unless the tool raised.
FinishOptimistic ==
    /\ Busy("finish")
    /\ journal' = [i \in DOMAIN Pruned |->
                     IF Pruned[i].id = Top.id
                     THEN [Pruned[i] EXCEPT !.status = IF Top.outcome = "raised" THEN "failed"
                                                       ELSE "applied"]
                     ELSE Pruned[i]]
    /\ stale' = 0
    /\ Return("result", Top.outcome)
    /\ UNCHANGED <<head, guards, ran, used>>

\* _mutation_replay_guard_finish: the record, if it is still there, gets the
\* outcome.
Finish ==
    /\ Busy("finish")
    /\ journal' = [i \in DOMAIN Pruned |->
                     IF Pruned[i].id = Top.id
                     THEN [Pruned[i] EXCEPT !.status = IF Top.outcome = "ok" THEN "applied"
                                                       ELSE "failed"]
                     ELSE Pruned[i]]
    /\ stale' = 0
    /\ Return("result", Top.outcome)
    /\ UNCHANGED <<head, guards, ran, used>>

\* Saving the journal raises OSError; the call ends with that exception.
SaveFails ==
    /\ Busy("begin") \/ Busy("finish")
    /\ Return("result", "raised")
    /\ UNCHANGED <<journal, stale, head, guards, ran, used>>

\* Time passes; the oldest record is now past the TTL.
Tick ==
    /\ stale < Len(journal)
    /\ stale' = stale + 1
    /\ UNCHANGED <<journal, stack, head, guards, ran, used, answer>>

\* HEAD moves: somebody commits, or the mutation just run did (mode restore
\* resets the repository to the snapshot's HEAD).
Commit ==
    /\ head < MaxHead
    /\ head' = head + 1
    /\ UNCHANGED <<journal, stale, stack, guards, ran, used, answer>>

\* The server dies during a call and comes back; the client gets no answer.
Crash ==
    /\ stack # <<>>
    /\ stack' = <<>>
    /\ UNCHANGED <<journal, stale, head, guards, ran, used, answer>>

Next ==
    \/ \E s \in Sessions, k \in Keys \cup {NoKey}, inHeader \in BOOLEAN, b \in Bodies :
         Call(s, k, inHeader, b)
    \/ BeginRecorded \/ BeginDuplicate \/ BeginConflict
    \/ Execute \/ Reject \/ Invoke \/ Finish \/ SaveFails
    \/ Tick \/ Commit \/ Crash

Spec == Init /\ [][Next]_vars

-----------------------------------------------------------------------------
\* Properties.

Retained(id) == \E i \in DOMAIN journal : journal[i].id = id

\* A mutation is not run a second time in a session, at the same HEAD, while
\* the record of its first run is on disk: not after a crash in the middle, not
\* when saving its outcome failed, not under another key, not from inside
\* another tool.
AtMostOnce ==
    [][\A r \in ran' \ ran, q \in ran :
         q.session = r.session /\ q.digest = r.digest => ~Retained(q.id)]_vars

\* A mutation runs only when its record, still open, is already on disk, so a
\* crash cannot leave a mutation behind that nothing remembers.
WriteAhead ==
    [][\A r \in ran' \ ran :
         \E i \in DOMAIN journal : /\ journal[i].id = r.id
                                   /\ journal[i].status = "started"]_vars

\* In the journal an idempotency key stands for one mutation only, and a
\* mutation has one record only.
KeyBindsOne ==
    \A i, j \in DOMAIN journal :
        journal[i].session = journal[j].session =>
            /\ journal[i].key = journal[j].key /\ journal[i].key # NoKey
               => journal[i].digest = journal[j].digest
            /\ journal[i].digest = journal[j].digest => i = j

\* The journal keeps to its bound, nested calls included.
Bounded == Len(journal) <= MaxEntries

\* An outcome that has been recorded is never changed, only forgotten.
SettledStays ==
    [][\A i \in DOMAIN journal, j \in DOMAIN journal' :
         journal[i].id = journal'[j].id /\ journal[i].status # "started"
         => journal'[j].status = journal[i].status]_vars

\* A mutation of this body ran in the session and succeeded.
Succeeded(s, b) == \E r \in ran : r.session = s /\ r.digest[1] = b /\ r.outcome = "ok"

\* When the repetition of a plain call is answered with ok, the mutation did
\* run in that session and did succeed.
PlainOkIsReal ==
    answer.kind = "duplicate" /\ answer.outcome = "ok" /\ Wraps[answer.body] = NoBody =>
        Succeeded(answer.session, answer.body)

\* docs/mutation-step-guard.md: the guard accepts an Idempotency-Key header, and
\* "reusing the same idempotency key for a different digest fails closed": only
\* a client that has used its key for something else is refused.
ConflictMeansReuse ==
    answer.kind = "result" /\ answer.outcome = "conflict" =>
        \E b \in used[<<answer.session, answer.key>>] : b # answer.body
-----------------------------------------------------------------------------
\* What makes the properties above inductive.

\* Records are numbered in the order in which they were made.
Numbered ==
    \A i, j \in DOMAIN journal :
        /\ journal[i].id <= guards
        /\ i < j => journal[i].id < journal[j].id

\* Of the calls in progress only the innermost is not waiting for another one,
\* each that has a number has one of its own, and what finishes has an outcome.
Nested ==
    \A n \in DOMAIN stack :
        /\ stack[n].id <= guards
        /\ stack[n].step = "begin" => stack[n].id = 0
        /\ stack[n].step # "begin" => stack[n].id # 0
        /\ stack[n].step = "finish" => stack[n].outcome # "none"
        /\ n < Len(stack) => stack[n].step = "run" /\ Wraps[stack[n].digest[1]] # NoBody
        /\ \A m \in DOMAIN stack : stack[m].id = stack[n].id => m = n

\* The innermost call runs on an open record of its own and has not run before.
RunsOnRecord ==
    Busy("run") =>
        /\ \E i \in DOMAIN journal :
            /\ journal[i].id = Top.id /\ journal[i].session = Top.session
            /\ journal[i].digest = Top.digest /\ journal[i].status = "started"
        /\ \A r \in ran : r.id # Top.id

\* The record of a call in progress is open, that of a mutation names it.
RecordsMatch ==
    \A i \in DOMAIN journal :
        /\ \A n \in DOMAIN stack : stack[n].id = journal[i].id => journal[i].status = "started"
        /\ \A r \in ran : r.id = journal[i].id => /\ r.session = journal[i].session
                                                  /\ r.digest = journal[i].digest

RanNumbered == \A r \in ran : r.id <= guards

IInv == /\ TypeOK /\ Bounded /\ KeyBindsOne /\ Numbered /\ Nested
        /\ RunsOnRecord /\ RecordsMatch /\ RanNumbered

\* The record of a call in progress has its session and digest.
FramesMatch ==
    \A i \in DOMAIN journal, n \in DOMAIN stack : stack[n].id = journal[i].id =>
        stack[n].session = journal[i].session /\ stack[n].digest = journal[i].digest

\* A plain call that finishes with ok, or whose record says applied, succeeded.
FinishIsReal ==
    Busy("finish") /\ Top.outcome = "ok" /\ Wraps[Top.digest[1]] = NoBody =>
        Succeeded(Top.session, Top.digest[1])
AppliedIsReal ==
    \A i \in DOMAIN journal :
        journal[i].status = "applied" /\ Wraps[journal[i].digest[1]] = NoBody =>
            Succeeded(journal[i].session, journal[i].digest[1])

OkInv == IInv /\ FramesMatch /\ FinishIsReal /\ AppliedIsReal /\ PlainOkIsReal

=============================================================================
