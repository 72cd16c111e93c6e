-------------------------- MODULE TerminalSession --------------------------
(***************************************************************************)
(* Support sessions (terminal_support_session and                          *)
(* _terminal_read_available in src/source/server.py): a command runs on a  *)
(* pty, or on pipes when that fails; its output is read when a client asks *)
(* for it, and goes to a log file and to the client.                       *)
(*                                                                         *)
(* Calls run one at a time in the event loop, while the command writes and *)
(* exits when it likes.  Any system call may fail, which raises out of the *)
(* call, and the server may die at any step.  The log is modelled up to    *)
(* its output; its head and the echo of the input are left out.  A piece   *)
(* of output is what one os.read returns, as text; a character that two    *)
(* reads share is decoded in halves, which does not show here.             *)
(***************************************************************************)
EXTENDS Naturals, Sequences, Functions

CONSTANTS
    TermIds,       \* session ids
    TermNone,      \* not one of them
    TermCap,       \* pieces of output a call returns at most
    TermMaxOut     \* bound on the pieces a command writes

Backends == {"pty", "pipe"}

ASSUME TermAssumption ==
    TermNone \notin TermIds \cup Backends /\ TermCap \in Nat \ {0} /\ TermMaxOut \in Nat

VARIABLES
    termProc,      \* each session's command
    termOpen,      \* the descriptors the server has open for it
    termTable,     \* _TERMINAL_SESSIONS: the backends of the sessions it knows
    termMade,      \* how many pieces of output the command has written
    termRead,      \* how many of them the server has taken from the descriptor
    termLog,       \* the log: numbers of pieces
    termOp,        \* the call in progress
    termFailed,    \* history: sessions whose start failed, or fell back to pipes with a pty opened
    termGivenUp,   \* history: sessions whose command was still alive when a stop, or the server, gave it up
    termLost,      \* history: the pieces that were read and did not get into the log
    termWhole      \* history: sessions stopped with their output read to the end

termHistory == <<termFailed, termGivenUp, termLost, termWhole>>
termVars == <<termProc, termOpen, termTable, termMade, termRead, termLog, termOp, termHistory>>

TermIdle == [step |-> "idle", sid |-> TermNone, backend |-> "pty", stop |-> FALSE, held |-> 0]

TermTypeOK ==
    /\ termProc \in [TermIds -> {"none", "runs", "ended"}]
    /\ termOpen \in [TermIds -> SUBSET Backends]
    /\ termTable \in [TermIds -> Backends \cup {TermNone}]
    /\ termMade \in [TermIds -> 0..TermMaxOut]
    /\ termRead \in [TermIds -> 0..TermMaxOut] /\ \A s \in TermIds : termRead[s] <= termMade[s]
    /\ termLog \in [TermIds -> Seq(1..TermMaxOut)]
    /\ termOp \in [step : {"idle", "head", "read", "close"}, sid : TermIds \cup {TermNone},
                   backend : Backends, stop : BOOLEAN, held : 0..TermCap]
    /\ termLost \in [TermIds -> SUBSET (1..TermMaxOut)]
    /\ {termFailed, termGivenUp, termWhole} \subseteq SUBSET TermIds

TermInit ==
    /\ termProc = [s \in TermIds |-> "none"] /\ termOpen = [s \in TermIds |-> {}]
    /\ termTable = [s \in TermIds |-> TermNone]
    /\ termMade = [s \in TermIds |-> 0] /\ termRead = termMade
    /\ termLog = [s \in TermIds |-> <<>>]
    /\ termOp = TermIdle
    /\ termFailed = {} /\ termGivenUp = {} /\ termWhole = {}
    /\ termLost = [s \in TermIds |-> {}]

-----------------------------------------------------------------------------
\* mode=start: the command is run on a pty; when openpty or Popen raises OSError, on
\* pipes, and a pty that was opened stays open.  Popen may raise again.
TermStart(s) ==
    /\ termOp.step = "idle" /\ termProc[s] = "none" /\ s \notin termFailed
    /\ \E opened, onPty, onPipe \in BOOLEAN :
          LET backend == IF onPty THEN "pty" ELSE "pipe"
              runs == onPty \/ onPipe
          IN /\ onPty => opened /\ ~onPipe
             /\ termOpen' = [termOpen EXCEPT ![s] = (IF opened THEN {"pty"} ELSE {}) \cup (IF onPipe THEN {"pipe"} ELSE {})]
             /\ termProc' = [termProc EXCEPT ![s] = IF runs THEN "runs" ELSE "none"]
             /\ termOp' = IF runs THEN [step |-> "head", sid |-> s, backend |-> backend, stop |-> FALSE, held |-> 0]
                          ELSE TermIdle
             /\ termFailed' = IF onPty \/ (runs /\ ~opened) THEN termFailed ELSE termFailed \cup {s}
    /\ UNCHANGED <<termTable, termMade, termRead, termLog, termGivenUp, termLost, termWhole>>

\* The log's head is written, and the session enters the table; or that fails, and
\* only a pipe is closed, with the Popen object that held it.
TermHead ==
    /\ termOp.step = "head"
    /\ \/ /\ termTable' = [termTable EXCEPT ![termOp.sid] = termOp.backend]
          /\ termOp' = [termOp EXCEPT !.step = "read"]
          /\ UNCHANGED <<termFailed, termOpen>>
       \/ /\ termFailed' = termFailed \cup {termOp.sid}
          /\ termOpen' = [termOpen EXCEPT ![termOp.sid] = @ \ {"pipe"}]
          /\ termOp' = TermIdle
          /\ UNCHANGED termTable
    /\ UNCHANGED <<termProc, termMade, termRead, termLog, termGivenUp, termLost, termWhole>>

\* mode=poll or send: what is sent does not show here, but sending may fail.
TermPoll(s) ==
    /\ termOp.step = "idle" /\ termTable[s] # TermNone
    /\ termOp' = [step |-> "read", sid |-> s, backend |-> termTable[s], stop |-> FALSE, held |-> 0]
    /\ UNCHANGED <<termProc, termOpen, termTable, termMade, termRead, termLog, termHistory>>

\* Broken variant: the rest is read while the command may still write.
TermStopAtOnce(s) ==
    /\ termOp.step = "idle" /\ termTable[s] # TermNone
    /\ termOp' = [step |-> "read", sid |-> s, backend |-> termTable[s], stop |-> TRUE, held |-> 0]
    /\ UNCHANGED <<termProc, termOpen, termTable, termMade, termRead, termLog, termHistory>>

\* mode=stop: terminate and wait, kill and wait: the call goes on when the command has
\* ended.  One that ignores the first and is stuck at the second is given up.
TermStop(s) ==
    /\ termOp.step = "idle" /\ termTable[s] # TermNone
    /\ termOp' = [step |-> "read", sid |-> s, backend |-> termTable[s], stop |-> TRUE, held |-> 0]
    /\ \/ termProc[s] = "ended" /\ UNCHANGED termGivenUp
       \/ termProc[s] = "runs" /\ termGivenUp' = termGivenUp \cup {s}
    /\ UNCHANGED <<termProc, termOpen, termTable, termMade, termRead, termLog,
                   termFailed, termLost, termWhole>>

\* The pieces of a session that the call in progress has read and not yet logged.
TermUnlogged(s) == IF termOp.sid = s THEN (termRead[s] - termOp.held + 1)..termRead[s] ELSE {}

\* Broken variant: all there is is read, and what is over the cap is cut off.
TermReadsTrimmed ==
    /\ termOp.step = "read" /\ termOp.held < TermCap
    /\ termRead[termOp.sid] < termMade[termOp.sid]
    /\ termRead' = [termRead EXCEPT ![termOp.sid] = termMade[termOp.sid]]
    /\ termOp' = [termOp EXCEPT !.held = @ + 1]
    /\ UNCHANGED <<termProc, termOpen, termTable, termMade, termLog, termHistory>>

\* One os.read: what it returns is gone from the descriptor and held in memory.
TermReads ==
    /\ termOp.step = "read" /\ termOp.held < TermCap
    /\ termRead[termOp.sid] < termMade[termOp.sid]
    /\ termRead' = [termRead EXCEPT ![termOp.sid] = @ + 1]
    /\ termOp' = [termOp EXCEPT !.held = @ + 1]
    /\ UNCHANGED <<termProc, termOpen, termTable, termMade, termLog, termHistory>>

\* Nothing more to read, or the cap reached: what was read is appended to the log,
\* and a stop goes on to close.  A call that does not include output has read nothing.
TermAppends(included) ==
    /\ termOp.step = "read"
    /\ IF included THEN termOp.held = TermCap \/ termRead[termOp.sid] = termMade[termOp.sid]
       ELSE termOp.held = 0
    /\ LET s == termOp.sid
           pieces == [i \in 1..termOp.held |-> termRead[s] - termOp.held + i]
       IN /\ termLog' = [termLog EXCEPT ![s] = @ \o pieces]
          /\ termWhole' = IF termOp.stop /\ included /\ termOp.held < TermCap /\ s \notin termGivenUp
                          THEN termWhole \cup {s} ELSE termWhole
    /\ termOp' = IF termOp.stop THEN [termOp EXCEPT !.step = "close", !.held = 0] ELSE TermIdle
    /\ UNCHANGED <<termProc, termOpen, termTable, termMade, termRead, termFailed, termGivenUp, termLost>>

\* Another system call of the call in progress raises, a write to a command that is
\* gone or the append: some of what was held may be in the log, the rest is gone.  A
\* stop has not closed anything then.
TermRaises ==
    /\ termOp.step = "read"
    /\ \E n \in 0..termOp.held :
          LET s == termOp.sid
              from == termRead[s] - termOp.held
          IN /\ termLog' = [termLog EXCEPT ![s] = @ \o [i \in 1..n |-> from + i]]
             /\ termLost' = [termLost EXCEPT ![s] = @ \cup ((from + n + 1)..termRead[s])]
    /\ termOp' = TermIdle
    /\ UNCHANGED <<termProc, termOpen, termTable, termMade, termRead, termFailed, termGivenUp, termWhole>>

\* Broken variant: the descriptors are left to the garbage collector.
TermForget ==
    /\ termOp.step = "close"
    /\ termTable' = [termTable EXCEPT ![termOp.sid] = TermNone]
    /\ termOp' = TermIdle
    /\ UNCHANGED <<termOpen, termProc, termMade, termRead, termLog, termHistory>>

\* The backend's descriptors are closed and the session leaves the table.
TermClose ==
    /\ termOp.step = "close"
    /\ termOpen' = [termOpen EXCEPT ![termOp.sid] = @ \ {termOp.backend}]
    /\ termTable' = [termTable EXCEPT ![termOp.sid] = TermNone]
    /\ termOp' = TermIdle
    /\ UNCHANGED <<termProc, termMade, termRead, termLog, termHistory>>

TermWrites(s) ==
    /\ termProc[s] = "runs" /\ termMade[s] < TermMaxOut
    /\ termMade' = [termMade EXCEPT ![s] = @ + 1]
    /\ UNCHANGED <<termProc, termOpen, termTable, termRead, termLog, termOp, termHistory>>

TermEnds(s) ==
    /\ termProc[s] = "runs"
    /\ termProc' = [termProc EXCEPT ![s] = "ended"]
    /\ UNCHANGED <<termOpen, termTable, termMade, termRead, termLog, termOp, termHistory>>

\* The server dies and is started again; commands that run go on, and what was held
\* is gone.
TermCrash ==
    /\ termTable' = [s \in TermIds |-> TermNone]
    /\ termOpen' = [s \in TermIds |-> {}]
    /\ termOp' = TermIdle
    /\ termGivenUp' = termGivenUp \cup {s \in TermIds : termProc[s] = "runs"}
    /\ termLost' = [s \in TermIds |-> termLost[s] \cup TermUnlogged(s)]
    /\ UNCHANGED <<termProc, termMade, termRead, termLog, termFailed, termWhole>>

TermNext ==
    \/ TermHead \/ TermReads \/ TermClose \/ TermRaises \/ TermCrash
    \/ \E included \in BOOLEAN : TermAppends(included)
    \/ \E s \in TermIds : TermStart(s) \/ TermPoll(s) \/ TermStop(s) \/ TermWrites(s) \/ TermEnds(s)

TermSpec == TermInit /\ [][TermNext]_termVars

-----------------------------------------------------------------------------
\* Properties.

\* A command that runs, and a descriptor that is open, belong to a session of the
\* table or to the call in progress, so that a stop can still reach them, except after
\* a start that failed or fell back to pipes, and for a command that was given up.
TermReachable ==
    \A s \in TermIds \ termFailed :
        /\ termOpen[s] # {} => termTable[s] # TermNone \/ termOp.sid = s
        /\ termProc[s] = "runs" => termTable[s] # TermNone \/ termOp.sid = s \/ s \in termGivenUp

\* The log has the output that was read, in order and nothing twice, whatever calls
\* raised and whenever the server died: what is missing is what a call still holds,
\* or what a call held that raised or died with the server.
TermLogged ==
    \A s \in TermIds :
        /\ \A i, j \in DOMAIN termLog[s] : i < j => termLog[s][i] < termLog[s][j]
        /\ Range(termLog[s]) = (1..termRead[s]) \ (termLost[s] \cup TermUnlogged(s))

\* A stop that included its output, stayed below the cap and did not give the command
\* up has the last words of the command in the log.
TermLastWords ==
    \A s \in termWhole : termRead[s] = termMade[s] /\ termProc[s] = "ended"

-----------------------------------------------------------------------------
\* What the steps keep.

\* A call in progress is about a session; from its reading on, one of the table.
\* Only a stop closes.
TermAtWork ==
    IF termOp.step = "idle" THEN termOp.sid = TermNone
    ELSE /\ termOp.sid \in TermIds
         /\ termOp.step # "head" => termTable[termOp.sid] = termOp.backend
         /\ termOp.step = "close" => termOp.stop

\* Only a call that reads holds output, which it took last; no earlier piece is lost
\* a second time.
TermHolds ==
    /\ termOp.step # "read" => termOp.held = 0
    /\ \A s \in TermIds : termLost[s] \subseteq 1..termRead[s] \ TermUnlogged(s)
    /\ termOp.sid \in TermIds => termOp.held <= termRead[termOp.sid]

\* A session that was never started is not in the table.
TermStarted == \A s \in TermIds : termProc[s] = "none" => termTable[s] = TermNone /\ termOp.sid # s

\* A session has the descriptors of its backend, so that closing that one is enough.
TermOneBackend ==
    \A s \in TermIds \ termFailed :
        /\ termTable[s] # TermNone => termOpen[s] \subseteq {termTable[s]}
        /\ termOp.sid = s => termOpen[s] \subseteq {termOp.backend}

\* A stop goes on when the command has ended or was given up.
TermStopped ==
    termOp.step # "idle" /\ termOp.stop =>
        termProc[termOp.sid] = "ended" \/ termOp.sid \in termGivenUp

TermIInv ==
    /\ TermTypeOK /\ TermAtWork /\ TermHolds /\ TermStarted /\ TermOneBackend /\ TermStopped
    /\ TermReachable /\ TermLogged /\ TermLastWords
=============================================================================
