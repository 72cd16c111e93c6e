---------------------------- MODULE MemoryStore ----------------------------
(***************************************************************************)
(* The context memory (memory_upsert, memory_summary_upsert,               *)
(* memory_decision_record, memory_validate, memory_auto_compact and the    *)
(* agent proxy's capture in src/source/server.py): one JSON file that      *)
(* every operation reads whole, changes and writes back in place.          *)
(*                                                                         *)
(* Operations run one at a time in the event loop; the server may die      *)
(* between any two of their steps.  A row stands for an entry, a summary   *)
(* or a decision; its value is told apart by the time of its update.       *)
(***************************************************************************)
EXTENDS Integers, Subsequences

CONSTANTS
    Keys, Topics,   \* names of entries and of decisions
    Compacted,      \* the focus of the summary that auto_compact writes
    Trace,          \* the focus of the summary of one answer of the agent proxy
    Ttl,            \* days a row lives, when it does not live for ever
    CompactAbove,   \* threshold_entries
    ValidateLimit,  \* max_entries of memory_validate
    MemMaxRows,     \* bound on the rows of the file
    MemMaxNow,      \* bound on the clock
    MemTorn         \* what a file holds that was truncated and not filled again

ASSUME MemBoundsAssumption ==
    /\ Ttl \in Nat /\ CompactAbove \in Nat \ {0} /\ ValidateLimit \in Nat \ {0}
    /\ MemMaxRows \in Nat /\ MemMaxNow \in Nat
ASSUME CompactedAssumption == Compacted # Trace

VARIABLES
    memFile,     \* the file: what it holds, or MemTorn
    memOp,       \* the operation in progress
    memNow,      \* the wall clock
    memTold      \* history: the rows clients were told are stored, since the file was last lost

memVars == <<memFile, memOp, memNow, memTold>>

Lists == {"entries", "summaries", "decisions"}
Never == MemMaxNow + 1
MemRow == [name : Keys \cup Topics \cup {Compacted, Trace}, by : {"human", "llm"}, at : 0..MemMaxNow,
           expires : 0..(MemMaxNow + Ttl + 1)]
MemWhole == [Lists -> Seq(MemRow)]
ASSUME MemTornAssumption == MemTorn \notin MemWhole
MemEmpty == [l \in Lists |-> <<>>]
NoCut == [l \in Lists |-> {}]
MemIdle == [step |-> "idle", whole |-> MemEmpty, told |-> MemEmpty, cut |-> NoCut]

MemTypeOK ==
    /\ memFile \in MemWhole \cup {MemTorn}
    /\ memOp \in [step : {"idle", "open", "write"}, whole : MemWhole, told : MemWhole,
                  cut : [Lists -> SUBSET MemRow]]
    /\ memNow \in 0..MemMaxNow
    /\ memTold \in [Lists -> SUBSET MemRow]

MemInit ==
    /\ memFile = MemEmpty /\ memOp = MemIdle /\ memNow = 0
    /\ memTold = [l \in Lists |-> {}]

-----------------------------------------------------------------------------
\* _memory_load: a file that is not JSON counts as empty.
MemLoaded == IF memFile = MemTorn THEN MemEmpty ELSE memFile

MemRows(whole) == Len(whole["entries"]) + Len(whole["summaries"]) + Len(whole["decisions"])
MemExpired(row) == row.expires < memNow
LiveRows(rows) == Only(rows, {row \in Range(rows) : ~MemExpired(row)})

NewRow(name, by, ttl) ==
    [name |-> name, by |-> by, at |-> memNow, expires |-> IF ttl THEN memNow + Ttl ELSE Never]

\* The row of that name is changed in place, or a new one is added.
Upserted(rows, row) ==
    IF \E i \in DOMAIN rows : rows[i].name = row.name
    THEN [i \in DOMAIN rows |-> IF rows[i].name = row.name THEN row ELSE rows[i]]
    ELSE Append(rows, row)

\* An operation has computed the new content; told and cut are, for the history, the
\* row its answer will promise and the rows that it drops for being too many.
MemSaves(whole, list, row, cut) ==
    /\ memOp.step = "idle" /\ MemRows(whole) <= MemMaxRows
    /\ memOp' = [step |-> "open", whole |-> whole, told |-> [MemEmpty EXCEPT ![list] = row],
                 cut |-> cut]
    /\ UNCHANGED <<memFile, memNow, memTold>>

MemUpsert(list, name, ttl) ==
    LET row == NewRow(name, "llm", ttl)
    IN MemSaves([MemLoaded EXCEPT ![list] = Upserted(@, row)], list, <<row>>, NoCut)

MemDecide(name, by, ttl) ==
    LET row == NewRow(name, by, ttl)
    IN MemSaves([MemLoaded EXCEPT !["decisions"] = Append(@, row)], "decisions", <<row>>, NoCut)

\* _agent_proxy_memory_capture adds a summary; its focus names the answer.
MemCapture ==
    LET row == NewRow(Trace, "llm", FALSE)
    IN /\ \A r \in memTold["summaries"] : r.name # Trace
       /\ MemSaves([MemLoaded EXCEPT !["summaries"] = Append(@, row)], "summaries", <<row>>, NoCut)

\* memory_auto_compact: too many live entries, and a summary of them is upserted.
MemCompact ==
    /\ Len(LiveRows(MemLoaded["entries"])) > CompactAbove
    /\ MemUpsert("summaries", Compacted, TRUE)

\* The rows beyond the limit of each list.
Beyond(rows) == {rows[i] : i \in {j \in DOMAIN rows : j > ValidateLimit}}

\* Broken variant: only the last row of the list survives.
MemValidateLast ==
    LET Kept(rows) == IF rows = <<>> THEN rows ELSE LiveRows(<<rows[Len(rows)]>>)
    IN MemSaves([l \in Lists |-> Kept(MemLoaded[l])], "entries", <<>>,
                [l \in Lists |-> Beyond(MemLoaded[l])])

\* memory_validate(drop_expired=True): it looks at the first max_entries rows of each
\* list, and what it has looked at and kept is all that is written back.
MemValidate ==
    LET Kept(rows) == LiveRows(SubSeq(rows, 1, IF Len(rows) < ValidateLimit
                                               THEN Len(rows) ELSE ValidateLimit))
    IN MemSaves([l \in Lists |-> Kept(MemLoaded[l])], "entries", <<>>,
                [l \in Lists |-> Beyond(MemLoaded[l])])

\* _memory_save truncates the file,
MemOpen ==
    /\ memOp.step = "open"
    /\ memFile' = MemTorn
    /\ memOp' = [memOp EXCEPT !.step = "write"]
    /\ UNCHANGED <<memNow, memTold>>

\* fills it, and the client is answered: a row takes the place of its namesakes.
MemWrite ==
    /\ memOp.step = "write"
    /\ memFile' = memOp.whole
    /\ memTold' = [l \in Lists |->
          {r \in memTold[l] \ memOp.cut[l] :
              /\ ~MemExpired(r)
              /\ l = "decisions" \/ \A i \in DOMAIN memOp.told[l] : memOp.told[l][i].name # r.name}
          \cup {memOp.told[l][i] : i \in DOMAIN memOp.told[l]}]
    /\ memOp' = MemIdle
    /\ UNCHANGED memNow

MemCrash ==
    /\ memOp.step # "idle"
    /\ memTold' = IF memFile = MemTorn THEN [l \in Lists |-> {}] ELSE memTold
    /\ memOp' = MemIdle
    /\ UNCHANGED <<memFile, memNow>>

MemTick ==
    /\ memOp.step = "idle" /\ memNow < MemMaxNow
    /\ memNow' = memNow + 1
    /\ UNCHANGED <<memFile, memOp, memTold>>

MemNext ==
    \/ MemOpen \/ MemWrite \/ MemCrash \/ MemTick \/ MemCompact \/ MemCapture \/ MemValidate
    \/ \E ttl \in BOOLEAN :
          \/ \E k \in Keys : MemUpsert("entries", k, ttl)
          \/ MemUpsert("summaries", Compacted, ttl)
          \/ \E t \in Topics, by \in {"human", "llm"} : MemDecide(t, by, ttl)

MemSpec == MemInit /\ [][MemNext]_memVars

-----------------------------------------------------------------------------
\* _effective_decisions: one pass over the decisions keeps, per topic, the best so far.

DecisionPriority(row) == IF row.by = "human" THEN 2 ELSE 1

\* Broken variant: the newest decision wins, whoever took it.
BetterNewest(row, best) == row.at >= best.at

\* Broken variant: of two decisions of the same moment the older one stays.
BetterStrict(row, best) ==
    \/ DecisionPriority(row) > DecisionPriority(best)
    \/ DecisionPriority(row) = DecisionPriority(best) /\ row.at > best.at

Better(row, best) ==
    \/ DecisionPriority(row) > DecisionPriority(best)
    \/ DecisionPriority(row) = DecisionPriority(best) /\ row.at >= best.at

EffectiveDecision(rows, topic) ==
    LET best[i \in 0..Len(rows)] ==
            IF i = 0 THEN <<>>
            ELSE IF rows[i].name # topic \/ MemExpired(rows[i]) THEN best[i - 1]
            ELSE IF best[i - 1] = <<>> \/ Better(rows[i], best[i - 1][1]) THEN <<rows[i]>>
            ELSE best[i - 1]
    IN best[Len(rows)]

-----------------------------------------------------------------------------
\* Properties.

\* "Human-over-llm priority": a topic's effective decision is the last one recorded
\* by a human that has not expired, and only without one the last unexpired of any.
MemHumanWins ==
    \A topic \in Topics :
        LET rows == MemLoaded["decisions"]
            live == {i \in DOMAIN rows : rows[i].name = topic /\ ~MemExpired(rows[i])}
            best == IF \E i \in live : rows[i].by = "human"
                    THEN {i \in live : rows[i].by = "human"} ELSE live
        IN EffectiveDecision(rows, topic) =
              IF live = {} THEN <<>>
              ELSE <<rows[CHOOSE i \in best : \A j \in best : j <= i]>>

\* A row that a client was told is stored and that has not expired is in the file
\* between operations, whatever else was saved, compacted or pruned since a death in
\* the middle of a save last lost the whole file, except the rows a pruning did not
\* look at, which it drops.
MemKept ==
    memOp.step = "idle" =>
        \A l \in Lists : \A row \in memTold[l] :
            MemExpired(row) \/ \E i \in DOMAIN MemLoaded[l] : MemLoaded[l][i] = row
-----------------------------------------------------------------------------
(***************************************************************************)
(* Why they hold.  Decisions are recorded in the order of time, and what   *)
(* an operation is about to write has all that will have been promised.    *)
(***************************************************************************)

\* The decisions of a file, by time; none of them is of the future.
InTime(rows) ==
    /\ \A i \in DOMAIN rows : rows[i].at <= memNow
    /\ \A i, j \in DOMAIN rows : i < j => rows[i].at <= rows[j].at

Decisions == InTime(MemLoaded["decisions"]) /\ InTime(memOp.whole["decisions"])

\* The rows that may be missed in a list.
Has(rows, told) == \A row \in told : MemExpired(row) \/ \E i \in DOMAIN rows : rows[i] = row

\* What a client was told before the operation, it will still be told after it.
Survives(l, row) ==
    /\ row \notin memOp.cut[l]
    /\ l = "decisions" \/ \A i \in DOMAIN memOp.told[l] : memOp.told[l][i].name # row.name

Promised ==
    /\ memOp.step # "write" => \A l \in Lists : Has(MemLoaded[l], memTold[l])
    /\ memOp.step = "write" => memFile = MemTorn
    /\ memOp.step # "idle" => \A l \in Lists :
          /\ Has(memOp.whole[l], {row \in memTold[l] : Survives(l, row)})
          /\ Has(memOp.whole[l], Range(memOp.told[l]))

MemIInv == MemTypeOK /\ Decisions /\ Promised
=============================================================================
