-------------------------- MODULE EditTransaction --------------------------
(***************************************************************************)
(* Edit transactions (edit_transaction in src/source/server.py): apply     *)
(* writes files and keeps what they held before in the transaction's       *)
(* metadata, rollback puts it back, commit closes.                         *)
(*                                                                         *)
(* Operations run one at a time, in the event loop.  What can cut one      *)
(* short anywhere is an exception (a bad change in the batch, a failing    *)
(* write) or the death of the server: both leave the files as they are and *)
(* lose what was in memory.  A write truncates, then fills; the metadata   *)
(* is written like any other file.  Between operations other tools may     *)
(* write the same files.                                                   *)
(***************************************************************************)

CONSTANTS
    Txns,       \* transaction ids
    Paths,
    Contents,
    Decoded,    \* what read_text(errors="replace") makes of a content
    Torn,       \* a truncated file
    Absent,     \* no file
    Unsaved,    \* no backup
    None        \* no transaction, no metadata

ASSUME ContentsAssumption ==
    /\ Torn \notin Contents /\ Absent \notin Contents /\ Unsaved \notin Contents
    /\ Torn # Absent /\ Torn # Unsaved /\ Absent # Unsaved
    /\ Decoded \in [Contents -> Contents]
ASSUME NoneAssumption == None \notin Txns /\ None \notin Paths

VARIABLES
    disk,       \* the files
    meta,       \* the metadata of each transaction
    op,         \* the operation in progress
    first,      \* history: what a path held before the transaction's first write
    spoiled     \* history: paths written by an apply that was cut short

txVars == <<disk, meta, op, first, spoiled>>

Files == Contents \cup {Torn, Absent}
Backups == [Paths -> Files \cup {Unsaved}]
Metadata == [kind : {"none", "torn"}]
       \cup [kind : {"whole"}, status : {"open", "rolled_back", "committed"}, backups : Backups]
Steps == {"idle", "apply", "write", "applied", "rollback", "restore", "save", "saving", "unlink"}
Op == [step : Steps, txn : Txns \cup {None}, tx : Metadata, path : Paths \cup {None},
       todo : SUBSET Paths, delete : BOOLEAN]

NoMeta == [kind |-> "none"]
TornMeta == [kind |-> "torn"]
Idle == [step |-> "idle", txn |-> None, tx |-> NoMeta, path |-> None, todo |-> {},
         delete |-> FALSE]
NoBackups == [p \in Paths |-> Unsaved]

TxTypeOK ==
    /\ disk \in [Paths -> Files]
    /\ meta \in [Txns -> Metadata]
    /\ op \in Op
    /\ first \in [Txns -> Backups]
    /\ spoiled \in [Txns -> SUBSET Paths]

TxInit ==
    /\ disk \in [Paths -> Contents \cup {Absent}]
    /\ meta = [t \in Txns |-> NoMeta]
    /\ op = Idle
    /\ first = [t \in Txns |-> NoBackups]
    /\ spoiled = [t \in Txns |-> {}]

-----------------------------------------------------------------------------

Read(f) == IF f \in Contents THEN Decoded[f] ELSE f
Saved(tx) == {p \in Paths : tx.backups[p] # Unsaved}
Start(step, t, tx, todo, delete) ==
    op' = [step |-> step, txn |-> t, tx |-> tx, path |-> None, todo |-> todo, delete |-> delete]

\* begin.  Ids are fresh: the histories start over with the id.
Begin(t) ==
    /\ op = Idle /\ meta[t] = NoMeta
    /\ Start("save", t, [kind |-> "whole", status |-> "open", backups |-> NoBackups], {}, FALSE)
    /\ first' = [first EXCEPT ![t] = NoBackups]
    /\ spoiled' = [spoiled EXCEPT ![t] = {}]
    /\ UNCHANGED <<disk, meta>>

\* apply: the metadata must be there, whole and open.
Apply(t) ==
    /\ op = Idle /\ meta[t].kind = "whole" /\ meta[t].status = "open"
    /\ Start("apply", t, meta[t], {}, FALSE)
    /\ UNCHANGED <<disk, meta, first, spoiled>>

\* Broken variant: every write takes a backup.
BackUpAgain(p) ==
    /\ op.step \in {"apply", "applied"}
    /\ op' = [op EXCEPT !.step = "write", !.path = p, !.tx.backups[p] = Read(disk[p])]
    /\ first' = [first EXCEPT ![op.txn][p] = IF @ = Unsaved THEN disk[p] ELSE @]
    /\ disk' = [disk EXCEPT ![p] = Torn]
    /\ UNCHANGED <<meta, spoiled>>

\* The next change of the batch: a backup in memory, unless there is one, then
\* the file is opened for writing.
BackUp(p) ==
    /\ op.step \in {"apply", "applied"}
    /\ op' = [op EXCEPT !.step = "write", !.path = p,
                        !.tx.backups[p] = IF @ = Unsaved THEN Read(disk[p]) ELSE @]
    /\ first' = [first EXCEPT ![op.txn][p] = IF @ = Unsaved THEN disk[p] ELSE @]
    /\ disk' = [disk EXCEPT ![p] = Torn]
    /\ UNCHANGED <<meta, spoiled>>

Write ==
    /\ op.step = "write"
    /\ \E c \in Contents : disk' = [disk EXCEPT ![op.path] = c]
    /\ op' = [op EXCEPT !.step = "applied", !.path = None]
    /\ UNCHANGED <<meta, first, spoiled>>

\* The batch is done: the backups are saved, all at once.
Applied ==
    /\ op.step = "applied"
    /\ op' = [op EXCEPT !.step = "save"]
    /\ UNCHANGED <<disk, meta, first, spoiled>>

\* rollback, whatever the status.
Rollback(t) ==
    /\ op = Idle /\ meta[t].kind = "whole"
    /\ Start("rollback", t, meta[t], Saved(meta[t]), FALSE)
    /\ UNCHANGED <<disk, meta, first, spoiled>>

\* Broken variant: a file the transaction created stays.
RestoreKeepsNew(p) ==
    /\ op.step = "rollback" /\ p \in op.todo
    /\ IF op.tx.backups[p] = Absent
       THEN /\ op' = [op EXCEPT !.todo = @ \ {p}]
            /\ UNCHANGED disk
       ELSE /\ op' = [op EXCEPT !.todo = @ \ {p}, !.step = "restore", !.path = p]
            /\ disk' = [disk EXCEPT ![p] = Torn]
    /\ UNCHANGED <<meta, first, spoiled>>

\* A file that was not there is removed, another one is written again.
Restore(p) ==
    /\ op.step = "rollback" /\ p \in op.todo
    /\ IF op.tx.backups[p] = Absent
       THEN /\ op' = [op EXCEPT !.todo = @ \ {p}]
            /\ disk' = [disk EXCEPT ![p] = Absent]
       ELSE /\ op' = [op EXCEPT !.todo = @ \ {p}, !.step = "restore", !.path = p]
            /\ disk' = [disk EXCEPT ![p] = Torn]
    /\ UNCHANGED <<meta, first, spoiled>>

Restored ==
    /\ op.step = "restore"
    /\ disk' = [disk EXCEPT ![op.path] = op.tx.backups[op.path]]
    /\ op' = [op EXCEPT !.step = "rollback", !.path = None]
    /\ UNCHANGED <<meta, first, spoiled>>

RolledBack ==
    /\ op.step = "rollback" /\ op.todo = {}
    /\ op' = [op EXCEPT !.step = "save", !.tx.status = "rolled_back"]
    /\ UNCHANGED <<disk, meta, first, spoiled>>

\* commit, whatever the status; the metadata may be deleted after the save.
Commit(t, delete) ==
    /\ op = Idle /\ meta[t].kind = "whole"
    /\ Start("save", t, [meta[t] EXCEPT !.status = "committed"], {}, delete)
    /\ UNCHANGED <<disk, meta, first, spoiled>>

\* _tx_save: the metadata file is truncated, then filled.
SaveOpen ==
    /\ op.step = "save"
    /\ meta' = [meta EXCEPT ![op.txn] = TornMeta]
    /\ op' = [op EXCEPT !.step = "saving"]
    /\ UNCHANGED <<disk, first, spoiled>>

SaveFill ==
    /\ op.step = "saving"
    /\ meta' = [meta EXCEPT ![op.txn] = op.tx]
    /\ op' = IF op.delete THEN [op EXCEPT !.step = "unlink"] ELSE Idle
    /\ UNCHANGED <<disk, first, spoiled>>

Unlink ==
    /\ op.step = "unlink"
    /\ meta' = [meta EXCEPT ![op.txn] = NoMeta]
    /\ op' = Idle
    /\ UNCHANGED <<disk, first, spoiled>>

\* The operation is cut short by an exception or by the death of the server.
\* What an apply wrote without a backup on disk has none from now on.
Breaks ==
    /\ op # Idle
    /\ op' = Idle
    /\ spoiled' = IF meta[op.txn].kind = "whole" /\ op.tx.kind = "whole"
                  THEN [spoiled EXCEPT ![op.txn] = @ \cup (Saved(op.tx) \ Saved(meta[op.txn]))]
                  ELSE spoiled
    /\ UNCHANGED <<disk, meta, first>>

\* Another tool, or the user, writes or deletes a file.
Edit(p) ==
    /\ op = Idle
    /\ \E f \in Contents \cup {Absent} : disk' = [disk EXCEPT ![p] = f]
    /\ UNCHANGED <<meta, op, first, spoiled>>

TxNext ==
    \/ \E t \in Txns : Begin(t) \/ Apply(t) \/ Rollback(t) \/ \E d \in BOOLEAN : Commit(t, d)
    \/ \E p \in Paths : BackUp(p) \/ Restore(p) \/ Edit(p)
    \/ Write \/ Applied \/ Restored \/ RolledBack \/ SaveOpen \/ SaveFill \/ Unlink \/ Breaks

TxSpec == TxInit /\ [][TxNext]_txVars

-----------------------------------------------------------------------------
\* Properties.

Written(t) == {p \in Paths : first[t][p] # Unsaved}

\* Of the paths that no apply that was cut short wrote, backups hold what was
\* there before the first write, as far as read_text can tell; they hold all.
Faithful(backups, t) ==
    \A p \in Paths \ spoiled[t] : backups[p] # Unsaved => backups[p] = Read(first[t][p])
Complete(backups, t) == \A p \in Written(t) \ spoiled[t] : backups[p] # Unsaved

\* The backups in the metadata are those from before the transaction, and none
\* is missing, no matter how often it was applied to, what other tools wrote in
\* between and which operations were cut short.
BackupIsOriginal ==
    \A t \in Txns : meta[t].kind = "whole" =>
        /\ Faithful(meta[t].backups, t)
        /\ op.txn # t => Complete(meta[t].backups, t)

\* A rollback that gets to its save has put back every path the transaction
\* wrote, but for those an apply that was cut short wrote: also when an earlier
\* rollback stopped in the middle, when other tools wrote the files in between
\* and when another transaction had them.
RollbackRestores ==
    op.step \in {"save", "saving"} /\ op.tx.status = "rolled_back" =>
        \A p \in Written(op.txn) \ spoiled[op.txn] : disk[p] = Read(first[op.txn][p])

\* "Transactional edits" (docstring of workspace_transaction): a rollback puts
\* back every path the transaction wrote.
RollbackUndoesAll ==
    op.step \in {"save", "saving"} /\ op.tx.status = "rolled_back" =>
        \A p \in Written(op.txn) : disk[p] = Read(first[op.txn][p])
-----------------------------------------------------------------------------
\* What makes the properties above inductive: the operation in progress has the
\* backups in memory, and a rollback has put back what is no longer to do.
InProgress ==
    op # Idle =>
        /\ op.txn \in Txns /\ op.step # "idle" /\ op.tx.kind = "whole"
        /\ Faithful(op.tx.backups, op.txn) /\ Complete(op.tx.backups, op.txn)
        /\ op.step \in {"apply", "write", "applied"} => op.tx.status = "open"
        /\ op.step = "write" => op.path \in Paths
        /\ op.step = "restore" => op.path \in Saved(op.tx)
        /\ op.step \in {"rollback", "restore"} => op.todo \subseteq Saved(op.tx)
        /\ op.step = "rollback" =>
             \A p \in Saved(op.tx) \ op.todo : disk[p] = op.tx.backups[p]
        /\ op.step = "restore" =>
             \A p \in Saved(op.tx) \ op.todo : p # op.path => disk[p] = op.tx.backups[p]
        /\ op.step \in {"save", "saving"} /\ op.tx.status = "rolled_back" =>
             \A p \in Saved(op.tx) : disk[p] = op.tx.backups[p]

TxIInv == TxTypeOK /\ BackupIsOriginal /\ InProgress
=============================================================================
