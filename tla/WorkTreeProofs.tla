-------------------------- MODULE WorkTreeProofs --------------------------
(***************************************************************************)
(* Theorems about the two components that write the repository's files:    *)
(* edit transactions, for any transactions, paths, contents and decoding of*)
(* contents, and state snapshots, for any files and versions.              *)
(***************************************************************************)
EXTENDS EditTransaction, WorkSnapshot, TLAPS

-----------------------------------------------------------------------------
(***************************************************************************)
(* Edit transactions.                                                      *)
(***************************************************************************)

WholeRecord == [kind : {"whole"}, status : {"open", "rolled_back", "committed"}, backups : Backups]

LEMMA WholeMetadata ==
  ASSUME NEW m \in Metadata, m.kind = "whole"
  PROVE  m \in WholeRecord
BY DEF Metadata, WholeRecord

LEMMA WholeIsMetadata == WholeRecord \subseteq Metadata
BY DEF Metadata, WholeRecord

LEMMA IdleFacts ==
  /\ Idle \in Op /\ Idle.step = "idle" /\ Idle.txn = None /\ Idle.txn \notin Txns
  /\ NoMeta \in Metadata /\ TornMeta \in Metadata /\ NoBackups \in Backups
  /\ NoMeta.kind = "none" /\ TornMeta.kind = "torn"
<1>1. NoMeta \in Metadata /\ TornMeta \in Metadata /\ NoMeta.kind = "none" /\ TornMeta.kind = "torn"
  BY DEF Metadata, NoMeta, TornMeta
<1>2. NoBackups \in Backups
  BY DEF NoBackups, Backups
<1> QED
  BY <1>1, <1>2, NoneAssumption DEF Idle, Op, Steps

\* A backup is never mistaken for the lack of one.
LEMMA ReadFacts ==
  ASSUME NEW f \in Files \cup {Unsaved}
  PROVE  /\ Read(f) \in Files \cup {Unsaved}
         /\ Read(f) = Unsaved <=> f = Unsaved
         /\ f # Unsaved => Read(f) \in Files
BY ContentsAssumption DEF Read, Files


LEMMA IdleOp ==
  ASSUME TxIInv, op = Idle
  PROVE  /\ \A t \in Txns : meta[t].kind = "whole" =>
              /\ meta[t] \in WholeRecord
              /\ Faithful(meta[t].backups, t) /\ Complete(meta[t].backups, t)
<1>1. TxTypeOK /\ BackupIsOriginal /\ \A t \in Txns : op.txn # t
  BY IdleFacts DEF TxIInv
<1>2. \A t \in Txns : meta[t] \in Metadata
  BY <1>1 DEF TxTypeOK
<1> QED
  BY <1>1, <1>2, WholeMetadata DEF BackupIsOriginal

LEMMA BusyOp ==
  ASSUME TxIInv, op.step # "idle"
  PROVE  /\ op # Idle /\ op.txn \in Txns /\ op.tx \in WholeRecord /\ op.todo \subseteq Paths
         /\ op \in Op /\ op.tx.backups \in Backups
         /\ Faithful(op.tx.backups, op.txn) /\ Complete(op.tx.backups, op.txn)
<1>1. op # Idle /\ TxTypeOK /\ InProgress
  BY IdleFacts DEF TxIInv
<1>2. op \in Op /\ op.tx \in Metadata /\ op.tx.kind = "whole" /\ op.todo \subseteq Paths
  BY <1>1 DEF TxTypeOK, InProgress, Op
<1>3. op.tx \in WholeRecord
  BY <1>2, WholeMetadata
<1>4. op.tx.backups \in Backups
  BY <1>3 DEF WholeRecord
<1> QED
  BY <1>1, <1>2, <1>3, <1>4 DEF InProgress

-----------------------------------------------------------------------------
(***************************************************************************)
(* One lemma per action.                                                   *)
(***************************************************************************)

LEMMA TxInitIInv == TxInit => TxIInv
<1> SUFFICES ASSUME TxInit PROVE TxIInv
  OBVIOUS
<1>1. TxTypeOK
  BY IdleFacts DEF TxInit, TxTypeOK, Files, Backups
<1>2. BackupIsOriginal
  BY IdleFacts DEF TxInit, BackupIsOriginal
<1> QED
  BY <1>1, <1>2 DEF TxInit, TxIInv, InProgress

LEMMA StartedOp ==
  ASSUME NEW step \in Steps, NEW t \in Txns, NEW tx \in WholeRecord, NEW todo \in SUBSET Paths,
         NEW delete \in BOOLEAN, Start(step, t, tx, todo, delete)
  PROVE  /\ op' \in Op /\ op'.step = step /\ op'.txn = t /\ op'.tx = tx /\ op'.todo = todo
         /\ tx.kind = "whole"
BY WholeIsMetadata DEF Start, Op, WholeRecord

\* apply, rollback and commit take what the metadata says into memory.
LEMMA StartStep ==
  ASSUME TxIInv, op = Idle, NEW step \in {"apply", "rollback", "save"}, NEW t \in Txns,
         NEW tx \in WholeRecord, NEW todo \in SUBSET Paths, NEW delete \in BOOLEAN,
         Start(step, t, tx, todo, delete), UNCHANGED <<disk, meta, first, spoiled>>,
         Faithful(tx.backups, t), Complete(tx.backups, t),
         step = "apply" => tx.status = "open",
         step = "rollback" => todo = Saved(tx),
         step = "save" => tx.status # "rolled_back"
  PROVE  TxIInv'
<1>1. /\ op' \in Op /\ op'.step = step /\ op'.txn = t /\ op'.tx = tx /\ op'.todo = todo
      /\ tx.kind = "whole"
  BY StartedOp DEF Steps
<1>2. TxTypeOK'
  BY <1>1 DEF TxIInv, TxTypeOK
<1>3. BackupIsOriginal'
  <2>1. \A u \in Txns : meta[u].kind = "whole" =>
          Faithful(meta[u].backups, u) /\ Complete(meta[u].backups, u)
    BY IdleOp
  <2> QED
    BY <2>1 DEF BackupIsOriginal, Faithful, Complete, Written
<1>4. InProgress'
  BY <1>1 DEF InProgress, Faithful, Complete, Written, Saved
<1> QED
  BY <1>2, <1>3, <1>4 DEF TxIInv

LEMMA ApplyStep ==
  ASSUME TxIInv, NEW t \in Txns, Apply(t)
  PROVE  TxIInv'
<1>1. op = Idle /\ meta[t].kind = "whole" /\ meta[t].status = "open"
      /\ Start("apply", t, meta[t], {}, FALSE) /\ UNCHANGED <<disk, meta, first, spoiled>>
  BY DEF Apply
<1>2. meta[t] \in WholeRecord /\ Faithful(meta[t].backups, t) /\ Complete(meta[t].backups, t)
  BY <1>1, IdleOp
<1> QED
  BY <1>1, <1>2, StartStep

LEMMA RollbackStep ==
  ASSUME TxIInv, NEW t \in Txns, Rollback(t)
  PROVE  TxIInv'
<1>1. op = Idle /\ meta[t].kind = "whole"
      /\ Start("rollback", t, meta[t], Saved(meta[t]), FALSE)
      /\ UNCHANGED <<disk, meta, first, spoiled>>
  BY DEF Rollback
<1>2. meta[t] \in WholeRecord /\ Faithful(meta[t].backups, t) /\ Complete(meta[t].backups, t)
  BY <1>1, IdleOp
<1>3. Saved(meta[t]) \in SUBSET Paths
  BY DEF Saved
<1> QED
  BY <1>1, <1>2, <1>3, StartStep

LEMMA CommitStep ==
  ASSUME TxIInv, NEW t \in Txns, NEW delete \in BOOLEAN, Commit(t, delete)
  PROVE  TxIInv'
<1> DEFINE tx == [meta[t] EXCEPT !.status = "committed"]
<1>1. op = Idle /\ meta[t].kind = "whole" /\ Start("save", t, tx, {}, delete)
      /\ UNCHANGED <<disk, meta, first, spoiled>>
  BY DEF Commit
<1>2. meta[t] \in WholeRecord /\ Faithful(meta[t].backups, t) /\ Complete(meta[t].backups, t)
  BY <1>1, IdleOp
<1>3. tx \in WholeRecord /\ tx.backups = meta[t].backups /\ tx.status = "committed"
  BY <1>2 DEF WholeRecord
<1> HIDE DEF tx
<1> QED
  BY <1>1, <1>2, <1>3, StartStep

LEMMA BeginStep ==
  ASSUME TxIInv, NEW t \in Txns, Begin(t)
  PROVE  TxIInv'
<1> DEFINE tx == [kind |-> "whole", status |-> "open", backups |-> NoBackups]
<1>1. /\ op = Idle /\ meta[t] = NoMeta /\ Start("save", t, tx, {}, FALSE)
      /\ first' = [first EXCEPT ![t] = NoBackups]
      /\ spoiled' = [spoiled EXCEPT ![t] = {}]
      /\ UNCHANGED <<disk, meta>>
  BY DEF Begin
<1>2. tx \in WholeRecord /\ tx.backups = NoBackups /\ tx.status = "open"
  BY IdleFacts DEF WholeRecord
<1> HIDE DEF tx
<1>3. /\ op' \in Op /\ op'.step = "save" /\ op'.txn = t /\ op'.tx = tx /\ op'.todo = {}
      /\ tx.kind = "whole"
  BY <1>1, <1>2, StartedOp DEF Steps
<1>4. /\ first \in [Txns -> Backups] /\ spoiled \in [Txns -> SUBSET Paths]
      /\ first'[t] = NoBackups /\ spoiled'[t] = {}
      /\ \A u \in Txns : u # t => first'[u] = first[u] /\ spoiled'[u] = spoiled[u]
  BY <1>1 DEF TxIInv, TxTypeOK
<1>5. TxTypeOK'
  BY <1>1, <1>3, IdleFacts DEF TxIInv, TxTypeOK
<1>6. BackupIsOriginal'
  <2>1. \A u \in Txns : meta[u].kind = "whole" =>
          u # t /\ Faithful(meta[u].backups, u) /\ Complete(meta[u].backups, u)
    BY <1>1, IdleOp, IdleFacts
  <2> QED
    BY <1>1, <1>4, <2>1 DEF BackupIsOriginal, Faithful, Complete, Written
<1>7. InProgress'
  BY <1>2, <1>3, <1>4 DEF InProgress, Faithful, Complete, Written, NoBackups
<1> QED
  BY <1>5, <1>6, <1>7 DEF TxIInv

\* Steps that touch the files only, and steps of op that keep its transaction.
LEMMA MovesOn ==
  ASSUME TxIInv, op.step # "idle", op' \in Op, op'.step # "idle", op'.txn = op.txn, op'.tx = op.tx,
         disk' \in [Paths -> Files], UNCHANGED <<meta, first, spoiled>>,
         op'.step \in {"apply", "write", "applied"} => op.tx.status = "open",
         op'.step = "write" => op'.path \in Paths,
         op'.step = "restore" => op'.path \in Saved(op.tx),
         op'.step \in {"rollback", "restore"} => op'.todo \subseteq Saved(op.tx),
         op'.step = "rollback" =>
           \A p \in Saved(op.tx) \ op'.todo : disk'[p] = op.tx.backups[p],
         op'.step = "restore" =>
           \A p \in Saved(op.tx) \ op'.todo : p # op'.path => disk'[p] = op.tx.backups[p],
         op'.step \in {"save", "saving"} /\ op.tx.status = "rolled_back" =>
           \A p \in Saved(op.tx) : disk'[p] = op.tx.backups[p]
  PROVE  TxIInv'
<1>1. /\ op \in Op /\ op.txn \in Txns /\ op.tx \in WholeRecord /\ TxTypeOK /\ BackupIsOriginal
      /\ Faithful(op.tx.backups, op.txn) /\ Complete(op.tx.backups, op.txn)
  BY BusyOp DEF TxIInv
<1>2. TxTypeOK'
  BY <1>1 DEF TxTypeOK
<1>3. BackupIsOriginal'
  BY <1>1 DEF BackupIsOriginal, Faithful, Complete, Written
<1>4. InProgress'
  <2>1. op.tx.kind = "whole"
    BY <1>1 DEF WholeRecord
  <2> QED
    BY <1>1, <2>1 DEF InProgress, Faithful, Complete, Written, Saved
<1> QED
  BY <1>2, <1>3, <1>4 DEF TxIInv

\* A backup taken from the file before the transaction's first write to it.
LEMMA BackUpStep ==
  ASSUME TxIInv, NEW p \in Paths, BackUp(p)
  PROVE  TxIInv'
<1> DEFINE t == op.txn
           b == [op.tx.backups EXCEPT ![p] = IF @ = Unsaved THEN Read(disk[p]) ELSE @]
           tx == [op.tx EXCEPT !.backups = b]
<1>1. /\ op.step \in {"apply", "applied"} /\ UNCHANGED <<meta, spoiled>>
      /\ op' = [op EXCEPT !.step = "write", !.path = p,
                          !.tx.backups[p] = IF @ = Unsaved THEN Read(disk[p]) ELSE @]
      /\ first' = [first EXCEPT ![op.txn][p] = IF @ = Unsaved THEN disk[p] ELSE @]
      /\ disk' = [disk EXCEPT ![p] = Torn]
  BY DEF BackUp
<1>2. /\ op # Idle /\ op \in Op /\ t \in Txns /\ op.tx \in WholeRecord /\ op.tx.backups \in Backups
      /\ TxTypeOK /\ BackupIsOriginal /\ op.tx.status = "open"
      /\ Faithful(op.tx.backups, t) /\ Complete(op.tx.backups, t)
  <2>1. op.step # "idle"
    BY <1>1
  <2>2. InProgress /\ TxTypeOK /\ BackupIsOriginal
    BY DEF TxIInv
  <2> QED
    BY <1>1, <2>1, <2>2, BusyOp DEF InProgress
<1>3. /\ disk[p] \in Files /\ Read(disk[p]) \in Files /\ disk[p] # Unsaved /\ Read(disk[p]) # Unsaved
      /\ Torn \in Files
  BY <1>2, ReadFacts, ContentsAssumption DEF TxTypeOK, Files
<1>4. b \in Backups /\ \A q \in Paths : q # p => b[q] = op.tx.backups[q]
  BY <1>2, <1>3 DEF Backups
<1>5. b[p] = IF op.tx.backups[p] = Unsaved THEN Read(disk[p]) ELSE op.tx.backups[p]
  BY <1>2 DEF Backups
<1> HIDE DEF b
<1>6. tx \in WholeRecord /\ tx.backups = b /\ tx.status = "open" /\ tx.kind = "whole"
  BY <1>2, <1>4 DEF WholeRecord
<1>7. op' = [op EXCEPT !.step = "write", !.path = p, !.tx = tx]
  BY <1>1, <1>2 DEF Op, WholeRecord, tx, b
<1> HIDE DEF tx
<1>8. /\ op' \in Op /\ op'.step = "write" /\ op'.path = p /\ op'.txn = t /\ op'.tx = tx
      /\ op'.todo = op.todo
  BY <1>2, <1>6, <1>7, WholeIsMetadata DEF Op, Steps
<1>9. /\ first' \in [Txns -> Backups]
      /\ first'[t][p] = IF first[t][p] = Unsaved THEN disk[p] ELSE first[t][p]
      /\ \A u \in Txns, q \in Paths : u # t \/ q # p => first'[u][q] = first[u][q]
  BY <1>1, <1>2, <1>3 DEF TxTypeOK, Backups
<1>10. \A u \in Txns : first[u][p] \in Files \cup {Unsaved}
  BY <1>2 DEF TxTypeOK, Backups
<1>11. TxTypeOK'
  BY <1>1, <1>2, <1>3, <1>8, <1>9 DEF TxTypeOK
<1>12. BackupIsOriginal'
  <2> SUFFICES ASSUME NEW u \in Txns, meta[u].kind = "whole"
               PROVE  /\ Faithful(meta[u].backups, u)'
                      /\ u # t => Complete(meta[u].backups, u)'
    BY <1>1, <1>8 DEF BackupIsOriginal
  <2>1. Faithful(meta[u].backups, u) /\ (u # t => Complete(meta[u].backups, u))
    BY <1>2 DEF BackupIsOriginal
  <2>2. \A q \in Paths \ spoiled[u] :
          meta[u].backups[q] # Unsaved => first'[u][q] = first[u][q]
    <3> TAKE q \in Paths \ spoiled[u]
    <3>1. CASE u = t /\ q = p
      BY <1>9, <1>10, <2>1, <3>1, ReadFacts DEF Faithful
    <3>2. CASE ~(u = t /\ q = p)
      BY <1>9, <3>2
    <3> QED
      BY <3>1, <3>2
  <2>3. Faithful(meta[u].backups, u)'
    BY <1>1, <2>1, <2>2 DEF Faithful
  <2>4. u # t => Complete(meta[u].backups, u)'
    BY <1>1, <1>9, <2>1 DEF Complete, Written
  <2> QED
    BY <2>3, <2>4
<1>13. \A q \in Paths \ spoiled'[t] :
         /\ b[q] # Unsaved => b[q] = Read(first'[t][q])
         /\ first'[t][q] # Unsaved => b[q] # Unsaved
  <2>1. ASSUME NEW q \in Paths \ spoiled[t], q # p
        PROVE  /\ b[q] # Unsaved => b[q] = Read(first'[t][q])
               /\ first'[t][q] # Unsaved => b[q] # Unsaved
    BY <1>2, <1>4, <1>9, <2>1 DEF Faithful, Complete, Written
  <2>2. ASSUME p \notin spoiled[t]
        PROVE  b[p] # Unsaved /\ b[p] = Read(first'[t][p])
    <3>1. CASE op.tx.backups[p] = Unsaved
      <4>1. first[t][p] = Unsaved
        BY <1>2, <2>2, <3>1 DEF Complete, Written
      <4> QED
        BY <1>3, <1>5, <1>9, <3>1, <4>1
    <3>2. CASE op.tx.backups[p] # Unsaved
      <4>1. op.tx.backups[p] = Read(first[t][p])
        BY <1>2, <2>2, <3>2 DEF Faithful
      <4>2. first[t][p] # Unsaved
        BY <1>2, <1>10, <3>2, <4>1, ReadFacts
      <4> QED
        BY <1>5, <1>9, <3>2, <4>1, <4>2
    <3> QED
      BY <3>1, <3>2
  <2>3. \A q \in Paths \ spoiled[t] :
          /\ b[q] # Unsaved => b[q] = Read(first'[t][q])
          /\ first'[t][q] # Unsaved => b[q] # Unsaved
    BY <2>1, <2>2
  <2>4. Paths \ spoiled'[t] = Paths \ spoiled[t]
    BY <1>1
  <2> QED
    BY <2>3, <2>4
<1>14. InProgress'
  <2>1. op'.tx.backups = b /\ op'.txn = t /\ op'.tx.kind = "whole" /\ op'.tx.status = "open"
    BY <1>6, <1>8
  <2>2. (Faithful(op.tx.backups, op.txn) /\ Complete(op.tx.backups, op.txn))'
    <3>1. \A q \in Paths \ spoiled'[op'.txn] :
            /\ op'.tx.backups[q] # Unsaved => op'.tx.backups[q] = Read(first'[op'.txn][q])
            /\ first'[op'.txn][q] # Unsaved => op'.tx.backups[q] # Unsaved
      BY <1>13, <2>1
    <3>2. Faithful(op.tx.backups, op.txn)'
      BY <3>1 DEF Faithful, Read
    <3>3. Complete(op.tx.backups, op.txn)'
      BY <3>1 DEF Complete, Written
    <3> QED
      BY <3>2, <3>3
  <2> QED
    BY <1>2, <1>8, <2>1, <2>2 DEF InProgress
<1> QED
  BY <1>11, <1>12, <1>14 DEF TxIInv

LEMMA WriteStep ==
  ASSUME TxIInv, Write
  PROVE  TxIInv'
<1>1. op.step = "write" /\ op' = [op EXCEPT !.step = "applied", !.path = None]
      /\ UNCHANGED <<meta, first, spoiled>>
  BY DEF Write
<1>2. PICK c \in Contents : disk' = [disk EXCEPT ![op.path] = c]
  BY DEF Write
<1>3. op \in Op /\ op.todo \subseteq Paths /\ op.tx.status = "open"
  BY <1>1, BusyOp DEF TxIInv, InProgress
<1>4. disk' \in [Paths -> Files]
  BY <1>2 DEF TxIInv, TxTypeOK, Files
<1>5. op' \in Op /\ op'.step = "applied" /\ op'.txn = op.txn /\ op'.tx = op.tx
  BY <1>1, <1>3 DEF Op, Steps
<1> QED
  BY <1>1, <1>3, <1>4, <1>5, MovesOn

LEMMA AppliedStep ==
  ASSUME TxIInv, Applied
  PROVE  TxIInv'
<1>1. op.step = "applied" /\ op' = [op EXCEPT !.step = "save"]
      /\ UNCHANGED <<disk, meta, first, spoiled>>
  BY DEF Applied
<1>2. op \in Op /\ op.todo \subseteq Paths /\ op.tx.status = "open"
  BY <1>1, BusyOp DEF TxIInv, InProgress
<1>3. disk \in [Paths -> Files]
  BY DEF TxIInv, TxTypeOK
<1>4. op' \in Op /\ op'.step = "save" /\ op'.txn = op.txn /\ op'.tx = op.tx
  BY <1>1, <1>2 DEF Op, Steps
<1> QED
  BY <1>1, <1>2, <1>3, <1>4, MovesOn

LEMMA RestoreStep ==
  ASSUME TxIInv, NEW p \in Paths, Restore(p)
  PROVE  TxIInv'
<1>1. op.step = "rollback" /\ p \in op.todo /\ UNCHANGED <<meta, first, spoiled>>
  BY DEF Restore
<1>2. /\ op \in Op /\ op.todo \ {p} \in SUBSET Paths /\ disk \in [Paths -> Files]
      /\ \A q \in Saved(op.tx) \ op.todo : disk[q] = op.tx.backups[q]
      /\ op.path \in Paths \cup {None} /\ Torn \in Files /\ Absent \in Files
      /\ Saved(op.tx) \subseteq Paths /\ op.todo \subseteq Saved(op.tx)
  BY <1>1, BusyOp DEF TxIInv, TxTypeOK, InProgress, Op, Files, Saved
<1>3. CASE op.tx.backups[p] = Absent
  <2>1. op' = [op EXCEPT !.todo = @ \ {p}] /\ disk' = [disk EXCEPT ![p] = Absent]
    BY <1>3 DEF Restore
  <2>2. /\ op' \in Op /\ op'.step = "rollback" /\ op'.txn = op.txn /\ op'.tx = op.tx
        /\ op'.todo = op.todo \ {p}
    BY <1>1, <1>2, <2>1 DEF Op, Steps
  <2>3. disk' \in [Paths -> Files]
    BY <1>2, <2>1
  <2>4. \A q \in Saved(op.tx) \ (op.todo \ {p}) : disk'[q] = op.tx.backups[q]
    BY <1>2, <1>3, <2>1
  <2> QED
    BY <1>1, <1>2, <2>2, <2>3, <2>4, MovesOn
<1>4. CASE op.tx.backups[p] # Absent
  <2>1. /\ op' = [op EXCEPT !.todo = @ \ {p}, !.step = "restore", !.path = p]
        /\ disk' = [disk EXCEPT ![p] = Torn]
    BY <1>4 DEF Restore
  <2>2. /\ op' \in Op /\ op'.step = "restore" /\ op'.txn = op.txn /\ op'.tx = op.tx
        /\ op'.todo = op.todo \ {p} /\ op'.path = p
    BY <1>1, <1>2, <2>1 DEF Op, Steps
  <2>3. disk' \in [Paths -> Files]
    BY <1>2, <2>1
  <2>4. \A q \in Saved(op.tx) \ (op.todo \ {p}) : q # p => disk'[q] = op.tx.backups[q]
    BY <1>2, <2>1
  <2> QED
    BY <1>1, <1>2, <2>2, <2>3, <2>4, MovesOn
<1> QED
  BY <1>3, <1>4

LEMMA RestoredStep ==
  ASSUME TxIInv, Restored
  PROVE  TxIInv'
<1>1. /\ op.step = "restore" /\ op' = [op EXCEPT !.step = "rollback", !.path = None]
      /\ disk' = [disk EXCEPT ![op.path] = op.tx.backups[op.path]]
      /\ UNCHANGED <<meta, first, spoiled>>
  BY DEF Restored
<1>2. /\ op \in Op /\ op.todo \subseteq Saved(op.tx) /\ disk \in [Paths -> Files]
      /\ op.path \in Saved(op.tx)
      /\ \A q \in Saved(op.tx) \ op.todo : q # op.path => disk[q] = op.tx.backups[q]
      /\ op.tx.backups \in Backups /\ Saved(op.tx) \subseteq Paths
  BY <1>1, BusyOp DEF TxIInv, TxTypeOK, InProgress, Saved
<1>3. /\ op' \in Op /\ op'.step = "rollback" /\ op'.txn = op.txn /\ op'.tx = op.tx
      /\ op'.todo = op.todo
  BY <1>1, <1>2 DEF Op, Steps
<1>4. \A q \in Saved(op.tx) \ op.todo : disk'[q] = op.tx.backups[q]
  BY <1>1, <1>2
<1>5. disk' \in [Paths -> Files]
  <2>1. op.path \in Paths /\ op.tx.backups[op.path] \in Files
    BY <1>2 DEF Saved, Backups
  <2> QED
    BY <1>1, <1>2, <2>1
<1> QED
  BY <1>1, <1>2, <1>3, <1>4, <1>5, MovesOn

LEMMA RolledBackStep ==
  ASSUME TxIInv, RolledBack
  PROVE  TxIInv'
<1> DEFINE tx == [op.tx EXCEPT !.status = "rolled_back"]
<1>1. /\ op.step = "rollback" /\ op.todo = {}
      /\ op' = [op EXCEPT !.step = "save", !.tx.status = "rolled_back"]
      /\ UNCHANGED <<disk, meta, first, spoiled>>
  BY DEF RolledBack
<1>2. /\ op \in Op /\ op.txn \in Txns /\ op.tx \in WholeRecord /\ TxTypeOK /\ BackupIsOriginal
      /\ Faithful(op.tx.backups, op.txn) /\ Complete(op.tx.backups, op.txn)
      /\ \A p \in Saved(op.tx) : disk[p] = op.tx.backups[p]
  BY <1>1, BusyOp DEF TxIInv, InProgress
<1>3. tx \in WholeRecord /\ tx.backups = op.tx.backups /\ tx.kind = "whole"
  BY <1>2 DEF WholeRecord
<1>4. op' = [op EXCEPT !.step = "save", !.tx = tx]
  BY <1>1, <1>2 DEF Op, WholeRecord
<1> HIDE DEF tx
<1>5. op' \in Op /\ op'.step = "save" /\ op'.txn = op.txn /\ op'.tx = tx
  BY <1>2, <1>3, <1>4, WholeIsMetadata DEF Op, Steps
<1>6. TxTypeOK'
  BY <1>1, <1>2, <1>5 DEF TxTypeOK
<1>7. BackupIsOriginal'
  BY <1>1, <1>2, <1>5 DEF BackupIsOriginal, Faithful, Complete, Written
<1>8. InProgress'
  BY <1>1, <1>2, <1>3, <1>5 DEF InProgress, Faithful, Complete, Written, Saved
<1> QED
  BY <1>6, <1>7, <1>8 DEF TxIInv

\* While the metadata is torn, the backups are in memory only.
LEMMA SaveOpenStep ==
  ASSUME TxIInv, SaveOpen
  PROVE  TxIInv'
<1>1. /\ op.step = "save" /\ op' = [op EXCEPT !.step = "saving"]
      /\ meta' = [meta EXCEPT ![op.txn] = TornMeta]
      /\ UNCHANGED <<disk, first, spoiled>>
  BY DEF SaveOpen
<1>2. /\ op # Idle /\ op \in Op /\ op.txn \in Txns /\ op.tx.kind = "whole" /\ TxTypeOK
      /\ BackupIsOriginal /\ InProgress
      /\ Faithful(op.tx.backups, op.txn) /\ Complete(op.tx.backups, op.txn)
  BY <1>1, BusyOp DEF TxIInv, InProgress
<1>3. op' \in Op /\ op'.step = "saving" /\ op'.txn = op.txn /\ op'.tx = op.tx
  BY <1>1, <1>2 DEF Op, Steps
<1>4. /\ meta' \in [Txns -> Metadata] /\ meta'[op.txn].kind = "torn"
      /\ \A t \in Txns : t # op.txn => meta'[t] = meta[t]
  BY <1>1, <1>2, IdleFacts DEF TxTypeOK
<1>5. TxTypeOK'
  BY <1>1, <1>2, <1>3, <1>4 DEF TxTypeOK
<1>6. BackupIsOriginal'
  BY <1>1, <1>2, <1>3, <1>4 DEF BackupIsOriginal, Faithful, Complete, Written
<1>7. InProgress'
  BY <1>1, <1>2, <1>3 DEF InProgress, Faithful, Complete, Written, Saved
<1> QED
  BY <1>5, <1>6, <1>7 DEF TxIInv

LEMMA SaveFillStep ==
  ASSUME TxIInv, SaveFill
  PROVE  TxIInv'
<1>1. /\ op.step = "saving" /\ meta' = [meta EXCEPT ![op.txn] = op.tx]
      /\ op' = IF op.delete THEN [op EXCEPT !.step = "unlink"] ELSE Idle
      /\ UNCHANGED <<disk, first, spoiled>>
  BY DEF SaveFill
<1>2. /\ op \in Op /\ op.txn \in Txns /\ op.tx \in WholeRecord /\ TxTypeOK /\ BackupIsOriginal
      /\ Faithful(op.tx.backups, op.txn) /\ Complete(op.tx.backups, op.txn)
  BY <1>1, BusyOp DEF TxIInv
<1>3. /\ meta' \in [Txns -> Metadata] /\ meta'[op.txn] = op.tx
      /\ \A t \in Txns : t # op.txn => meta'[t] = meta[t]
  BY <1>1, <1>2, WholeIsMetadata DEF TxTypeOK
<1>4. \/ op' = Idle
      \/ op' \in Op /\ op'.step = "unlink" /\ op'.txn = op.txn /\ op'.tx = op.tx
  BY <1>1, <1>2 DEF Op, Steps
<1>5. TxTypeOK'
  BY <1>1, <1>2, <1>3, <1>4, IdleFacts DEF TxTypeOK
<1>6. BackupIsOriginal'
  <2> SUFFICES ASSUME NEW t \in Txns, meta'[t].kind = "whole"
               PROVE  Faithful(meta[t].backups, t)' /\ Complete(meta[t].backups, t)'
    BY DEF BackupIsOriginal
  <2>1. Faithful(meta'[t].backups, t) /\ Complete(meta'[t].backups, t)
    BY <1>2, <1>3 DEF BackupIsOriginal
  <2> QED
    BY <1>1, <2>1 DEF Faithful, Complete, Written
<1>7. InProgress'
  <2>1. CASE op' = Idle
    BY <2>1 DEF InProgress
  <2>2. CASE op' # Idle
    <3>1. op'.step = "unlink" /\ op'.txn = op.txn /\ op'.tx = op.tx /\ op.tx.kind = "whole"
      BY <1>2, <1>4, <2>2 DEF WholeRecord
    <3> QED
      BY <1>1, <1>2, <3>1 DEF InProgress, Faithful, Complete, Written
  <2> QED
    BY <2>1, <2>2
<1> QED
  BY <1>5, <1>6, <1>7 DEF TxIInv

LEMMA UnlinkStep ==
  ASSUME TxIInv, Unlink
  PROVE  TxIInv'
<1>1. /\ op.step = "unlink" /\ meta' = [meta EXCEPT ![op.txn] = NoMeta] /\ op' = Idle
      /\ UNCHANGED <<disk, first, spoiled>>
  BY DEF Unlink
<1>2. op.txn \in Txns /\ TxTypeOK /\ BackupIsOriginal
  BY <1>1, BusyOp DEF TxIInv
<1>3. /\ meta' \in [Txns -> Metadata] /\ meta'[op.txn].kind = "none"
      /\ \A t \in Txns : t # op.txn => meta'[t] = meta[t]
  BY <1>1, <1>2, IdleFacts DEF TxTypeOK
<1>4. TxTypeOK'
  BY <1>1, <1>2, <1>3, IdleFacts DEF TxTypeOK
<1>5. BackupIsOriginal'
  BY <1>1, <1>2, <1>3 DEF BackupIsOriginal, Faithful, Complete, Written
<1> QED
  BY <1>1, <1>4, <1>5 DEF TxIInv, InProgress

\* What is left of an operation that was cut short is what the metadata says,
\* and spoiled are the paths it backed up in memory only.
LEMMA BreaksStep ==
  ASSUME TxIInv, Breaks
  PROVE  TxIInv'
<1>1. /\ op # Idle /\ op' = Idle /\ UNCHANGED <<disk, meta, first>>
      /\ spoiled' = IF meta[op.txn].kind = "whole" /\ op.tx.kind = "whole"
                    THEN [spoiled EXCEPT ![op.txn] = @ \cup (Saved(op.tx) \ Saved(meta[op.txn]))]
                    ELSE spoiled
  BY DEF Breaks
<1>2. /\ op.txn \in Txns /\ op.tx.kind = "whole" /\ TxTypeOK /\ BackupIsOriginal
      /\ Complete(op.tx.backups, op.txn)
  BY <1>1 DEF TxIInv, InProgress
<1>3. /\ spoiled' \in [Txns -> SUBSET Paths]
      /\ \A t \in Txns : spoiled[t] \subseteq spoiled'[t]
      /\ meta[op.txn].kind = "whole" =>
           Saved(op.tx) \ Saved(meta[op.txn]) \subseteq spoiled'[op.txn]
  BY <1>1, <1>2 DEF TxTypeOK, Saved
<1>4. TxTypeOK'
  BY <1>1, <1>2, <1>3, IdleFacts DEF TxTypeOK
<1>5. BackupIsOriginal'
  <2> SUFFICES ASSUME NEW t \in Txns, meta[t].kind = "whole"
               PROVE  /\ \A p \in Paths \ spoiled'[t] :
                           meta[t].backups[p] # Unsaved => meta[t].backups[p] = Read(first[t][p])
                      /\ \A p \in Written(t) \ spoiled'[t] : meta[t].backups[p] # Unsaved
    BY <1>1 DEF BackupIsOriginal, Faithful, Complete, Written
  <2>1. Faithful(meta[t].backups, t) /\ (t # op.txn => Complete(meta[t].backups, t))
    BY <1>2 DEF BackupIsOriginal
  <2>2. \A p \in Paths \ spoiled'[t] :
          meta[t].backups[p] # Unsaved => meta[t].backups[p] = Read(first[t][p])
    BY <1>3, <2>1 DEF Faithful
  <2>3. \A p \in Written(t) \ spoiled'[t] : meta[t].backups[p] # Unsaved
    <3>1. CASE t # op.txn
      BY <1>3, <2>1, <3>1 DEF Complete
    <3>2. CASE t = op.txn
      <4> TAKE p \in Written(t) \ spoiled'[t]
      <4>1. p \in Paths /\ p \notin spoiled[t] /\ p \in Saved(op.tx)
        BY <1>2, <1>3, <3>2 DEF Complete, Written, Saved
      <4>2. p \in Saved(meta[t])
        BY <1>3, <3>2, <4>1
      <4> QED
        BY <4>2 DEF Saved
    <3> QED
      BY <3>1, <3>2
  <2> QED
    BY <2>2, <2>3
<1> QED
  BY <1>1, <1>4, <1>5 DEF TxIInv, InProgress

\* Other tools and the user write between operations: only disk changes.
LEMMA EditStep ==
  ASSUME TxIInv, NEW p \in Paths, Edit(p)
  PROVE  TxIInv'
<1>1. /\ op = Idle /\ UNCHANGED <<meta, op, first, spoiled>>
      /\ \E f \in Contents \cup {Absent} : disk' = [disk EXCEPT ![p] = f]
  BY DEF Edit
<1>2. TxTypeOK'
  BY <1>1 DEF TxIInv, TxTypeOK, Files
<1>3. BackupIsOriginal'
  BY <1>1 DEF TxIInv, BackupIsOriginal, Faithful, Complete, Written
<1> QED
  BY <1>1, <1>2, <1>3 DEF TxIInv, InProgress

LEMMA StutterStep ==
  ASSUME TxIInv, UNCHANGED txVars
  PROVE  TxIInv'
BY DEF TxIInv, txVars, TxTypeOK, BackupIsOriginal, InProgress, Faithful, Complete, Written, Saved

-----------------------------------------------------------------------------

LEMMA TxStepIInv == TxIInv /\ [TxNext]_txVars => TxIInv'
<1> SUFFICES ASSUME TxIInv, [TxNext]_txVars PROVE TxIInv'
  OBVIOUS
<1>1. CASE \E t \in Txns : Begin(t) \/ Apply(t) \/ Rollback(t) \/ \E d \in BOOLEAN : Commit(t, d)
  BY <1>1, BeginStep, ApplyStep, RollbackStep, CommitStep
<1>2. CASE \E p \in Paths : BackUp(p) \/ Restore(p) \/ Edit(p)
  BY <1>2, BackUpStep, RestoreStep, EditStep
<1>3. CASE Write \/ Applied \/ Restored \/ RolledBack
  BY <1>3, WriteStep, AppliedStep, RestoredStep, RolledBackStep
<1>4. CASE SaveOpen \/ SaveFill \/ Unlink \/ Breaks
  BY <1>4, SaveOpenStep, SaveFillStep, UnlinkStep, BreaksStep
<1>5. CASE UNCHANGED txVars
  BY <1>5, StutterStep
<1> QED
  BY <1>1, <1>2, <1>3, <1>4, <1>5 DEF TxNext

LEMMA TxInvariant == TxSpec => []TxIInv
BY TxInitIInv, TxStepIInv, PTL DEF TxSpec

\* The state has its type: metadata that is there and whole always has backups,
\* and a status the code knows.
THEOREM TxTypeCorrect == TxSpec => []TxTypeOK
<1>1. TxIInv => TxTypeOK
  BY DEF TxIInv
<1> QED
  BY <1>1, TxInvariant, PTL

\* The backups _tx_save leaves on disk are those from before the transaction's
\* first write to each path, for any number of transactions on the same paths,
\* applied any number of times, with edits by other tools in between and with
\* operations cut short anywhere.
THEOREM BackupsOriginal == TxSpec => []BackupIsOriginal
<1>1. TxIInv => BackupIsOriginal
  BY DEF TxIInv
<1> QED
  BY <1>1, TxInvariant, PTL

\* A rollback that gets to its save has put back every path the transaction
\* wrote, except those whose backup an apply that was cut short had lost.
THEOREM RollbackIsFaithful == TxSpec => []RollbackRestores
<1>1. TxIInv => RollbackRestores
  <2> SUFFICES ASSUME TxIInv, op.step \in {"save", "saving"}, op.tx.status = "rolled_back",
                      NEW p \in Written(op.txn) \ spoiled[op.txn]
               PROVE  disk[p] = Read(first[op.txn][p])
    BY DEF RollbackRestores
  <2>1. /\ Faithful(op.tx.backups, op.txn) /\ Complete(op.tx.backups, op.txn)
        /\ \A q \in Saved(op.tx) : disk[q] = op.tx.backups[q]
    BY BusyOp DEF TxIInv, InProgress
  <2>2. p \in Paths /\ op.tx.backups[p] # Unsaved
    BY <2>1 DEF Complete, Written
  <2> QED
    BY <2>1, <2>2 DEF Faithful, Saved
<1> QED
  BY <1>1, TxInvariant, PTL

-----------------------------------------------------------------------------
(***************************************************************************)
(* State snapshots.                                                        *)
(***************************************************************************)

\* A commit is pushed, and the top one is dropped.
LEMMA PushTop ==
    ASSUME NEW S, NEW s \in Seq(S), NEW e \in S
    PROVE  /\ <<e>> \o s \in Seq(S) /\ Len(<<e>> \o s) = Len(s) + 1
           /\ (<<e>> \o s)[1] = e
           /\ \A i \in 1..Len(s) : (<<e>> \o s)[i + 1] = s[i]
  OBVIOUS

LEMMA DropTop ==
    ASSUME NEW S, NEW s \in Seq(S), s # <<>>
    PROVE  /\ Tail(s) \in Seq(S) /\ Len(Tail(s)) = Len(s) - 1 /\ Len(s) > 0
           /\ Head(s) = s[1] /\ Head(s) \in S
           /\ \A i \in 1..(Len(s) - 1) : Tail(s)[i] = s[i + 1]
  OBVIOUS

LEMMA SnapInitInv == SnapInit => SnapIInv
  <1> SUFFICES ASSUME SnapInit
               PROVE  SnapIInv
    OBVIOUS
  <1> USE SnapAssumption, NoCommitAssumption
  <1>1. PICK v \in Versions : snapHead = v /\ snapTree = Clean(v)
    BY DEF SnapInit
  <1>2. snapTree \in Trees /\ snapHead \in Versions
    BY <1>1 DEF Clean, Trees
  <1>3. snapStash \in Seq(StashCommits) /\ snapOthers = snapStash
    <2>1. snapOthers = snapStash
      BY DEF SnapInit
    <2>2. CASE snapStash = <<>>
      BY <2>1, <2>2
    <2>3. ASSUME NEW c \in StashCommits, snapStash = <<c>>
          PROVE  snapStash \in Seq(StashCommits)
      BY <2>3
    <2>4. snapStash = <<>> \/ \E c \in StashCommits : snapStash = <<c>>
      BY Zenon DEF SnapInit
    <2> QED  BY <2>1, <2>2, <2>3, <2>4
  <1>4. snapOp = SnapIdle /\ snapOp \in [step : SnapSteps, name : SnapNames \cup {NoCommit},
                                         entry : Entries \cup {NoCommit}, touched : BOOLEAN]
    BY DEF SnapInit, SnapIdle, SnapSteps
  <1>5. SnapTypeOK
    <2>1. /\ snapRefs = Nothing /\ snapIndex = Nothing /\ snapWant = Nothing /\ snapTorn = FALSE
          /\ snapTaken = {} /\ snapBlind = {} /\ snapBack = NoCommit /\ snapEdits = 0
      BY DEF SnapInit
    <2>2. /\ Nothing \in [SnapNames -> StashCommits \cup {NoCommit}]
          /\ Nothing \in [SnapNames -> Entries \cup {NoCommit}]
          /\ Nothing \in [SnapNames -> Trees \cup {NoCommit}]
      BY DEF Nothing
    <2>3. 0 \in 0..SnapMaxEdits
      OBVIOUS
    <2> QED  BY <1>2, <1>3, <1>4, <2>1, <2>2, <2>3 DEF SnapTypeOK
  <1>6. OthersBelow
    BY <1>3 DEF OthersBelow
  <1> QED  BY <1>4, <1>5, <1>6 DEF SnapInit, SnapIInv, SnapShape, NoWorkLost, OnTop, PushOnce, SnapIdle

\* Steps that leave the stash, the refs and what they are compared with alone, and do
\* not get to the push or the commands behind it.
LEMMA Aside ==
    ASSUME SnapIInv, UNCHANGED <<snapStash, snapRefs, snapWant, snapTaken, snapOthers>>,
           snapOp'.step \notin {"push", "parse", "ref", "drop"}
    PROVE  (NoWorkLost /\ OnTop /\ PushOnce)'
  BY DEF SnapIInv, NoWorkLost, OthersBelow, OnTop, PushOnce

LEMMA SnapNextInv == SnapIInv /\ [SnapNext]_snapVars => SnapIInv'
  <1> SUFFICES ASSUME SnapIInv, [SnapNext]_snapVars
               PROVE  SnapIInv'
    OBVIOUS
  <1> USE SnapAssumption, NoCommitAssumption
  <1> USE DEF snapFiles, snapHistory
  <1>0. /\ snapOp.step \in SnapSteps /\ snapOp.touched \in BOOLEAN
        /\ snapOp \in [step : SnapSteps, name : SnapNames \cup {NoCommit},
                       entry : Entries \cup {NoCommit}, touched : BOOLEAN]
        /\ snapStash \in Seq(StashCommits) /\ snapOthers \in Seq(StashCommits)
        /\ snapTree \in Trees /\ snapHead \in Versions
        /\ snapTaken \subseteq SnapNames
        /\ snapWant \in [SnapNames -> Trees \cup {NoCommit}]
        /\ snapRefs \in [SnapNames -> StashCommits \cup {NoCommit}]
        /\ snapIndex \in [SnapNames -> Entries \cup {NoCommit}]
    BY DEF SnapIInv, SnapTypeOK
  <1>1. ASSUME NEW n \in SnapNames, NEW all \in BOOLEAN, Snapshot(n, all)
        PROVE  SnapIInv'
    <2>1. [base |-> snapHead, commit |-> NoCommit, all |-> all] \in Entries
      BY <1>0 DEF Entries
    <2>2. SnapTypeOK' /\ SnapShape'
      BY <1>1, <2>1 DEF SnapIInv, SnapTypeOK, SnapShape, Snapshot, SnapSteps
    <2>3. (NoWorkLost /\ OnTop /\ PushOnce)'
      BY <1>1 DEF SnapIInv, NoWorkLost, OthersBelow, OnTop, PushOnce, Snapshot
    <2> QED  BY <2>2, <2>3 DEF SnapIInv
  <1>2. CASE StashPush
    <2> DEFINE e == [base |-> snapHead, tree |-> snapTree]
               name == snapOp.name
    <2>1. /\ snapOp.step = "push" /\ name \in SnapNames /\ snapWant[name] = NoCommit
          /\ snapOp.entry \in Entries /\ name \notin snapTaken
          /\ snapWant' = [snapWant EXCEPT ![name] = snapTree]
          /\ snapWant'[name] = snapTree
          /\ \A n \in SnapNames \ {name} : snapWant'[n] = snapWant[n]
          /\ UNCHANGED <<snapHead, snapRefs, snapIndex, snapTorn, snapOthers, snapBack, snapEdits>>
      BY <1>0, <1>2 DEF StashPush, SnapIInv, SnapShape, PushOnce
    <2>2. e \in StashCommits /\ Clean(snapHead) \in Trees /\ snapTree # NoCommit
      BY <1>0 DEF StashCommits, Clean, Trees
    <2>3. CASE /\ snapStash' = <<e>> \o snapStash /\ snapTree' = Clean(snapHead)
               /\ snapTaken' = snapTaken \cup {name}
               /\ SnapGoes("parse") /\ SnapBlindIf(snapOp.touched)
      <3>1. SnapTypeOK' /\ SnapShape'
        <4>1. snapOp' \in [step : SnapSteps, name : SnapNames \cup {NoCommit},
                           entry : Entries \cup {NoCommit}, touched : BOOLEAN]
          BY <1>0, <2>3 DEF SnapGoes, SnapSteps
        <4>2. snapStash' \in Seq(StashCommits)
          BY <1>0, <2>2, <2>3, PushTop
        <4>3. snapWant' \in [SnapNames -> Trees \cup {NoCommit}]
          BY <1>0, <2>1
        <4>4. snapOp'.step = "parse" /\ snapOp'.name = name /\ snapOp'.entry = snapOp.entry
          BY <1>0, <2>3 DEF SnapGoes
        <4> QED  BY <1>0, <2>1, <2>2, <2>3, <4>1, <4>2, <4>3, <4>4
                 DEF SnapIInv, SnapTypeOK, SnapShape, SnapBlindIf
      <3>2. /\ Len(snapStash') = Len(snapStash) + 1 /\ snapStash'[1] = e
            /\ \A i \in 1..Len(snapStash) : snapStash'[i + 1] = snapStash[i]
        BY <1>0, <2>2, <2>3, PushTop
      <3>3. Len(snapStash) \in Nat /\ Len(snapOthers) \in Nat /\ DOMAIN snapOthers = 1..Len(snapOthers)
        BY <1>0
      <3>4. Len(snapStash) >= Len(snapOthers)
        BY <3>3 DEF SnapIInv, NoWorkLost, OthersBelow
      <3>5. OthersBelow'
        <4>1. \A i \in 1..Len(snapOthers) :
                 snapStash[Len(snapStash) - Len(snapOthers) + i] = snapOthers[i]
          BY <3>3 DEF SnapIInv, NoWorkLost, OthersBelow
        <4>2. ASSUME NEW i \in 1..Len(snapOthers)
              PROVE  snapStash'[Len(snapStash') - Len(snapOthers) + i] = snapOthers[i]
          <5> DEFINE j == Len(snapStash) - Len(snapOthers) + i
          <5>1. j \in 1..Len(snapStash) /\ Len(snapStash') - Len(snapOthers) + i = j + 1
            BY <3>2, <3>3, <3>4
          <5> HIDE DEF j
          <5>2. snapStash'[j + 1] = snapStash[j]
            BY <3>2, <5>1
          <5> QED  BY <4>1, <5>1, <5>2 DEF j
        <4> QED  BY <2>1, <3>2, <3>3, <3>4, <4>2 DEF OthersBelow
      <3>6. ASSUME NEW n \in snapTaken
            PROVE  \/ \E i \in 2..Len(snapStash') : snapStash'[i].tree = snapWant'[n]
                   \/ snapRefs'[n] # NoCommit /\ snapRefs'[n].tree = snapWant'[n]
        <4>1. n \in SnapNames /\ n # name /\ snapWant'[n] = snapWant[n] /\ snapRefs' = snapRefs
          BY <1>0, <2>1
        <4>2. CASE \E i \in DOMAIN snapStash : snapStash[i].tree = snapWant[n]
          <5>1. PICK i \in 1..Len(snapStash) : snapStash[i].tree = snapWant[n]
            BY <1>0, <4>2
          <5>2. i + 1 \in 2..Len(snapStash') /\ snapStash'[i + 1].tree = snapWant'[n]
            BY <3>2, <3>3, <4>1, <5>1
          <5> QED  BY <5>2
        <4> QED  BY <4>1, <4>2 DEF SnapIInv, NoWorkLost
      <3>7. NoWorkLost'
        <4>1. ASSUME NEW n \in snapTaken'
              PROVE  \/ \E i \in DOMAIN snapStash' : snapStash'[i].tree = snapWant'[n]
                     \/ snapRefs'[n] # NoCommit /\ snapRefs'[n].tree = snapWant'[n]
          <5>1. CASE n = name
            <6>1. 1 \in 1..Len(snapStash') /\ DOMAIN snapStash' = 1..Len(snapStash')
              BY <3>1, <3>2, <3>3 DEF SnapTypeOK
            <6>2. snapStash'[1].tree = snapWant'[n]
              BY <2>1, <3>2, <5>1
            <6> QED  BY <6>1, <6>2
          <5>2. CASE n # name
            <6>1. n \in snapTaken
              BY <2>3, <5>2
            <6>2. \A i \in 2..Len(snapStash') : i \in DOMAIN snapStash'
              BY <3>1 DEF SnapTypeOK
            <6> QED  BY <3>6, <6>1, <6>2
          <5> QED  BY <5>1, <5>2
        <4> QED  BY <3>5, <4>1 DEF NoWorkLost
      <3>8. OnTop' /\ PushOnce'
        <4>1. snapOp'.step = "parse" /\ snapOp'.name = name
          BY <1>0, <2>3 DEF SnapGoes
        <4>2. \A n \in snapTaken' \ {name} : n \in snapTaken
          BY <2>3
        <4>3. Len(snapStash') > Len(snapOthers') /\ snapStash'[1].tree = snapWant'[name]
          BY <2>1, <3>2, <3>3, <3>4
        <4>4. \A n \in snapTaken' : snapWant'[n] # NoCommit
          BY <1>0, <2>1, <2>2, <2>3 DEF SnapIInv, PushOnce
        <4> QED  BY <3>6, <4>1, <4>2, <4>3, <4>4 DEF OnTop, PushOnce
      <3> QED  BY <3>1, <3>7, <3>8 DEF SnapIInv
    <2>4. CASE \E fails \in BOOLEAN : /\ SnapGoes("list") /\ SnapBlindIf(fails \/ snapOp.touched)
                                      /\ UNCHANGED <<snapTree, snapStash, snapTaken>>
      <3>1. snapOp'.step = "list" /\ snapOp'.name = name /\ snapOp'.entry = snapOp.entry
            /\ snapOp' \in [step : SnapSteps, name : SnapNames \cup {NoCommit},
                            entry : Entries \cup {NoCommit}, touched : BOOLEAN]
        BY <1>0, <2>4 DEF SnapGoes, SnapSteps
      <3>2. snapWant' \in [SnapNames -> Trees \cup {NoCommit}]
        BY <1>0, <2>1
      <3>3. SnapTypeOK' /\ SnapShape'
        BY <2>1, <2>4, <3>1, <3>2 DEF SnapIInv, SnapTypeOK, SnapShape, SnapBlindIf
      <3>4. \A n \in snapTaken : snapWant'[n] = snapWant[n]
        BY <1>0, <2>1
      <3>5. (NoWorkLost /\ OnTop /\ PushOnce)'
        BY <2>1, <2>4, <3>1, <3>4 DEF SnapIInv, NoWorkLost, OthersBelow, OnTop, PushOnce
      <3> QED  BY <3>3, <3>5 DEF SnapIInv
    <2> QED  BY <1>2, <2>3, <2>4 DEF StashPush
  <1>3. CASE StashParse
    <2>1. Head(snapStash) = snapStash[1] /\ Head(snapStash) \in StashCommits
      BY <1>0, <1>3, DropTop DEF StashParse
    <2>2. snapOp.step = "parse" /\ snapOp.name \in SnapNames /\ snapOp.entry \in Entries
      BY <1>3 DEF StashParse, SnapIInv, SnapShape
    <2>3. [snapOp.entry EXCEPT !.commit = Head(snapStash)] \in Entries
      BY <2>1, <2>2 DEF Entries
    <2>4. /\ snapOp'.step = "ref" /\ snapOp'.name = snapOp.name
          /\ snapOp'.entry = [snapOp.entry EXCEPT !.commit = Head(snapStash)]
          /\ snapOp'.touched = snapOp.touched
          /\ snapOp' \in [step : SnapSteps, name : SnapNames \cup {NoCommit},
                          entry : Entries \cup {NoCommit}, touched : BOOLEAN]
      BY <1>0, <1>3, <2>3 DEF StashParse, SnapSteps
    <2>5. snapOp'.entry.commit = snapStash[1]
      BY <2>1, <2>2, <2>4 DEF Entries
    <2>6. SnapTypeOK' /\ SnapShape'
      BY <1>3, <2>1, <2>2, <2>3, <2>4, <2>5 DEF StashParse, SnapIInv, SnapTypeOK, SnapShape
    <2>7. (NoWorkLost /\ OnTop /\ PushOnce)'
      BY <1>3, <2>2, <2>4, <2>5 DEF StashParse, SnapIInv, NoWorkLost, OthersBelow, OnTop, PushOnce
    <2> QED  BY <2>6, <2>7 DEF SnapIInv
  <1>4. CASE StashRef
    <2>1. /\ snapOp.step = "ref" /\ snapOp.name \in SnapNames /\ snapOp.entry.commit \in StashCommits
          /\ snapOp.entry.commit = snapStash[1] /\ snapStash[1].tree = snapWant[snapOp.name]
      BY <1>4 DEF StashRef, SnapIInv, SnapShape, OnTop
    <2>2. /\ snapOp'.step = "drop" /\ snapOp'.name = snapOp.name /\ snapOp'.entry = snapOp.entry
          /\ snapOp' \in [step : SnapSteps, name : SnapNames \cup {NoCommit},
                          entry : Entries \cup {NoCommit}, touched : BOOLEAN]
      BY <1>0, <1>4 DEF StashRef, SnapGoes, SnapSteps
    <2>3. /\ snapRefs' \in [SnapNames -> StashCommits \cup {NoCommit}]
          /\ snapRefs'[snapOp.name] = snapStash[1]
          /\ \A n \in SnapNames \ {snapOp.name} : snapRefs'[n] = snapRefs[n]
      BY <1>0, <1>4, <2>1 DEF StashRef
    <2>4. SnapTypeOK' /\ SnapShape'
      BY <1>4, <2>1, <2>2, <2>3 DEF StashRef, SnapIInv, SnapTypeOK, SnapShape
    <2>5. NoWorkLost'
      <3>1. ASSUME NEW n \in snapTaken
            PROVE  \/ \E i \in DOMAIN snapStash : snapStash[i].tree = snapWant[n]
                   \/ snapRefs'[n] # NoCommit /\ snapRefs'[n].tree = snapWant[n]
        <4>1. CASE n = snapOp.name
          BY <2>1, <2>3, <4>1
        <4>2. CASE n # snapOp.name
          BY <1>0, <2>3, <4>2 DEF SnapIInv, NoWorkLost
        <4> QED  BY <4>1, <4>2
      <3> QED  BY <1>4, <3>1 DEF StashRef, SnapIInv, NoWorkLost, OthersBelow
    <2>6. OnTop' /\ PushOnce'
      <3>1. \A n \in snapTaken \ {snapOp.name} : snapRefs'[n] = snapRefs[n]
        BY <1>0, <2>3
      <3> QED  BY <1>4, <2>1, <2>2, <2>3, <3>1 DEF StashRef, SnapIInv, OnTop, PushOnce
    <2> QED  BY <2>4, <2>5, <2>6 DEF SnapIInv
  <1>5. CASE StashDrop
    <2>1. /\ snapOp.step = "drop" /\ snapStash # <<>> /\ snapStash' = Tail(snapStash)
          /\ snapOp.name \in SnapNames /\ Len(snapStash) > Len(snapOthers)
          /\ snapRefs[snapOp.name] = snapStash[1] /\ snapStash[1].tree = snapWant[snapOp.name]
          /\ UNCHANGED <<snapTree, snapHead, snapRefs, snapIndex, snapTorn, snapWant, snapTaken,
                         snapBlind, snapOthers, snapBack, snapEdits>>
      BY <1>5 DEF StashDrop, SnapIInv, SnapShape, OnTop
    <2>2. /\ snapStash' \in Seq(StashCommits) /\ Len(snapStash') = Len(snapStash) - 1
          /\ snapStash[1] \in StashCommits
          /\ \A i \in 1..(Len(snapStash) - 1) : snapStash'[i] = snapStash[i + 1]
      BY <1>0, <2>1, DropTop
    <2>3. /\ snapOp'.step = "apply" /\ snapOp'.name = snapOp.name /\ snapOp'.entry = snapOp.entry
          /\ snapOp' \in [step : SnapSteps, name : SnapNames \cup {NoCommit},
                          entry : Entries \cup {NoCommit}, touched : BOOLEAN]
      BY <1>0, <1>5 DEF StashDrop, SnapGoes, SnapSteps
    <2>4. SnapTypeOK' /\ SnapShape'
      BY <2>1, <2>2, <2>3 DEF SnapIInv, SnapTypeOK, SnapShape
    <2>5. Len(snapStash) \in Nat /\ Len(snapOthers) \in Nat
          /\ DOMAIN snapOthers = 1..Len(snapOthers) /\ DOMAIN snapStash' = 1..Len(snapStash')
      BY <1>0, <2>2
    <2>6. OthersBelow'
      <3>1. \A i \in 1..Len(snapOthers) :
               snapStash[Len(snapStash) - Len(snapOthers) + i] = snapOthers[i]
        BY <2>5 DEF SnapIInv, NoWorkLost, OthersBelow
      <3>2. ASSUME NEW i \in 1..Len(snapOthers)
            PROVE  snapStash'[Len(snapStash') - Len(snapOthers) + i] = snapOthers[i]
        <4> DEFINE j == Len(snapStash') - Len(snapOthers) + i
        <4>1. j \in 1..(Len(snapStash) - 1) /\ j + 1 = Len(snapStash) - Len(snapOthers) + i
          BY <2>1, <2>2, <2>5
        <4> HIDE DEF j
        <4>2. snapStash'[j] = snapStash[j + 1]
          BY <2>2, <4>1
        <4> QED  BY <3>1, <4>1, <4>2 DEF j
      <3>3. Len(snapStash') - Len(snapOthers) >= 0
        BY <2>1, <2>2, <2>5
      <3> QED  BY <2>1, <2>5, <3>2, <3>3 DEF OthersBelow
    <2>7. NoWorkLost'
      <3>1. ASSUME NEW n \in snapTaken
            PROVE  \/ \E i \in 1..Len(snapStash') : snapStash'[i].tree = snapWant[n]
                   \/ snapRefs[n] # NoCommit /\ snapRefs[n].tree = snapWant[n]
        <4>1. CASE n = snapOp.name
          BY <2>1, <2>2, <4>1
        <4>2. CASE n # snapOp.name /\ \E i \in 2..Len(snapStash) : snapStash[i].tree = snapWant[n]
          <5>1. PICK i \in 2..Len(snapStash) : snapStash[i].tree = snapWant[n]
            BY <4>2
          <5>2. i - 1 \in 1..Len(snapStash') /\ i - 1 \in 1..(Len(snapStash) - 1) /\ (i - 1) + 1 = i
            BY <2>2, <2>5, <5>1
          <5>3. snapStash'[i - 1] = snapStash[i]
            BY <2>2, <5>2
          <5> QED  BY <5>1, <5>2, <5>3
        <4> QED  BY <2>1, <4>1, <4>2 DEF SnapIInv, OnTop
      <3> QED  BY <2>1, <2>5, <2>6, <3>1 DEF NoWorkLost
    <2>8. OnTop' /\ PushOnce'
      BY <2>1, <2>3 DEF SnapIInv, OnTop, PushOnce
    <2> QED  BY <2>4, <2>7, <2>8 DEF SnapIInv
  <1>6. CASE StashApply
    <2>1. snapOp.entry.commit.tree \in Trees /\ snapOp.name \in SnapNames /\ snapOp.entry \in Entries
      BY <1>6 DEF StashApply, SnapIInv, SnapShape, StashCommits
    <2>2. /\ snapOp'.step = "list" /\ snapOp'.name = snapOp.name /\ snapOp'.entry = snapOp.entry
          /\ snapOp' \in [step : SnapSteps, name : SnapNames \cup {NoCommit},
                          entry : Entries \cup {NoCommit}, touched : BOOLEAN]
      BY <1>0, <1>6 DEF StashApply, SnapGoes, SnapSteps
    <2>3. SnapTypeOK' /\ SnapShape'
      BY <1>6, <2>1, <2>2 DEF StashApply, SnapIInv, SnapTypeOK, SnapShape
    <2> QED  BY <1>6, <2>2, <2>3, Aside DEF StashApply, SnapIInv
  <1>7. CASE IndexOpen
    <2>1. snapOp.name \in SnapNames /\ snapOp.entry \in Entries
      BY <1>7 DEF IndexOpen, SnapIInv, SnapShape
    <2>2. /\ snapOp'.step = "save" /\ snapOp'.name = snapOp.name /\ snapOp'.entry = snapOp.entry
          /\ snapOp' \in [step : SnapSteps, name : SnapNames \cup {NoCommit},
                          entry : Entries \cup {NoCommit}, touched : BOOLEAN]
      BY <1>0, <1>7 DEF IndexOpen, SnapGoes, SnapSteps
    <2>3. snapIndex' \in [SnapNames -> Entries \cup {NoCommit}]
      BY <1>0, <1>7, <2>1 DEF IndexOpen, Nothing
    <2>4. SnapTypeOK' /\ SnapShape'
      BY <1>7, <2>1, <2>2, <2>3 DEF IndexOpen, SnapIInv, SnapTypeOK, SnapShape
    <2> QED  BY <1>7, <2>2, <2>4, Aside DEF IndexOpen, SnapIInv
  <1>8. CASE IndexSave \/ SnapStops
    <2>1. SnapIdle \in [step : SnapSteps, name : SnapNames \cup {NoCommit},
                        entry : Entries \cup {NoCommit}, touched : BOOLEAN]
          /\ SnapIdle.step = "idle"
      BY DEF SnapIdle, SnapSteps
    <2>2. SnapTypeOK' /\ SnapShape'
      BY <1>8, <2>1 DEF IndexSave, SnapStops, SnapIInv, SnapTypeOK, SnapShape
    <2> QED  BY <1>8, <2>1, <2>2, Aside DEF IndexSave, SnapStops, SnapIInv
  <1>9. ASSUME NEW n \in SnapNames, SnapRestore(n)
        PROVE  SnapIInv'
    <2>1. snapIndex[n] \in Entries
      BY <1>0, <1>9 DEF SnapRestore
    <2>2. SnapTypeOK' /\ SnapShape'
      BY <1>9, <2>1 DEF SnapRestore, SnapIInv, SnapTypeOK, SnapShape, SnapSteps
    <2>3. snapOp'.step = "reset"
      BY <1>9 DEF SnapRestore
    <2> QED  BY <1>9, <2>2, <2>3, Aside DEF SnapRestore, SnapIInv
  <1>10. CASE ResetHard
    <2>1. snapOp.name \in SnapNames /\ snapOp.entry \in Entries /\ snapOp.entry.base \in Versions
      BY <1>10 DEF ResetHard, SnapIInv, SnapShape, Entries
    <2>2. /\ snapOp'.step = "clean" /\ snapOp'.name = snapOp.name /\ snapOp'.entry = snapOp.entry
          /\ snapOp' \in [step : SnapSteps, name : SnapNames \cup {NoCommit},
                          entry : Entries \cup {NoCommit}, touched : BOOLEAN]
      BY <1>0, <1>10 DEF ResetHard, SnapGoes, SnapSteps
    <2>3. snapTree' \in Trees
      BY <1>0, <1>10, <2>1 DEF ResetHard, Trees
    <2>4. SnapTypeOK' /\ SnapShape'
      BY <1>10, <2>1, <2>2, <2>3 DEF ResetHard, SnapIInv, SnapTypeOK, SnapShape
    <2> QED  BY <1>10, <2>2, <2>4, Aside DEF ResetHard, SnapIInv
  <1>11. CASE CleanFd
    <2>1. snapOp.name \in SnapNames /\ snapOp.entry \in Entries
      BY <1>11 DEF CleanFd, SnapIInv, SnapShape
    <2>2. snapOp.entry.commit \in StashCommits \cup {NoCommit}
      BY <2>1 DEF Entries
    <2>3. /\ snapOp' \in [step : SnapSteps, name : SnapNames \cup {NoCommit},
                          entry : Entries \cup {NoCommit}, touched : BOOLEAN]
          /\ \/ snapOp'.step = "idle"
             \/ /\ snapOp'.step = "unstash" /\ snapOp'.name = snapOp.name
                /\ snapOp'.entry = snapOp.entry /\ snapOp.entry.commit \in StashCommits
          /\ snapBack' \in SnapNames \cup {NoCommit}
      <3>1. CASE snapOp.entry.commit = NoCommit
        <4>1. snapOp' = SnapIdle /\ snapBack' \in SnapNames \cup {NoCommit}
          BY <1>11, <2>1, <3>1 DEF CleanFd, SnapAnswered
        <4> QED  BY <4>1 DEF SnapIdle, SnapSteps
      <3>2. CASE snapOp.entry.commit # NoCommit
        <4>1. snapOp' = [snapOp EXCEPT !.step = "unstash"] /\ snapBack' = snapBack
          BY <1>11, <3>2 DEF CleanFd, SnapGoes
        <4>2. snapBack \in SnapNames \cup {NoCommit}
          BY DEF SnapIInv, SnapTypeOK
        <4> QED  BY <1>0, <2>2, <3>2, <4>1, <4>2 DEF SnapSteps
      <3> QED  BY <3>1, <3>2
    <2>4. snapTree' \in Trees /\ snapIndex' \in [SnapNames -> Entries \cup {NoCommit}]
      BY <1>0, <1>11 DEF CleanFd, Trees, Nothing
    <2>5. SnapTypeOK' /\ SnapShape'
      BY <1>11, <2>1, <2>3, <2>4 DEF CleanFd, SnapIInv, SnapTypeOK, SnapShape
    <2> QED  BY <1>11, <2>3, <2>5, Aside DEF CleanFd, SnapIInv
  <1>12. CASE Unstash
    <2>1. snapOp.name \in SnapNames /\ snapOp.entry.commit.tree \in Trees
      BY <1>12 DEF Unstash, SnapIInv, SnapShape, StashCommits
    <2>2. /\ snapOp'.step = "idle" /\ snapBack' \in SnapNames \cup {NoCommit}
          /\ snapOp' \in [step : SnapSteps, name : SnapNames \cup {NoCommit},
                          entry : Entries \cup {NoCommit}, touched : BOOLEAN]
      BY <1>12, <2>1 DEF Unstash, SnapAnswered, SnapIdle, SnapSteps
    <2>3. SnapTypeOK' /\ SnapShape'
      BY <1>12, <2>1, <2>2 DEF Unstash, SnapIInv, SnapTypeOK, SnapShape
    <2> QED  BY <1>12, <2>2, <2>3, Aside DEF Unstash, SnapIInv
  <1>13. CASE Developer
    <2>1. /\ snapOp'.step = snapOp.step /\ snapOp'.name = snapOp.name /\ snapOp'.entry = snapOp.entry
          /\ snapOp' \in [step : SnapSteps, name : SnapNames \cup {NoCommit},
                          entry : Entries \cup {NoCommit}, touched : BOOLEAN]
      <3>1. CASE snapOp' = snapOp
        BY <1>0, <3>1
      <3>2. CASE snapOp' = [snapOp EXCEPT !.touched = TRUE]
        <4>1. snapOp' = [step |-> snapOp.step, name |-> snapOp.name, entry |-> snapOp.entry,
                         touched |-> TRUE]
          BY <1>0, <3>2
        <4>2. /\ snapOp.name \in SnapNames \cup {NoCommit} /\ snapOp.entry \in Entries \cup {NoCommit}
              /\ TRUE \in BOOLEAN
          BY <1>0
        <4> QED  BY <1>0, <4>1, <4>2
      <3> QED  BY <1>13, <3>1, <3>2 DEF Developer
    <2>2. snapTree' \in Trees /\ snapHead' \in Versions
      BY <1>0, <1>13 DEF Developer, Trees
    <2>3. snapEdits' \in 0..SnapMaxEdits
      BY <1>13 DEF Developer, SnapIInv, SnapTypeOK
    <2>4. SnapTypeOK' /\ SnapShape'
      BY <1>13, <2>1, <2>2, <2>3 DEF Developer, SnapIInv, SnapTypeOK, SnapShape
    <2>5. (NoWorkLost /\ OnTop /\ PushOnce)'
      BY <1>13, <2>1 DEF Developer, SnapIInv, NoWorkLost, OthersBelow, OnTop, PushOnce
    <2> QED  BY <2>4, <2>5 DEF SnapIInv
  <1>14. CASE UNCHANGED snapVars
    BY <1>14 DEF snapVars, SnapIInv, SnapTypeOK, SnapShape, NoWorkLost, OthersBelow, OnTop, PushOnce
  <1> QED  BY <1>1, <1>2, <1>3, <1>4, <1>5, <1>6, <1>7, <1>8, <1>9, <1>10, <1>11, <1>12, <1>13, <1>14
           DEF SnapNext

LEMMA SnapInvariant == SnapSpec => []SnapIInv
  BY SnapInitInv, SnapNextInv, PTL DEF SnapSpec

\* Every variable of the model keeps its type.
THEOREM SnapTypeCorrect == SnapSpec => []SnapTypeOK
  <1>1. SnapIInv => SnapTypeOK
    BY DEF SnapIInv
  <1> QED  BY <1>1, SnapInvariant, PTL

\* What a snapshot takes off the work tree stays on the stash or under a ref, and
\* the stash of others stays as it was.
THEOREM WorkIsKept == SnapSpec => []NoWorkLost
  <1>1. SnapIInv => NoWorkLost
    BY DEF SnapIInv
  <1> QED  BY <1>1, SnapInvariant, PTL

-----------------------------------------------------------------------------
\* What a restore brings back.

LEMMA ExactTypes ==
    ASSUME ExactInv
    PROVE  /\ SnapIInv /\ EntriesStand /\ Undisturbed /\ RestoreExact
           /\ snapOp \in [step : SnapSteps, name : SnapNames \cup {NoCommit},
                          entry : Entries \cup {NoCommit}, touched : BOOLEAN]
           /\ snapTree \in Trees /\ snapHead \in Versions
           /\ snapWant \in [SnapNames -> Trees \cup {NoCommit}]
           /\ snapIndex \in [SnapNames -> Entries \cup {NoCommit}]
           /\ NoCommit \notin Trees /\ NoCommit \notin StashCommits /\ NoCommit \notin SnapNames
           /\ snapOp.step # "idle" => snapOp.name \in SnapNames /\ snapOp.entry \in Entries
  BY NoCommitAssumption DEF ExactInv, SnapIInv, SnapTypeOK, SnapShape

\* The step of an operation changes, its name and entry do not.
LEMMA GoesOn ==
    ASSUME ExactInv, NEW step \in SnapSteps, SnapGoes(step)
    PROVE  /\ snapOp'.step = step /\ snapOp'.name = snapOp.name
           /\ snapOp'.entry = snapOp.entry /\ snapOp'.touched = snapOp.touched
  BY ExactTypes DEF SnapGoes

\* A step inside an operation that leaves the history alone.
LEMMA Onward ==
    ASSUME ExactInv, snapOp.step # "idle", UNCHANGED <<snapWant, snapBlind, snapBack>>,
           snapOp'.step \notin {"push", "parse"},
           snapOp'.step # "idle" => StandsFor(snapOp'.name, snapOp'.entry),
           \A n \in SnapNames : snapIndex'[n] # NoCommit => StandsFor(n, snapIndex'[n]),
           snapOp'.step = "clean" /\ ~snapOp'.touched => snapTree'.tracked = snapOp'.entry.base
    PROVE  EntriesStand' /\ Undisturbed' /\ RestoreExact'
  <1>1. snapBack = NoCommit
    BY DEF ExactInv, Undisturbed
  <1>2. EntriesStand'
    BY DEF EntriesStand, StandsFor
  <1> QED  BY <1>1, <1>2 DEF Undisturbed, RestoreExact

LEMMA PushExact ==
    ASSUME ExactInv, StashPush
    PROVE  EntriesStand' /\ Undisturbed' /\ RestoreExact'
  <1> DEFINE name == snapOp.name
             e == snapOp.entry
  <1>1. /\ snapOp.step = "push" /\ name \in SnapNames /\ snapWant[name] = NoCommit
        /\ snapBack = NoCommit /\ e.commit = NoCommit
        /\ ~snapOp.touched => snapHead = e.base
        /\ UNCHANGED <<snapHead, snapIndex, snapBack>>
        /\ snapWant' = [snapWant EXCEPT ![name] = snapTree]
    BY ExactTypes DEF StashPush, SnapIInv, PushOnce, Undisturbed
  <1>2. PICK lost \in BOOLEAN :
          /\ SnapBlindIf(lost)
          /\ \/ SnapGoes("parse")
             \/ SnapGoes("list") /\ (~lost => snapTree = Clean(snapHead) /\ ~snapOp.touched)
    <2>1. snapOp.touched \in BOOLEAN
      BY ExactTypes
    <2>2. CASE SnapGoes("parse") /\ SnapBlindIf(snapOp.touched)
      BY <2>1, <2>2
    <2>3. ASSUME NEW fails \in BOOLEAN, fails \/ snapTree = Clean(snapHead), SnapGoes("list"),
                 SnapBlindIf(fails \/ snapOp.touched)
          PROVE  \E lost \in BOOLEAN :
                   SnapBlindIf(lost) /\ SnapGoes("list")
                   /\ (~lost => snapTree = Clean(snapHead) /\ ~snapOp.touched)
      <3>1. (fails \/ snapOp.touched) \in BOOLEAN
        OBVIOUS
      <3> WITNESS (fails \/ snapOp.touched) \in BOOLEAN
      <3> QED  BY <2>3
    <2> QED  BY <2>2, <2>3 DEF StashPush
  <1>3. snapBlind \subseteq snapBlind' /\ (lost => name \in snapBlind')
    BY <1>2 DEF SnapBlindIf
  <1>4. /\ snapWant'[name] = snapTree /\ snapTree # NoCommit
        /\ \A n \in SnapNames \ {name} : snapWant'[n] = snapWant[n]
    BY <1>1, ExactTypes
  <1>5. snapOp'.step \in {"parse", "list"} /\ snapOp'.name = name /\ snapOp'.entry = e
        /\ (snapOp'.step = "list" /\ ~lost => snapTree = Clean(snapHead) /\ ~snapOp.touched)
    BY <1>2, GoesOn DEF SnapSteps
  <1>6. ASSUME NEW n \in SnapNames, snapIndex'[n] # NoCommit, n \notin snapBlind'
        PROVE  snapWant'[n] # NoCommit /\ snapWant'[n] = IF snapIndex'[n].commit = NoCommit
                                         THEN Clean(snapIndex'[n].base)
                                         ELSE snapIndex'[n].commit.tree
    <2>1. StandsFor(n, snapIndex[n]) /\ n \notin snapBlind
      BY <1>1, <1>3, <1>6, ExactTypes DEF EntriesStand
    <2>2. n # name
      BY <1>1, <2>1 DEF StandsFor
    <2> QED  BY <1>1, <1>4, <2>1, <2>2 DEF StandsFor
  <1>7. ASSUME snapOp'.step = "list", name \notin snapBlind'
        PROVE  snapWant'[name] # NoCommit /\ snapWant'[name] = Clean(e.base)
    BY <1>1, <1>3, <1>4, <1>5, <1>7
  <1>8. EntriesStand'
    BY <1>1, <1>5, <1>6, <1>7 DEF EntriesStand, StandsFor
  <1> QED  BY <1>1, <1>5, <1>8 DEF Undisturbed, RestoreExact

LEMMA ParseExact ==
    ASSUME ExactInv, StashParse
    PROVE  EntriesStand' /\ Undisturbed' /\ RestoreExact'
  <1>1. /\ snapOp.step = "parse" /\ snapOp.name \in SnapNames /\ snapOp.entry \in Entries
        /\ snapStash # <<>> /\ snapStash \in Seq(StashCommits)
        /\ UNCHANGED <<snapWant, snapBlind, snapBack, snapIndex>>
        /\ snapOp' = [snapOp EXCEPT !.step = "ref", !.entry.commit = Head(snapStash)]
    BY ExactTypes DEF StashParse, snapFiles, snapHistory, SnapIInv, SnapTypeOK
  <1>2. /\ Head(snapStash) = snapStash[1] /\ Head(snapStash) \in StashCommits
        /\ snapStash[1].tree = snapWant[snapOp.name]
    BY <1>1, DropTop DEF ExactInv, SnapIInv, OnTop
  <1>3. /\ snapOp'.step = "ref" /\ snapOp'.name = snapOp.name
        /\ snapOp'.entry = [snapOp.entry EXCEPT !.commit = Head(snapStash)]
    BY <1>1, ExactTypes
  <1>4. snapOp'.entry.commit = snapStash[1]
    BY <1>1, <1>2, <1>3 DEF Entries
  <1>5. snapStash[1].tree # NoCommit /\ snapStash[1] # NoCommit
    BY <1>2, ExactTypes DEF StashCommits
  <1>6. StandsFor(snapOp'.name, snapOp'.entry)
    BY <1>2, <1>3, <1>4, <1>5 DEF StandsFor
  <1>7. \A n \in SnapNames : snapIndex'[n] # NoCommit => StandsFor(n, snapIndex'[n])
    BY <1>1, ExactTypes DEF EntriesStand
  <1> QED  BY <1>1, <1>3, <1>6, <1>7, Onward

\* The commands from the ref to the index file.
LEMMA TakeExact ==
    ASSUME ExactInv, StashRef \/ StashDrop \/ StashApply \/ IndexOpen \/ IndexSave
    PROVE  EntriesStand' /\ Undisturbed' /\ RestoreExact'
  <1>1. /\ snapOp.step \in {"ref", "drop", "apply", "list", "save"}
        /\ UNCHANGED <<snapWant, snapBlind, snapBack>>
    BY DEF StashRef, StashDrop, StashApply, IndexOpen, IndexSave, snapHistory
  <1>2. StandsFor(snapOp.name, snapOp.entry) /\ snapOp.name \in SnapNames
    BY <1>1, ExactTypes DEF EntriesStand
  <1>3. \/ snapOp'.step = "idle"
        \/ /\ snapOp'.step \in {"drop", "apply", "list", "save"}
           /\ snapOp'.name = snapOp.name /\ snapOp'.entry = snapOp.entry
    BY GoesOn DEF StashRef, StashDrop, StashApply, IndexOpen, IndexSave, SnapIdle, SnapSteps
  <1>4. ASSUME NEW n \in SnapNames, snapIndex'[n] # NoCommit
        PROVE  StandsFor(n, snapIndex'[n])
    <2>1. CASE UNCHANGED snapIndex
      BY <1>4, <2>1, ExactTypes DEF EntriesStand
    <2>2. CASE IndexOpen
      <3>1. snapIndex' = [(IF snapTorn THEN Nothing ELSE snapIndex)
                            EXCEPT ![snapOp.name] = snapOp.entry]
        BY <2>2 DEF IndexOpen
      <3>2. (IF snapTorn THEN Nothing ELSE snapIndex) \in [SnapNames -> Entries \cup {NoCommit}]
        BY ExactTypes DEF Nothing
      <3>3. CASE n = snapOp.name
        BY <1>2, <3>1, <3>2, <3>3
      <3>4. CASE n # snapOp.name
        <4>1. snapIndex'[n] = (IF snapTorn THEN Nothing ELSE snapIndex)[n]
          BY <3>1, <3>2, <3>4
        <4>2. snapIndex'[n] = snapIndex[n]
          BY <1>4, <4>1 DEF Nothing
        <4> QED  BY <1>4, <4>2, ExactTypes DEF EntriesStand
      <3> QED  BY <3>3, <3>4
    <2> QED  BY <2>1, <2>2 DEF StashRef, StashDrop, StashApply, IndexSave
  <1> QED  BY <1>1, <1>2, <1>3, <1>4, Onward

\* The commands of a restore; the last one's answer is a restore that was exact.
LEMMA ResetExact ==
    ASSUME ExactInv, ResetHard
    PROVE  EntriesStand' /\ Undisturbed' /\ RestoreExact'
  <1>1. /\ snapOp.step = "reset" /\ UNCHANGED <<snapWant, snapBlind, snapBack, snapIndex>>
        /\ snapTree' = [snapTree EXCEPT !.tracked = snapOp.entry.base] /\ SnapGoes("clean")
    BY DEF ResetHard, snapHistory
  <1>2. snapTree'.tracked = snapOp.entry.base
    BY <1>1, ExactTypes DEF Trees
  <1>3. snapOp'.step = "clean" /\ snapOp'.name = snapOp.name /\ snapOp'.entry = snapOp.entry
    BY <1>1, GoesOn DEF SnapSteps
  <1>4. StandsFor(snapOp.name, snapOp.entry)
    BY <1>1, ExactTypes DEF EntriesStand
  <1>5. \A n \in SnapNames : snapIndex'[n] # NoCommit => StandsFor(n, snapIndex'[n])
    BY <1>1, ExactTypes DEF EntriesStand
  <1> QED  BY <1>1, <1>2, <1>3, <1>4, <1>5, Onward

LEMMA CleanExact ==
    ASSUME ExactInv, CleanFd
    PROVE  EntriesStand' /\ Undisturbed' /\ RestoreExact'
  <1> DEFINE e == snapOp.entry
  <1>1. /\ snapOp.step = "clean" /\ snapTree' = [snapTree EXCEPT !.untracked = NoFile]
        /\ snapIndex' = (IF e.all THEN Nothing ELSE snapIndex)
        /\ UNCHANGED <<snapWant, snapBlind>> /\ snapOp.name \in SnapNames
    BY ExactTypes DEF CleanFd
  <1>2. StandsFor(snapOp.name, e)
    BY <1>1, ExactTypes DEF EntriesStand
  <1>3. \A n \in SnapNames : snapIndex'[n] # NoCommit => StandsFor(n, snapIndex'[n])
    <2>1. \A n \in SnapNames : snapIndex'[n] # NoCommit => snapIndex'[n] = snapIndex[n]
      BY <1>1 DEF Nothing
    <2> QED  BY <2>1, ExactTypes DEF EntriesStand
  <1>4. CASE e.commit # NoCommit
    <2>1. SnapGoes("unstash") /\ UNCHANGED snapBack
      BY <1>4 DEF CleanFd
    <2>2. snapOp'.step = "unstash" /\ snapOp'.name = snapOp.name /\ snapOp'.entry = e
      BY <2>1, GoesOn DEF SnapSteps
    <2> QED  BY <1>1, <1>2, <1>3, <2>1, <2>2, Onward
  <1>5. CASE e.commit = NoCommit
    <2>1. /\ snapOp'.step = "idle"
          /\ snapBack' = IF snapOp.touched THEN NoCommit ELSE snapOp.name
      BY <1>5 DEF CleanFd, SnapIdle, SnapAnswered
    <2>2. RestoreExact'
      <3> SUFFICES ASSUME snapBack' # NoCommit, snapBack' \notin snapBlind
                   PROVE  snapTree' = snapWant[snapBack']
        BY <1>1 DEF RestoreExact
      <3>1. ~snapOp.touched /\ snapBack' = snapOp.name
        BY <2>1
      <3>2. snapTree.tracked = e.base
        BY <1>1, <3>1, ExactTypes DEF Undisturbed
      <3>3. snapTree' = Clean(e.base)
        BY <1>1, <3>2, ExactTypes DEF Trees, Clean
      <3> QED  BY <1>2, <1>5, <3>1, <3>3 DEF StandsFor
    <2>3. EntriesStand'
      BY <1>1, <1>3, <2>1 DEF EntriesStand, StandsFor
    <2> QED  BY <2>1, <2>2, <2>3 DEF Undisturbed
  <1> QED  BY <1>4, <1>5

LEMMA UnstashExact ==
    ASSUME ExactInv, Unstash
    PROVE  EntriesStand' /\ Undisturbed' /\ RestoreExact'
  <1> DEFINE e == snapOp.entry
  <1>1. /\ snapOp.step = "unstash" /\ snapTree' = e.commit.tree /\ snapOp'.step = "idle"
        /\ snapBack' = (IF snapOp.touched THEN NoCommit ELSE snapOp.name)
        /\ UNCHANGED <<snapWant, snapBlind, snapIndex>>
        /\ e.commit \in StashCommits /\ snapOp.name \in SnapNames
    BY ExactTypes DEF Unstash, SnapAnswered, SnapIdle, SnapIInv, SnapShape
  <1>2. StandsFor(snapOp.name, e)
    BY <1>1, ExactTypes DEF EntriesStand
  <1>3. EntriesStand'
    BY <1>1, ExactTypes DEF EntriesStand, StandsFor
  <1>4. RestoreExact'
    BY <1>1, <1>2, ExactTypes DEF RestoreExact, StandsFor
  <1> QED  BY <1>1, <1>3, <1>4 DEF Undisturbed

\* What begins or ends an operation, and what goes on beside it.
LEMMA AroundExact ==
    ASSUME ExactInv,
           \/ \E n \in SnapNames : SnapRestore(n) \/ \E all \in BOOLEAN : Snapshot(n, all)
           \/ SnapStops \/ Developer \/ UNCHANGED snapVars
    PROVE  EntriesStand' /\ Undisturbed' /\ RestoreExact'
  <1> USE DEF snapFiles, snapHistory
  <1>1. ASSUME NEW n \in SnapNames, SnapRestore(n)
        PROVE  EntriesStand' /\ Undisturbed' /\ RestoreExact'
    <2>1. /\ snapOp'.step = "reset" /\ snapOp'.name = n /\ snapOp'.entry = snapIndex[n]
          /\ snapIndex[n] # NoCommit /\ snapBack' = NoCommit
          /\ UNCHANGED <<snapWant, snapBlind, snapIndex>>
      BY <1>1 DEF SnapRestore
    <2>2. EntriesStand'
      BY <2>1, ExactTypes DEF EntriesStand, StandsFor
    <2> QED  BY <2>1, <2>2 DEF Undisturbed, RestoreExact
  <1>2. ASSUME NEW n \in SnapNames, NEW all \in BOOLEAN, Snapshot(n, all)
        PROVE  EntriesStand' /\ Undisturbed' /\ RestoreExact'
    <2>1. /\ snapOp'.step = "push" /\ snapOp'.entry.commit = NoCommit
          /\ snapOp'.entry.base = snapHead /\ snapBack' = NoCommit
          /\ UNCHANGED <<snapWant, snapBlind, snapIndex, snapHead>>
      BY <1>2 DEF Snapshot
    <2>2. EntriesStand'
      BY <2>1, ExactTypes DEF EntriesStand, StandsFor
    <2> QED  BY <2>1, <2>2 DEF Undisturbed, RestoreExact
  <1>3. CASE SnapStops
    <2>1. /\ snapOp'.step = "idle" /\ UNCHANGED <<snapWant, snapBlind, snapIndex, snapBack, snapTree>>
      BY <1>3 DEF SnapStops, SnapIdle
    <2> QED  BY <2>1, ExactTypes DEF EntriesStand, StandsFor, Undisturbed, RestoreExact
  <1>4. CASE Developer
    <2>1. /\ snapOp'.step = snapOp.step /\ snapOp'.name = snapOp.name
          /\ snapOp'.entry = snapOp.entry /\ (snapOp.step # "idle" => snapOp'.touched)
          /\ snapBack' = NoCommit /\ UNCHANGED <<snapWant, snapBlind, snapIndex>>
      <3>1. CASE snapOp.step = "idle"
        BY <1>4, <3>1 DEF Developer
      <3>2. CASE snapOp.step # "idle"
        BY <1>4, <3>2, ExactTypes DEF Developer
      <3> QED  BY <3>1, <3>2
    <2>2. EntriesStand'
      BY <2>1, ExactTypes DEF EntriesStand, StandsFor
    <2> QED  BY <2>1, <2>2, ExactTypes DEF Undisturbed, RestoreExact
  <1>5. CASE UNCHANGED snapVars
    BY <1>5, ExactTypes DEF snapVars, EntriesStand, StandsFor, Undisturbed, RestoreExact
  <1> QED  BY <1>1, <1>2, <1>3, <1>4, <1>5

LEMMA ExactInvariant == SnapSpec => []ExactInv
  <1>1. SnapInit => ExactInv
    BY SnapInitInv DEF SnapInit, SnapIdle, Nothing, ExactInv, EntriesStand, Undisturbed, RestoreExact
  <1>2. ExactInv /\ [SnapNext]_snapVars => ExactInv'
    <2>1. ExactInv => SnapIInv
      BY DEF ExactInv
    <2> QED  BY <2>1, SnapNextInv, PushExact, ParseExact, TakeExact, ResetExact, CleanExact,
                UnstashExact, AroundExact DEF SnapNext, ExactInv
  <1> QED  BY <1>1, <1>2, PTL DEF SnapSpec

\* state_restore: a restore that was answered and not edited under has brought back the
\* tree its snapshot was asked for, whatever was edited and committed in between,
\* unless that snapshot's stash push failed or was edited under.
THEOREM RestoreBringsBack == SnapSpec => []RestoreExact
  <1>1. ExactInv => RestoreExact
    BY DEF ExactInv
  <1> QED  BY <1>1, ExactInvariant, PTL
=============================================================================
