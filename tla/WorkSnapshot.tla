---------------------------- MODULE WorkSnapshot ----------------------------
(***************************************************************************)
(* Snapshots of the work tree (state_snapshot and state_restore in         *)
(* src/source/server.py), as sequences of git commands.  A snapshot        *)
(* stashes the work, gives the stash commit a ref of its own, drops the    *)
(* stash entry, puts the work back, and enters itself in an index file.    *)
(* A restore resets, cleans and applies.                                   *)
(*                                                                         *)
(* Any command may fail, which raises out of the call, and the server may  *)
(* die between two of them; only a failing stash push is taken for a tree  *)
(* without changes.  The developer edits and commits at any time; of the   *)
(* stash, others use only what was there before.                           *)
(***************************************************************************)
EXTENDS Naturals, Sequences

CONSTANTS
    SnapNames,
    Versions,       \* contents of the tracked and of the untracked file
    NoFile,         \* the untracked file is not there
    NoCommit,       \* the snapshot found nothing to stash
    SnapMaxEdits    \* bound on edits and commits

ASSUME SnapAssumption == NoFile \notin Versions /\ SnapMaxEdits \in Nat

VARIABLES
    snapTree,      \* the work tree: a tracked and an untracked file
    snapHead,      \* what HEAD has for the tracked file
    snapStash,     \* the stash, newest first
    snapRefs,      \* refs/mcp-snapshots
    snapIndex,     \* the index file: the entries of the snapshots it lists
    snapTorn,      \* the index file was truncated and not filled
    snapOp,        \* the operation in progress
    snapWant,      \* history: the tree a snapshot was asked for
    snapTaken,     \* history: snapshots whose stash push took changes off the tree
    snapBlind,     \* history: snapshots whose push failed, or came after another's edit
    snapOthers,    \* history: the stash before the first snapshot
    snapBack,      \* history: the snapshot last restored, until the next edit
    snapEdits      \* history: edits and commits so far

snapFiles == <<snapTree, snapHead, snapStash, snapRefs, snapIndex, snapTorn>>
snapHistory == <<snapWant, snapTaken, snapBlind, snapOthers, snapBack, snapEdits>>
snapVars == <<snapFiles, snapOp, snapHistory>>

Trees == [tracked : Versions, untracked : Versions \cup {NoFile}]
StashCommits == [base : Versions, tree : Trees]
ASSUME NoCommitAssumption == NoCommit \notin StashCommits \cup SnapNames \cup Trees

Entries == [base : Versions, commit : StashCommits \cup {NoCommit}, all : BOOLEAN]
SnapSteps == {"idle", "push", "parse", "ref", "drop", "apply", "list", "save", "reset", "clean", "unstash"}
SnapIdle == [step |-> "idle", name |-> NoCommit, entry |-> NoCommit, touched |-> FALSE]

SnapTypeOK ==
    /\ snapTree \in Trees /\ snapHead \in Versions
    /\ snapStash \in Seq(StashCommits)
    /\ snapRefs \in [SnapNames -> StashCommits \cup {NoCommit}]
    /\ snapIndex \in [SnapNames -> Entries \cup {NoCommit}] /\ snapTorn \in BOOLEAN
    /\ snapOp \in [step : SnapSteps, name : SnapNames \cup {NoCommit},
                   entry : Entries \cup {NoCommit}, touched : BOOLEAN]
    /\ snapWant \in [SnapNames -> Trees \cup {NoCommit}] /\ snapBlind \subseteq SnapNames
    /\ snapTaken \subseteq SnapNames /\ snapOthers \in Seq(StashCommits)
    /\ snapBack \in SnapNames \cup {NoCommit} /\ snapEdits \in 0..SnapMaxEdits

Nothing == [n \in SnapNames |-> NoCommit]
Clean(head) == [tracked |-> head, untracked |-> NoFile]

\* The stash may hold an entry that is not the server's.
SnapInit ==
    /\ \E v \in Versions : snapHead = v /\ snapTree = Clean(v)
    /\ snapStash \in {<<>>} \cup {<<c>> : c \in {d \in StashCommits : d.base = snapHead}}
    /\ snapOthers = snapStash
    /\ snapRefs = Nothing /\ snapIndex = Nothing /\ snapTorn = FALSE
    /\ snapOp = SnapIdle
    /\ snapWant = Nothing /\ snapTaken = {} /\ snapBlind = {} /\ snapBack = NoCommit /\ snapEdits = 0

-----------------------------------------------------------------------------
SnapGoes(step) == snapOp' = [snapOp EXCEPT !.step = step]

\* state_snapshot: rev-parse HEAD,
Snapshot(name, all) ==
    /\ snapOp.step = "idle" /\ snapWant[name] = NoCommit
    /\ snapOp' = [step |-> "push", name |-> name, touched |-> FALSE,
                  entry |-> [base |-> snapHead, commit |-> NoCommit, all |-> all]]
    /\ snapBack' = NoCommit
    /\ UNCHANGED <<snapFiles, snapWant, snapTaken, snapBlind, snapOthers, snapEdits>>

SnapBlindIf(lost) == snapBlind' = IF lost THEN snapBlind \cup {snapOp.name} ELSE snapBlind

\* stash push: of a tree without changes, or when it fails, there is no stash commit;
StashPush ==
    /\ snapOp.step = "push"
    /\ snapWant' = [snapWant EXCEPT ![snapOp.name] = snapTree]
    /\ \/ /\ snapTree # Clean(snapHead)
          /\ snapStash' = <<[base |-> snapHead, tree |-> snapTree]>> \o snapStash
          /\ snapTree' = Clean(snapHead)
          /\ snapTaken' = snapTaken \cup {snapOp.name}
          /\ SnapGoes("parse") /\ SnapBlindIf(snapOp.touched)
       \/ \E fails \in BOOLEAN :
             /\ fails \/ snapTree = Clean(snapHead)
             /\ SnapGoes("list") /\ SnapBlindIf(fails \/ snapOp.touched)
             /\ UNCHANGED <<snapTree, snapStash, snapTaken>>
    /\ UNCHANGED <<snapHead, snapRefs, snapIndex, snapTorn, snapOthers, snapBack, snapEdits>>

\* rev-parse stash@{0};
StashParse ==
    /\ snapOp.step = "parse" /\ snapStash # <<>>
    /\ snapOp' = [snapOp EXCEPT !.step = "ref", !.entry.commit = Head(snapStash)]
    /\ UNCHANGED <<snapFiles, snapHistory>>

\* Broken variant: the stash entry is dropped before the commit has its ref.
RefAfterDrop ==
    /\ snapOp.step = "ref"
    /\ snapStash' = Tail(snapStash)
    /\ SnapGoes("apply")
    /\ UNCHANGED <<snapTree, snapHead, snapRefs, snapIndex, snapTorn, snapHistory>>

\* update-ref;
StashRef ==
    /\ snapOp.step = "ref"
    /\ snapRefs' = [snapRefs EXCEPT ![snapOp.name] = snapOp.entry.commit]
    /\ SnapGoes("drop")
    /\ UNCHANGED <<snapTree, snapHead, snapStash, snapIndex, snapTorn, snapHistory>>

\* stash drop;
StashDrop ==
    /\ snapOp.step = "drop" /\ snapStash # <<>>
    /\ snapStash' = Tail(snapStash)
    /\ SnapGoes("apply")
    /\ UNCHANGED <<snapTree, snapHead, snapRefs, snapIndex, snapTorn, snapHistory>>

\* stash apply: git refuses it on a tree with changes of its own.
Applies == snapTree = Clean(snapHead) /\ snapHead = snapOp.entry.commit.base

StashApply ==
    /\ snapOp.step = "apply" /\ Applies
    /\ snapTree' = snapOp.entry.commit.tree
    /\ SnapGoes("list")
    /\ UNCHANGED <<snapHead, snapStash, snapRefs, snapIndex, snapTorn, snapHistory>>

\* The index is loaded, a torn one as an empty one, and truncated,
IndexOpen ==
    /\ snapOp.step = "list"
    /\ snapIndex' = [(IF snapTorn THEN Nothing ELSE snapIndex) EXCEPT ![snapOp.name] = snapOp.entry]
    /\ snapTorn' = TRUE
    /\ SnapGoes("save")
    /\ UNCHANGED <<snapTree, snapHead, snapStash, snapRefs, snapHistory>>

\* and written with the new entry; the client is answered.
IndexSave ==
    /\ snapOp.step = "save"
    /\ snapTorn' = FALSE
    /\ snapOp' = SnapIdle
    /\ UNCHANGED <<snapTree, snapHead, snapStash, snapRefs, snapIndex, snapHistory>>

\* state_restore: an entry of the index,
SnapRestore(name) ==
    /\ snapOp.step = "idle" /\ ~snapTorn /\ snapIndex[name] # NoCommit
    /\ snapOp' = [step |-> "reset", name |-> name, entry |-> snapIndex[name], touched |-> FALSE]
    /\ snapBack' = NoCommit
    /\ UNCHANGED <<snapFiles, snapWant, snapTaken, snapBlind, snapOthers, snapEdits>>

\* Broken variant: what was committed since stays.
ResetKeepsHead ==
    /\ snapOp.step = "reset"
    /\ snapTree' = [snapTree EXCEPT !.tracked = snapHead]
    /\ SnapGoes("clean")
    /\ UNCHANGED <<snapHead, snapStash, snapRefs, snapIndex, snapTorn, snapHistory>>

\* reset --hard;
ResetHard ==
    /\ snapOp.step = "reset"
    /\ snapHead' = snapOp.entry.base
    /\ snapTree' = [snapTree EXCEPT !.tracked = snapOp.entry.base]
    /\ SnapGoes("clean")
    /\ UNCHANGED <<snapStash, snapRefs, snapIndex, snapTorn, snapHistory>>

SnapAnswered == snapBack' = IF snapOp.touched THEN NoCommit ELSE snapOp.name

\* clean -fd; with -x the ignored files go too, and the index file is one.
CleanFd ==
    /\ snapOp.step = "clean"
    /\ snapTree' = [snapTree EXCEPT !.untracked = NoFile]
    /\ snapIndex' = IF snapOp.entry.all THEN Nothing ELSE snapIndex
    /\ IF snapOp.entry.commit = NoCommit
       THEN snapOp' = SnapIdle /\ SnapAnswered
       ELSE SnapGoes("unstash") /\ UNCHANGED snapBack
    /\ UNCHANGED <<snapHead, snapStash, snapRefs, snapTorn, snapWant, snapTaken, snapBlind, snapOthers, snapEdits>>

\* and stash apply.
Unstash ==
    /\ snapOp.step = "unstash" /\ Applies
    /\ snapTree' = snapOp.entry.commit.tree
    /\ snapOp' = SnapIdle /\ SnapAnswered
    /\ UNCHANGED <<snapHead, snapStash, snapRefs, snapIndex, snapTorn, snapWant, snapTaken, snapBlind, snapOthers, snapEdits>>

\* A command fails, or the server dies.
SnapStops ==
    /\ snapOp.step # "idle"
    /\ snapOp' = SnapIdle
    /\ UNCHANGED <<snapFiles, snapHistory>>

Developer ==
    /\ snapEdits < SnapMaxEdits
    /\ snapEdits' = snapEdits + 1
    /\ snapBack' = NoCommit
    /\ snapOp' = IF snapOp.step = "idle" THEN snapOp ELSE [snapOp EXCEPT !.touched = TRUE]
    /\ \/ \E tree \in Trees : snapTree' = tree /\ UNCHANGED snapHead
       \/ snapHead' = snapTree.tracked /\ UNCHANGED snapTree
    /\ UNCHANGED <<snapStash, snapRefs, snapIndex, snapTorn, snapWant, snapTaken, snapBlind, snapOthers>>

SnapNext ==
    \/ StashPush \/ StashParse \/ StashRef \/ StashDrop \/ StashApply \/ IndexOpen \/ IndexSave
    \/ ResetHard \/ CleanFd \/ Unstash \/ SnapStops \/ Developer
    \/ \E n \in SnapNames : SnapRestore(n) \/ \E all \in BOOLEAN : Snapshot(n, all)

SnapSpec == SnapInit /\ [][SnapNext]_snapVars

-----------------------------------------------------------------------------
\* Properties.

\* The stash ends with what others had there.
OthersBelow ==
    LET on == Len(snapStash) - Len(snapOthers) IN
    on >= 0 /\ \A i \in DOMAIN snapOthers : snapStash[on + i] = snapOthers[i]

\* What a snapshot takes off the tree is never lost: after a failure or a crash at
\* any command it is on the stash or under the snapshot's ref; and what others had
\* stashed stays where it was.
NoWorkLost ==
    /\ \A n \in snapTaken :
          \/ \E i \in DOMAIN snapStash : snapStash[i].tree = snapWant[n]
          \/ snapRefs[n] # NoCommit /\ snapRefs[n].tree = snapWant[n]
    /\ OthersBelow

\* A restore that was answered, with no edit of another's in the middle, has brought
\* back the tree the snapshot was asked for, whatever was edited or committed since,
\* unless the snapshot's stash push failed, which goes unnoticed.
RestoreExact ==
    snapBack # NoCommit /\ snapBack \notin snapBlind => snapTree = snapWant[snapBack]

-----------------------------------------------------------------------------
\* An operation in progress has its name and entry, and a commit where it uses one.
SnapShape ==
    /\ snapOp.step # "idle" => snapOp.name \in SnapNames /\ snapOp.entry \in Entries
    /\ snapOp.step \in {"ref", "drop", "apply", "unstash"} => snapOp.entry.commit \in StashCommits

\* What makes NoWorkLost inductive: while a snapshot deals with the stash, the
\* entry on top is its own, it has a ref before the drop, and nobody else's work
\* is in that entry only.
OnTop ==
    snapOp.step \in {"parse", "ref", "drop"} =>
        /\ Len(snapStash) > Len(snapOthers)
        /\ snapStash[1].tree = snapWant[snapOp.name]
        /\ snapOp.step # "parse" => snapOp.entry.commit = snapStash[1]
        /\ snapOp.step = "drop" => snapRefs[snapOp.name] = snapStash[1]
        /\ \A n \in snapTaken \ {snapOp.name} :
              \/ \E i \in 2..Len(snapStash) : snapStash[i].tree = snapWant[n]
              \/ snapRefs[n] # NoCommit /\ snapRefs[n].tree = snapWant[n]

\* A snapshot that has not come to its push has taken nothing.
PushOnce ==
    /\ \A n \in snapTaken : snapWant[n] # NoCommit
    /\ snapOp.step = "push" => snapWant[snapOp.name] = NoCommit

SnapIInv == SnapTypeOK /\ SnapShape /\ NoWorkLost /\ OnTop /\ PushOnce

\* What makes RestoreExact inductive: an entry of the index, and that of an operation
\* past its push, stands for the tree the snapshot was asked for.
StandsFor(n, e) ==
    n \notin snapBlind =>
        /\ snapWant[n] # NoCommit
        /\ snapWant[n] = IF e.commit = NoCommit THEN Clean(e.base) ELSE e.commit.tree

EntriesStand ==
    /\ \A n \in SnapNames : snapIndex[n] # NoCommit => StandsFor(n, snapIndex[n])
    /\ snapOp.step \notin {"idle", "push", "parse"} => StandsFor(snapOp.name, snapOp.entry)

\* An operation nobody edits under finds what its last command left.
Undisturbed ==
    /\ snapOp.step # "idle" => snapBack = NoCommit
    /\ snapOp.step = "push" => snapOp.entry.commit = NoCommit
    /\ snapOp.step = "push" /\ ~snapOp.touched => snapHead = snapOp.entry.base
    /\ snapOp.step = "clean" /\ ~snapOp.touched => snapTree.tracked = snapOp.entry.base

ExactInv == SnapIInv /\ EntriesStand /\ Undisturbed /\ RestoreExact
=============================================================================
