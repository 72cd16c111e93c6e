----------------------------- MODULE StatusFile -----------------------------
(***************************************************************************)
(* One workflow-task status file, .codebase-tooling-mcp/tasks/<id>.json,   *)
(* at the level of the file system calls that                              *)
(* _write_workflow_task_status and _read_workflow_task_status make:        *)
(* open-and-truncate the temporary file, write it, rename it over the      *)
(* status file; open the status file, read it.  Every writer of a task,    *)
(* the event loop and each of its workers, uses the SAME temporary name    *)
(* (path.with_suffix(".json.tmp")), so two of them may be at it at a time. *)
(***************************************************************************)
EXTENDS Naturals, FiniteSets

CONSTANTS
    Writers,    \* threads that may persist a status: the event loop, the task's workers
    Readers,    \* threads that read it back
    Values,     \* whole status documents
    Inodes,     \* files of the file system
    NoValue,    \* the status file does not exist
    NoInode

ASSUME NotAValue == NoValue \notin Values
ASSUME NotAnInode == NoInode \notin Inodes

Empty == "empty"      \* truncated, nothing written yet
Mixed == "mixed"      \* two documents written over one another, or a part of one

Content == Values \cup {Empty, Mixed}

ASSUME WholeDocuments == {Empty, Mixed} \cap Values = {} /\ NoValue \notin {Empty, Mixed}

VARIABLES
    dir,        \* the directory: which inode each of the two names refers to
    data,       \* contents of every inode
    wpc, wfd, wval,     \* each writer: its next call, its open file, its document
    rpc, rfd, rval,     \* each reader: its next call, its open file, what it got
    contended,  \* history: two writes have overlapped, and the last of them is not over
    doubtful    \* history: each reader's file was contended or unreadable when it opened it

vars == <<dir, data, wpc, wfd, wval, rpc, rfd, rval, contended, doubtful>>

Names == {"tmp", "path"}

TypeOK ==
    /\ dir \in [Names -> Inodes \cup {NoInode}]
    /\ data \in [Inodes -> Content]
    /\ wpc \in [Writers -> {"idle", "write", "replace"}]
    /\ wfd \in [Writers -> Inodes \cup {NoInode}]
    /\ wval \in [Writers -> Values \cup {NoValue}]
    /\ rpc \in [Readers -> {"idle", "read"}]
    /\ rfd \in [Readers -> Inodes \cup {NoInode}]
    /\ rval \in [Readers -> Content \cup {NoValue}]
    /\ contended \in BOOLEAN
    /\ doubtful \in [Readers -> BOOLEAN]

Init ==
    /\ dir = [n \in Names |-> NoInode]
    /\ data = [i \in Inodes |-> Empty]
    /\ wpc = [w \in Writers |-> "idle"]
    /\ wfd = [w \in Writers |-> NoInode]
    /\ wval = [w \in Writers |-> NoValue]
    /\ rpc = [r \in Readers |-> "idle"]
    /\ rfd = [r \in Readers |-> NoInode]
    /\ rval = [r \in Readers |-> NoValue]
    /\ contended = FALSE
    /\ doubtful = [r \in Readers |-> FALSE]

-----------------------------------------------------------------------------
\* An inode no name and no open file refers to.
Unused(i) ==
    /\ \A n \in Names : dir[n] # i
    /\ \A w \in Writers : wfd[w] # i
    /\ \A r \in Readers : rfd[r] # i

\* What a reader that opens the status file now will find in it.
Published == IF dir["path"] = NoInode THEN NoValue ELSE data[dir["path"]]

\* The writers that are between open and rename, and the history they leave: an
\* overlap begins when one opens beside another and ends with the last of them.
Busy == {w \in Writers : wpc[w] # "idle"}

Overlaps == contended' = (contended \/ Busy # {})

Ends(w) == contended' = (contended /\ Busy \ {w} # {})

\* Broken variant: the status file is opened and truncated itself.
OpenInPlace(w, v) ==
    /\ wpc[w] = "idle"
    /\ \E i \in Inodes :
        /\ IF dir["path"] = NoInode THEN Unused(i) ELSE i = dir["path"]
        /\ dir' = [dir EXCEPT !["path"] = i]
        /\ data' = [data EXCEPT ![i] = Empty]
        /\ wfd' = [wfd EXCEPT ![w] = i]
    /\ wval' = [wval EXCEPT ![w] = v]
    /\ wpc' = [wpc EXCEPT ![w] = "write"]
    /\ Overlaps
    /\ UNCHANGED <<rpc, rfd, rval, doubtful>>

\* open(tmp, "w"): create the temporary file or truncate the one that is there.
OpenTmp(w, v) ==
    /\ wpc[w] = "idle"
    /\ \E i \in Inodes :
        /\ IF dir["tmp"] = NoInode THEN Unused(i) ELSE i = dir["tmp"]
        /\ dir' = [dir EXCEPT !["tmp"] = i]
        /\ data' = [data EXCEPT ![i] = Empty]
        /\ wfd' = [wfd EXCEPT ![w] = i]
    /\ wval' = [wval EXCEPT ![w] = v]
    /\ wpc' = [wpc EXCEPT ![w] = "write"]
    /\ Overlaps
    /\ UNCHANGED <<rpc, rfd, rval, doubtful>>

\* write(): the document goes to the open file, at offset 0.  Over another
\* document it may leave the tail of a longer one behind.
WriteTmp(w) ==
    /\ wpc[w] = "write"
    /\ \E c \in {wval[w]} \cup (IF data[wfd[w]] = Empty THEN {} ELSE {Mixed}) :
        data' = [data EXCEPT ![wfd[w]] = c]
    /\ wfd' = [wfd EXCEPT ![w] = NoInode]
    /\ wpc' = [wpc EXCEPT ![w] = "replace"]
    /\ UNCHANGED <<dir, wval, rpc, rfd, rval, contended, doubtful>>

\* write() fails, or the document cannot be encoded: what reached the file stays
\* in it, the exception passes the rename by.
WriteFails(w) ==
    /\ wpc[w] = "write"
    /\ \E c \in {data[wfd[w]], Mixed} : data' = [data EXCEPT ![wfd[w]] = c]
    /\ wfd' = [wfd EXCEPT ![w] = NoInode]
    /\ wval' = [wval EXCEPT ![w] = NoValue]
    /\ wpc' = [wpc EXCEPT ![w] = "idle"]
    /\ Ends(w)
    /\ UNCHANGED <<dir, rpc, rfd, rval, doubtful>>

\* Broken variant: the old status file is unlinked first, then tmp is renamed.
UnlinkThenRename(w) ==
    /\ wpc[w] = "replace"
    /\ IF dir["path"] # NoInode
       THEN /\ dir' = [dir EXCEPT !["path"] = NoInode]
            /\ UNCHANGED <<wpc, wval, contended>>
       ELSE /\ dir' = [dir EXCEPT !["path"] = dir["tmp"], !["tmp"] = NoInode]
            /\ wpc' = [wpc EXCEPT ![w] = "idle"]
            /\ wval' = [wval EXCEPT ![w] = NoValue]
            /\ Ends(w)
    /\ UNCHANGED <<data, wfd, rpc, rfd, rval, doubtful>>

\* tmp.replace(path), which raises FileNotFoundError when tmp is gone.
Replace(w) ==
    /\ wpc[w] = "replace"
    /\ dir' = IF dir["tmp"] = NoInode THEN dir
              ELSE [dir EXCEPT !["path"] = dir["tmp"], !["tmp"] = NoInode]
    /\ wpc' = [wpc EXCEPT ![w] = "idle"]
    /\ wval' = [wval EXCEPT ![w] = NoValue]
    /\ Ends(w)
    /\ UNCHANGED <<data, wfd, rpc, rfd, rval, doubtful>>

\* path.exists(), then open(path): a missing file is reported as such.
OpenStatus(r) ==
    /\ rpc[r] = "idle"
    /\ dir["path"] # NoInode
    /\ rfd' = [rfd EXCEPT ![r] = dir["path"]]
    /\ rval' = [rval EXCEPT ![r] = NoValue]
    /\ rpc' = [rpc EXCEPT ![r] = "read"]
    /\ doubtful' = [doubtful EXCEPT ![r] = contended \/ Published \notin Values]
    /\ UNCHANGED <<dir, data, wpc, wfd, wval, contended>>

\* read() of the file that was opened, whatever name refers to it by now.
ReadStatus(r) ==
    /\ rpc[r] = "read"
    /\ rval' = [rval EXCEPT ![r] = data[rfd[r]]]
    /\ rfd' = [rfd EXCEPT ![r] = NoInode]
    /\ rpc' = [rpc EXCEPT ![r] = "idle"]
    /\ UNCHANGED <<dir, data, wpc, wfd, wval, contended, doubtful>>

\* The server process dies and is started again: open files are closed, the
\* two names and the contents stay as they are.
Crash ==
    /\ wpc' = [w \in Writers |-> "idle"]
    /\ wfd' = [w \in Writers |-> NoInode]
    /\ wval' = [w \in Writers |-> NoValue]
    /\ rpc' = [r \in Readers |-> "idle"]
    /\ rfd' = [r \in Readers |-> NoInode]
    /\ rval' = [r \in Readers |-> NoValue]
    /\ contended' = FALSE
    /\ doubtful' = [r \in Readers |-> FALSE]
    /\ UNCHANGED <<dir, data>>

Next ==
    \/ \E w \in Writers, v \in Values : OpenTmp(w, v)
    \/ \E w \in Writers : WriteTmp(w)
    \/ \E w \in Writers : WriteFails(w)
    \/ \E w \in Writers : Replace(w)
    \/ \E r \in Readers : OpenStatus(r)
    \/ \E r \in Readers : ReadStatus(r)
    \/ Crash

Spec == Init /\ [][Next]_vars

-----------------------------------------------------------------------------
\* A reader never gets a status document that is empty, cut off or spliced out of
\* two (json.loads in _read_workflow_task_status would raise) from a file that was
\* whole and not contended when it opened it: neither a write that fails, nor the
\* death of the server, nor writers that overlap by the time it reads reach the
\* file it holds.
WholeReads ==
    \A r \in Readers : ~doubtful[r] => rval[r] \in Values \cup {NoValue}

\* The promise the callers rely on, whatever the number of writers: a register that
\* is written in one step as long as writes do not overlap, that only overlapping
\* writes can garble, and that a whole document replaces again; once written it is
\* never absent, also across crashes and failing writes.
Register == INSTANCE AtomicRegister WITH reg <- Published, Garbled <- {Empty, Mixed}
RegisterSpec == Register!Spec

-----------------------------------------------------------------------------
\* What makes the properties above inductive.

\* The two names never refer to the same file.
NamesApart == dir["path"] # NoInode => dir["path"] # dir["tmp"]

\* An open file belongs to a writer that is about to write.
OpenFiles ==
    \A w \in Writers :
        /\ wpc[w] = "write" => wfd[w] \in Inodes /\ wval[w] \in Values
        /\ wpc[w] # "write" => wfd[w] = NoInode

\* While writes do not overlap there is one writer at most; it works on the file
\* named tmp, which is empty until it has written.
WriterOnTmp ==
    ~contended =>
        /\ \A w, x \in Busy : w = x
        /\ \A w \in Writers :
            /\ wpc[w] = "write" => /\ dir["tmp"] \in Inodes
                                   /\ wfd[w] = dir["tmp"]
                                   /\ data[dir["tmp"]] = Empty
            /\ wpc[w] = "replace" => /\ dir["tmp"] \in Inodes
                                     /\ data[dir["tmp"]] \in Values

\* A reader that is not doubtful holds a whole file that nobody will write to again.
ReaderOffTmp ==
    \A r \in Readers :
        /\ rpc[r] = "read" => /\ rfd[r] \in Inodes
                              /\ rfd[r] # dir["tmp"]
        /\ rpc[r] = "read" /\ ~doubtful[r] => /\ data[rfd[r]] \in Values
                                              /\ \A w \in Writers : wfd[w] # rfd[r]
        /\ rpc[r] = "idle" => rfd[r] = NoInode
        /\ ~doubtful[r] => rval[r] \in Values \cup {NoValue}

IInv == TypeOK /\ NamesApart /\ OpenFiles /\ WriterOnTmp /\ ReaderOffTmp
=============================================================================
