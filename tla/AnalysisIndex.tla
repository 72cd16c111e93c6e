--------------------------- MODULE AnalysisIndex ---------------------------
(***************************************************************************)
(* Analyses of the Python files of the work tree (symbol_index,            *)
(* dependency_map and, built like the first, call_graph and                *)
(* tree_sitter_core in src/source/server.py), the cache file they share    *)
(* (_cache_get, _cache_set, cache_control) and the repository index that   *)
(* repo_index_daemon builds from them.                                     *)
(*                                                                         *)
(* An analysis is cached under the hashes of the files it is about; the    *)
(* index is only computed again when size or time of a Python file has     *)
(* changed.  Operations run one at a time, but editors and git change the  *)
(* tree while one runs, and the server may die in the middle of a save.    *)
(***************************************************************************)
EXTENDS Subsequences, FiniteSets

CONSTANTS
    IdxFiles,      \* paths: numbers, in the order of the walk
    IdxPython,     \* those that end in .py
    IdxRoots,      \* what path= selects: sets of files
    IdxTexts,      \* contents of a file
    Gone,          \* there is no such file
    PrintMax,      \* how many files symbol_index hashes at most
    CacheMax,      \* max_entries of _cache_set
    DepsMax,       \* max_files of dependency_map
    ListMax,       \* max_files of repo_index_daemon
    CompactMax,    \* how many files the compact form of the index lists
    SymMax,        \* how many symbols a refresh gets: a file stands for one
    EdgeMax,       \* how many dependencies it gets: a file stands for one
    NoPayload,     \* no index file, or one that is not JSON
    IdxMaxEdits,   \* bound on edits
    IdxMaxCalls    \* bound on calls of tools

ASSUME IdxAssumption ==
    /\ IdxFiles \subseteq Nat /\ IsFiniteSet(IdxFiles) /\ IdxPython \subseteq IdxFiles /\ IdxRoots \subseteq SUBSET IdxFiles
    /\ Gone \notin IdxTexts
    /\ {PrintMax, CacheMax, DepsMax, ListMax, CompactMax, SymMax, EdgeMax} \subseteq Nat \ {0}
    /\ {IdxMaxEdits, IdxMaxCalls} \subseteq Nat

VARIABLES
    idxTree,     \* the work tree: content and modification stamp of each path
    idxCache,    \* tool_cache.json: per tool its rows, by updated_at, oldest first
    idxIndex,    \* repo_index.json
    idxOp,       \* the analysis in progress
    idxJob,      \* the refresh in progress
    idxEdits,    \* history: edits so far
    idxCalls,    \* history: calls so far
    idxRaced,    \* history: cache keys under which a tree edited meanwhile was analysed
    idxEdited    \* history: the tree was edited, or the server died, since the last refresh began

idxVars == <<idxTree, idxCache, idxIndex, idxOp, idxJob, idxEdits, idxCalls, idxRaced, idxEdited>>

IdxTools == {"symbols", "deps"}
IdxProfiles == {"compact", "normal", "verbose"}
IdxTree == [IdxFiles -> [text : IdxTexts \cup {Gone}, stamp : 0..IdxMaxEdits]]
Found == UNION {[fs -> IdxTexts] : fs \in SUBSET IdxPython}
Stats == UNION {[fs -> 0..IdxMaxEdits] : fs \in SUBSET IdxFiles}
IdxKeys == [root : IdxRoots, print : Found]
\* kept: the profile was verbose, so the index has symbols and dependencies.
\* read: history, the Python files as the analysis found them that it goes back to.
\* why: history, where the index did not come from an analysis of its own tree.
Payload == [root : IdxRoots, files : Stats, symbols : Found, edges : Found, kept : BOOLEAN,
            read : Found, why : SUBSET {"root", "deleted", "dropped", "raced"}]
NoneFound == [f \in {} |-> Gone]

IdxIdle == [step |-> "idle"]
\* want: history, what an analysis would find when the call begins.
IdxCall == [step : {"read", "fill", "answer"}, tool : IdxTools, key : IdxKeys,
            value : Found, want : Found]

IdxTypeOK ==
    /\ idxTree \in IdxTree
    /\ idxCache \in [IdxTools -> Seq([key : IdxKeys, value : Found])]
    /\ \A tool \in IdxTools : Len(idxCache[tool]) <= CacheMax
    /\ idxIndex \in Payload \cup {NoPayload}
    /\ idxOp \in IdxCall \cup {IdxIdle}
    /\ \/ idxJob = IdxIdle
       \/ idxJob \in [step : {"symbols", "deps", "fill"}, payload : Payload]
    /\ idxEdits \in 0..IdxMaxEdits /\ idxCalls \in 0..IdxMaxCalls /\ idxRaced \subseteq IdxKeys
    /\ idxEdited \in BOOLEAN

NoRows == [tool \in IdxTools |-> <<>>]

IdxInit ==
    /\ idxTree \in {t \in IdxTree : \A f \in IdxFiles : t[f].stamp = 0}
    /\ idxCache = NoRows /\ idxIndex = NoPayload
    /\ idxOp = IdxIdle /\ idxJob = IdxIdle
    /\ idxEdits = 0 /\ idxCalls = 0 /\ idxRaced = {} /\ idxEdited = FALSE

-----------------------------------------------------------------------------
\* A client calls a tool.
BeginCall == idxOp = IdxIdle /\ idxJob = IdxIdle /\ idxCalls < IdxMaxCalls /\ idxCalls' = idxCalls + 1

\* _iter_candidate_files: the files there are below the root, in order; the first n.
\* What is hidden it leaves out itself, so that the walks see the same files.
Present(tree, root) == {f \in root : tree[f].text # Gone}
First(fs, n) == {f \in fs : Cardinality({g \in fs : g < f}) < n}
Python(tree, root) == Present(tree, root) \cap IdxPython

\* What an analysis reads: dependency_map stops after max_files, symbol_index does not.
Scope(tool, tree, root) ==
    IF tool = "deps" THEN First(Python(tree, root), DepsMax) ELSE Python(tree, root)
Analysis(tool, tree, root) == [f \in Scope(tool, tree, root) |-> tree[f].text]

\* Broken variant: the fingerprint is made of the names.
FingerprintNames(tool, tree, root) ==
    [f \in First(Python(tree, root), IF tool = "deps" THEN DepsMax ELSE PrintMax) |->
        CHOOSE t \in IdxTexts : TRUE]

\* _fingerprint_path: names and hashes of the first files.
Fingerprint(tool, tree, root) ==
    [f \in First(Python(tree, root), IF tool = "deps" THEN DepsMax ELSE PrintMax) |-> tree[f].text]

\* An analysis is asked for, by a client or by a refresh: the fingerprint, and
\* _cache_get, whose row answers if there is one.
StartCall(tool, root) ==
    LET key == [root |-> root, print |-> Fingerprint(tool, idxTree, root)]
        rows == {r \in Range(idxCache[tool]) : r.key = key}
        call == [step |-> "read", tool |-> tool, key |-> key, value |-> NoneFound,
                 want |-> Analysis(tool, idxTree, root)]
    IN idxOp' = IF rows = {} THEN call
                ELSE [call EXCEPT !.step = "answer", !.value = (CHOOSE r \in rows : TRUE).value]

Ask(tool, root) ==
    /\ BeginCall
    /\ StartCall(tool, root)
    /\ UNCHANGED <<idxTree, idxCache, idxIndex, idxJob, idxEdits, idxRaced, idxEdited>>

\* Otherwise the files are read, as they are by now, and _cache_set truncates the
\* cache file: should the server die before it is filled, it counts as empty.
Analyse ==
    /\ idxOp.step = "read"
    /\ LET found == Analysis(idxOp.tool, idxTree, idxOp.key.root)
       IN /\ idxOp' = [idxOp EXCEPT !.step = "fill", !.value = found]
          /\ idxRaced' = IF found = idxOp.want THEN idxRaced ELSE idxRaced \cup {idxOp.key}
    /\ UNCHANGED <<idxTree, idxCache, idxIndex, idxJob, idxEdits, idxCalls, idxEdited>>

\* Broken variant: nothing is evicted.
CachedAll(rows, row) == Append(Only(rows, {r \in Range(rows) : r.key # row.key}), row)

\* _cache_set: the row is the newest of its tool, the oldest go.
Cached(rows, row) ==
    LET all == Append(Only(rows, {r \in Range(rows) : r.key # row.key}), row)
    IN SubSeq(all, IF Len(all) > CacheMax THEN Len(all) - CacheMax + 1 ELSE 1, Len(all))

CacheFill ==
    /\ idxOp.step = "fill"
    /\ idxCache' = [idxCache EXCEPT ![idxOp.tool] = Cached(@, [key |-> idxOp.key, value |-> idxOp.value])]
    /\ idxOp' = [idxOp EXCEPT !.step = "answer"]
    /\ UNCHANGED <<idxTree, idxIndex, idxJob, idxEdits, idxCalls, idxRaced, idxEdited>>

\* The first rows of a list.
Cut(rows, n) == [f \in First(DOMAIN rows, n) |-> rows[f]]

\* What an index takes of an analysis: its first rows, or none but for a verbose one.
Indexed(p, rows, n) == IF p.kept THEN Cut(rows, n) ELSE NoneFound

\* The client is answered, or the refresh, whose calls ask for the compact form, goes
\* on with the first rows of what was found; with both it truncates the index file.
Answer ==
    /\ idxOp.step = "answer"
    /\ IF idxJob = IdxIdle
       THEN idxOp' = IdxIdle /\ UNCHANGED <<idxJob, idxIndex>>
       ELSE LET why == idxJob.payload.why \cup IF idxEdited \/ idxOp.key \in idxRaced THEN {"raced"} ELSE {}
            IN IF idxOp.tool = "symbols"
               THEN /\ idxJob' = [idxJob EXCEPT !.step = "deps", !.payload.why = why,
                                    !.payload.read = idxOp.value,
                                    !.payload.symbols = Indexed(idxJob.payload, idxOp.value, SymMax)]
                    /\ StartCall("deps", idxJob.payload.root)
                    /\ UNCHANGED idxIndex
               ELSE /\ idxIndex' = NoPayload
                    /\ idxJob' = [idxJob EXCEPT !.step = "fill", !.payload.why = why,
                                    !.payload.edges = Indexed(idxJob.payload, idxOp.value, EdgeMax)]
                    /\ idxOp' = IdxIdle
    /\ UNCHANGED <<idxTree, idxCache, idxEdits, idxCalls, idxRaced, idxEdited>>

\* cache_control for one tool or for all: prune takes the rows before a moment, clear
\* all of them.  Its save is in place too: all rows of all tools are gone as well
\* should the server die in the middle of it.
CacheControl(tools) ==
    /\ BeginCall
    /\ \E n \in [tools -> 0..CacheMax] :
          idxCache' = [tool \in IdxTools |->
              IF tool \in tools THEN SubSeq(idxCache[tool], n[tool] + 1, Len(idxCache[tool]))
              ELSE idxCache[tool]]
    /\ UNCHANGED <<idxTree, idxIndex, idxOp, idxJob, idxEdits, idxRaced, idxEdited>>

-----------------------------------------------------------------------------
Changed(files) ==
    {f \in DOMAIN files : f \notin DOMAIN idxIndex.files \/ idxIndex.files[f] # files[f]}

\* Broken variant: a path the index does not know is not a change.
ReusableKnown(incremental, files) ==
    /\ incremental /\ idxIndex # NoPayload
    /\ {f \in Changed(files) : f \in DOMAIN idxIndex.files} \cap IdxPython = {}

\* reuse_prev_graphs: none of the Python files it lists has another size or time.
Reusable(incremental, files) ==
    incremental /\ idxIndex # NoPayload /\ Changed(files) \cap IdxPython = {}

\* What may be wrong with an index that was taken over.
TakenOver(root, files) ==
    (IF idxIndex.root # root THEN {"root"} ELSE {})
    \cup (IF DOMAIN idxIndex.read \subseteq Present(idxTree, root) THEN {} ELSE {"deleted"})
    \cup (IF idxIndex.kept THEN {} ELSE {"dropped"})

\* repo_index_daemon(mode=refresh): the index is loaded and the files are listed; their
\* analyses are asked for, or, whatever the index has of them, taken from it, whose
\* file is then truncated.
Refresh(root, profile, incremental) ==
    /\ BeginCall
    /\ LET files == [f \in First(Present(idxTree, root), ListMax) |-> idxTree[f].stamp]
           fresh == [root |-> root, kept |-> profile = "verbose", why |-> {},
                     files |-> IF profile = "compact" THEN Cut(files, CompactMax) ELSE files,
                     read |-> NoneFound, symbols |-> NoneFound, edges |-> NoneFound]
       IN IF Reusable(incremental, files)
          THEN /\ idxIndex' = NoPayload
               /\ idxJob' = [step |-> "fill", payload |->
                                [fresh EXCEPT !.read = idxIndex.read,
                                              !.symbols = IF fresh.kept THEN idxIndex.symbols ELSE @,
                                              !.edges = IF fresh.kept THEN idxIndex.edges ELSE @,
                                              !.why = idxIndex.why \cup TakenOver(root, files)]]
               /\ UNCHANGED idxOp
          ELSE /\ idxJob' = [step |-> "symbols", payload |-> fresh]
               /\ StartCall("symbols", root)
               /\ UNCHANGED idxIndex
    /\ idxEdited' = FALSE
    /\ UNCHANGED <<idxTree, idxCache, idxEdits, idxRaced>>

\* The index file is filled.
IndexFillFile ==
    /\ idxJob.step = "fill"
    /\ idxIndex' = idxJob.payload
    /\ idxJob' = IdxIdle
    /\ UNCHANGED <<idxTree, idxCache, idxOp, idxEdits, idxCalls, idxRaced, idxEdited>>

IdxCrash ==
    /\ idxOp # IdxIdle \/ idxJob # IdxIdle
    /\ idxCache' = IF idxOp.step = "fill" THEN NoRows ELSE idxCache
    /\ idxOp' = IdxIdle /\ idxJob' = IdxIdle
    /\ idxEdited' = TRUE
    /\ UNCHANGED <<idxTree, idxIndex, idxEdits, idxCalls, idxRaced>>

\* A file is written, created or deleted.
IdxEdit(f, text) ==
    /\ idxEdits < IdxMaxEdits /\ text # idxTree[f].text
    /\ idxEdits' = idxEdits + 1
    /\ idxTree' = [idxTree EXCEPT ![f] = [text |-> text, stamp |-> idxEdits + 1]]
    /\ idxEdited' = TRUE
    /\ UNCHANGED <<idxCache, idxIndex, idxOp, idxJob, idxCalls, idxRaced>>

IdxNext ==
    \/ Analyse \/ CacheFill \/ Answer \/ IndexFillFile \/ IdxCrash
    \/ \E tools \in SUBSET IdxTools : CacheControl(tools)
    \/ \E tool \in IdxTools, root \in IdxRoots : Ask(tool, root)
    \/ \E root \in IdxRoots, profile \in IdxProfiles, incremental \in BOOLEAN :
          Refresh(root, profile, incremental)
    \/ \E f \in IdxFiles, text \in IdxTexts \cup {Gone} : IdxEdit(f, text)

IdxSpec == IdxInit /\ [][IdxNext]_idxVars

-----------------------------------------------------------------------------
\* Properties.

\* A fingerprint of fewer files than it may have is one of all files.
Hashed(tree, root) == Cardinality(Python(tree, root)) < PrintMax

\* An analysis, cached or not, is that of the files as they were when it was asked
\* for, if they were all hashed and none was edited between the hashing and the
\* reading, in this call or in the one that filled the cache.
AnswerIsCurrent ==
    idxOp.step = "answer" /\ idxOp.key \notin idxRaced
        /\ (idxOp.tool = "symbols" => Cardinality(DOMAIN idxOp.key.print) < PrintMax)
        => idxOp.value = idxOp.want

\* A verbose index that was refreshed after the last edit has the first symbols and
\* dependencies of its tree as it is, also when it was not computed again, unless it
\* was taken over from another root, from an index that had dropped them, or after a
\* Python file was deleted.
IndexIsCurrent ==
    idxIndex # NoPayload /\ idxJob = IdxIdle /\ ~idxEdited /\ Hashed(idxTree, idxIndex.root)
        /\ Cardinality(Present(idxTree, idxIndex.root)) <= ListMax
        /\ idxIndex.kept /\ idxIndex.why = {}
        => /\ idxIndex.symbols = Cut(Analysis("symbols", idxTree, idxIndex.root), SymMax)
           /\ idxIndex.edges = Cut(Analysis("deps", idxTree, idxIndex.root), EdgeMax)
-----------------------------------------------------------------------------
(***************************************************************************)
(* Why they hold.  An answer extends the hashes of its key, and equals     *)
(* them when all files were hashed; what an index knows of a path is true  *)
(* of it as long as the path has the stamp that the index has noted.       *)
(***************************************************************************)

\* All files were hashed.
Sure(tool, key) == tool = "symbols" => Cardinality(DOMAIN key.print) < PrintMax

AnswersFor(tool, key, value) ==
    /\ DOMAIN key.print \subseteq DOMAIN value
    /\ \A f \in DOMAIN key.print : value[f] = key.print[f]
    /\ Sure(tool, key) => value = key.print

RowsAnswer ==
    \A tool \in IdxTools : \A i \in DOMAIN idxCache[tool] :
        LET row == idxCache[tool][i]
        IN row.key \notin idxRaced => AnswersFor(tool, row.key, row.value)

CallAnswers ==
    idxOp # IdxIdle =>
        /\ AnswersFor(idxOp.tool, idxOp.key, idxOp.want)
        /\ idxOp.step = "fill" /\ idxOp.key \notin idxRaced => idxOp.value = idxOp.want
        /\ idxOp.step = "answer" /\ idxOp.key \notin idxRaced
              => AnswersFor(idxOp.tool, idxOp.key, idxOp.value)

\* A refresh asks for one analysis after the other.
Phases ==
    idxJob # IdxIdle =>
        /\ idxJob.step = "fill" => idxOp = IdxIdle
        /\ idxJob.step # "fill" => idxOp # IdxIdle /\ idxOp.tool = idxJob.step

\* An edit makes a stamp that nobody has noted.
Stamps ==
    /\ \A f \in IdxFiles : idxTree[f].stamp <= idxEdits
    /\ idxIndex # NoPayload => \A f \in DOMAIN idxIndex.files : idxIndex.files[f] <= idxEdits
    /\ idxJob # IdxIdle => \A f \in DOMAIN idxJob.payload.files : idxJob.payload.files[f] <= idxEdits

\* The analysis is that of all files.
Whole(p) == p.why \subseteq {"dropped"} /\ Cardinality(DOMAIN p.read) < PrintMax

\* What the refresh in progress has listed and asked for is true of the tree.
Asked ==
    idxJob # IdxIdle /\ ~idxEdited =>
        LET p == idxJob.payload
        IN /\ DOMAIN p.files \subseteq Present(idxTree, p.root)
           /\ idxOp # IdxIdle => idxOp.want = Analysis(idxOp.tool, idxTree, p.root)
           /\ idxJob.step = "deps" /\ Whole(p) => p.read = Analysis("symbols", idxTree, p.root)

\* What an index goes back to of the Python files it has listed.
FilesFit(p) ==
    Whole(p) =>
        \A f \in DOMAIN p.files \cap IdxPython :
            /\ f \in DOMAIN p.read
            /\ idxTree[f].stamp = p.files[f] => idxTree[f].text = p.read[f]

\* What it has of it.
SymbolsFit(p) == p.kept /\ p.why = {} => p.symbols = Cut(p.read, SymMax)
EdgesFit(p) == p.kept /\ p.why = {} /\ Whole(p) => p.edges = Cut(Cut(p.read, DepsMax), EdgeMax)

\* It goes back to the files as they are.
Current(p) ==
    /\ ~idxEdited /\ p.why \subseteq {"dropped"} /\ Hashed(idxTree, p.root)
    /\ Cardinality(Present(idxTree, p.root)) <= ListMax
    => p.read = Analysis("symbols", idxTree, p.root)

IndexFits ==
    /\ idxIndex # NoPayload =>
          /\ FilesFit(idxIndex) /\ SymbolsFit(idxIndex) /\ EdgesFit(idxIndex)
          /\ idxJob = IdxIdle => Current(idxIndex)
    /\ idxJob # IdxIdle /\ idxJob.step # "symbols" =>
          /\ FilesFit(idxJob.payload) /\ SymbolsFit(idxJob.payload) /\ Current(idxJob.payload)
          /\ idxJob.step = "fill" => EdgesFit(idxJob.payload)

IdxIInv ==
    /\ IdxTypeOK /\ RowsAnswer /\ CallAnswers
    /\ Phases /\ Stamps /\ Asked /\ IndexFits
=============================================================================
