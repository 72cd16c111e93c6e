--------------------------- MODULE StorageProofs ---------------------------
(***************************************************************************)
(* Theorems about what the server keeps in files and caches: the status    *)
(* files of tasks, which implement an atomic register; the memory store, for*)
(* any keys, topics and limits; and the repository index with the tool     *)
(* cache, for any files, roots, texts and bounds.                          *)
(***************************************************************************)
EXTENDS StatusFile, MemoryStore, AnalysisIndex, SubsequenceProofs, FiniteSetTheorems

-----------------------------------------------------------------------------
(***************************************************************************)
(* Status files.  For any number of writers of one temporary name: the file*)
(* is an atomic register that only overlapping writes can garble, and a    *)
(* read that began on a whole, uncontended file is whole, across any number*)
(* of crashes and failing writes.                                          *)
(***************************************************************************)

LEMMA InitIInv == Init => IInv
  BY NotAValue, NotAnInode
     DEF Init, IInv, TypeOK, NamesApart, OpenFiles, WriterOnTmp, ReaderOffTmp, Names, Content, Busy

\* Opening the temporary file touches neither the status file nor a file a reader holds.
LEMMA OpenTmpIInv ==
  ASSUME IInv, NEW w \in Writers, NEW v \in Values, OpenTmp(w, v)
  PROVE  IInv' /\ Published' = Published
<1>1. PICK i \in Inodes :
        /\ IF dir["tmp"] = NoInode THEN Unused(i) ELSE i = dir["tmp"]
        /\ dir' = [dir EXCEPT !["tmp"] = i]
        /\ data' = [data EXCEPT ![i] = Empty]
        /\ wfd' = [wfd EXCEPT ![w] = i]
  BY DEF OpenTmp
<1>2. contended' = (contended \/ Busy # {}) /\ Busy' = Busy \cup {w}
  BY DEF OpenTmp, Overlaps, Busy, IInv, TypeOK
<1>3. TypeOK'
  <2>1. contended' \in BOOLEAN
    BY <1>2 DEF IInv, TypeOK
  <2> QED
    BY <1>1, <2>1 DEF OpenTmp, IInv, TypeOK, Names, Content
<1>4. i # dir["path"] /\ \A r \in Readers : rfd[r] # i
  BY <1>1, NotAnInode DEF IInv, TypeOK, NamesApart, ReaderOffTmp, Unused, Names
<1>5. NamesApart' /\ Published' = Published
  BY <1>1, <1>4, NotAnInode DEF IInv, TypeOK, NamesApart, Published, Names
<1>6. OpenFiles'
  BY <1>1 DEF OpenTmp, IInv, TypeOK, OpenFiles
<1>7. WriterOnTmp'
  <2> SUFFICES ASSUME ~contended' PROVE WriterOnTmp'
    BY DEF WriterOnTmp
  <2>1. Busy' = {w}
    BY <1>2
  <2>2. \A x \in Writers : x # w => wpc'[x] = "idle"
    BY <2>1 DEF Busy
  <2>3. wpc'[w] = "write" /\ dir'["tmp"] = i /\ wfd'[w] = i /\ data'[i] = Empty
    BY <1>1 DEF OpenTmp, IInv, TypeOK, Names
  <2> QED
    BY <2>1, <2>2, <2>3 DEF WriterOnTmp
<1>8. ReaderOffTmp'
  BY <1>1, <1>4 DEF OpenTmp, IInv, TypeOK, ReaderOffTmp, Names
<1> QED
  BY <1>3, <1>5, <1>6, <1>7, <1>8 DEF IInv

\* A document that is written lands under the public name only if writes overlap.
LEMMA WriteTmpIInv ==
  ASSUME IInv, NEW w \in Writers, WriteTmp(w)
  PROVE  IInv' /\ (Published' = Published \/ Published' \in Values \/ (contended /\ Published' \in {Empty, Mixed}))
<1>1. wfd[w] \in Inodes /\ wval[w] \in Values
  BY DEF WriteTmp, IInv, OpenFiles
<1>2. PICK c \in {wval[w]} \cup (IF data[wfd[w]] = Empty THEN {} ELSE {Mixed}) :
        data' = [data EXCEPT ![wfd[w]] = c]
  BY DEF WriteTmp
<1>3. c \in Values \cup {Mixed}
  BY <1>1, <1>2
<1>4. Busy' = Busy
  BY DEF WriteTmp, Busy, IInv, TypeOK
<1>5. TypeOK'
  BY <1>1, <1>2, <1>3 DEF WriteTmp, IInv, TypeOK, Content
<1>6. NamesApart'
  BY DEF WriteTmp, IInv, NamesApart
<1>7. OpenFiles'
  BY DEF WriteTmp, IInv, TypeOK, OpenFiles
<1>8. ~contended => wfd[w] = dir["tmp"] /\ c = wval[w] /\ (\A x \in Writers : wpc[x] # "idle" => x = w)
  BY <1>2 DEF WriteTmp, IInv, WriterOnTmp, Busy
<1>9. WriterOnTmp'
  <2> SUFFICES ASSUME ~contended PROVE WriterOnTmp'
    BY DEF WriteTmp, WriterOnTmp
  <2>1. \A x \in Writers : wpc'[x] # "idle" => x = w
    BY <1>8 DEF WriteTmp, IInv, TypeOK
  <2>2. wpc'[w] = "replace" /\ dir'["tmp"] \in Inodes /\ data'[dir'["tmp"]] \in Values
    BY <1>1, <1>2, <1>8 DEF WriteTmp, IInv, TypeOK
  <2>3. \A x, y \in Busy' : x = y
    BY <2>1 DEF Busy
  <2> QED
    BY <2>1, <2>2, <2>3 DEF WriterOnTmp
<1>10. ReaderOffTmp'
  <2>1. ASSUME NEW r \in Readers, rpc[r] = "read", ~doubtful[r]
        PROVE  data'[rfd[r]] = data[rfd[r]] /\ \A x \in Writers : wfd'[x] # rfd[r]
    BY <1>1, <1>2, <2>1, NotAnInode DEF WriteTmp, IInv, TypeOK, ReaderOffTmp
  <2> QED
    BY <2>1 DEF WriteTmp, IInv, ReaderOffTmp
<1>11. Published' = Published \/ Published' \in Values \/ (contended /\ Published' \in {Empty, Mixed})
  <2>1. CASE dir["path"] # wfd[w]
    BY <2>1, <1>1, <1>2, NotAnInode DEF WriteTmp, Published, IInv, TypeOK, Names
  <2>2. CASE dir["path"] = wfd[w]
    <3>1. Published' = c
      BY <2>2, <1>1, <1>2, NotAnInode DEF WriteTmp, Published, IInv, TypeOK
    <3>2. c \in Values \/ contended
      BY <1>1, <1>3, <1>8
    <3> QED
      BY <3>1, <3>2, <1>3
  <2> QED
    BY <2>1, <2>2
<1> QED
  BY <1>5, <1>6, <1>7, <1>9, <1>10, <1>11 DEF IInv

\* When the last of the overlapping writers ends, nobody is left writing.
LEMMA EndsCalm ==
  ASSUME IInv, NEW w \in Writers, Ends(w), wpc' = [wpc EXCEPT ![w] = "idle"], wpc[w] # "idle"
  PROVE  (~contended') => \A x \in Writers : wpc'[x] = "idle"
<1> SUFFICES ASSUME ~contended', NEW x \in Writers, x # w
             PROVE  wpc[x] = "idle"
  BY DEF IInv, TypeOK
<1>1. CASE contended
  BY <1>1 DEF Ends, Busy
<1>2. CASE ~contended
  BY <1>2 DEF IInv, WriterOnTmp, Busy
<1> QED
  BY <1>1, <1>2

LEMMA WriteFailsIInv ==
  ASSUME IInv, NEW w \in Writers, WriteFails(w)
  PROVE  IInv' /\ (Published' = Published \/ (contended /\ Published' \in {Empty, Mixed}))
<1>1. wfd[w] \in Inodes
  BY DEF WriteFails, IInv, OpenFiles
<1>2. PICK c \in {data[wfd[w]], Mixed} : data' = [data EXCEPT ![wfd[w]] = c]
  BY DEF WriteFails
<1>3. c \in Content
  BY <1>1, <1>2 DEF IInv, TypeOK, Content
<1>4. TypeOK'
  <2>1. contended' \in BOOLEAN
    BY DEF WriteFails, Ends, IInv, TypeOK
  <2> QED
    BY <1>1, <1>2, <1>3, <2>1 DEF WriteFails, IInv, TypeOK
<1>5. NamesApart'
  BY DEF WriteFails, IInv, NamesApart
<1>6. OpenFiles'
  BY DEF WriteFails, IInv, TypeOK, OpenFiles
<1>7. (~contended') => \A x \in Writers : wpc'[x] = "idle"
  BY EndsCalm DEF WriteFails
<1>8. WriterOnTmp'
  BY <1>7 DEF WriterOnTmp, Busy
<1>9. ReaderOffTmp'
  <2>1. ASSUME NEW r \in Readers, rpc[r] = "read", ~doubtful[r]
        PROVE  data'[rfd[r]] = data[rfd[r]] /\ \A x \in Writers : wfd'[x] # rfd[r]
    BY <1>1, <1>2, <2>1, NotAnInode DEF WriteFails, IInv, TypeOK, ReaderOffTmp
  <2> QED
    BY <2>1 DEF WriteFails, IInv, ReaderOffTmp
<1>10. ~contended => wfd[w] = dir["tmp"]
  BY DEF WriteFails, IInv, WriterOnTmp
<1>11. Published' = Published \/ (contended /\ Published' \in {Empty, Mixed})
  <2>1. CASE dir["path"] # wfd[w]
    BY <2>1, <1>1, <1>2, NotAnInode DEF WriteFails, Published, IInv, TypeOK, Names
  <2>2. CASE dir["path"] = wfd[w]
    <3>1. Published' = c /\ Published = data[wfd[w]]
      BY <2>2, <1>1, <1>2, NotAnInode DEF WriteFails, Published, IInv, TypeOK
    <3>2. contended
      BY <2>2, <1>1, <1>10, NotAnInode DEF IInv, NamesApart
    <3> QED
      BY <3>1, <3>2, <1>2
  <2> QED
    BY <2>1, <2>2
<1> QED
  BY <1>4, <1>5, <1>6, <1>8, <1>9, <1>11 DEF IInv

\* A rename publishes what the temporary file holds: a whole document, unless
\* writes overlap.
LEMMA ReplaceIInv ==
  ASSUME IInv, NEW w \in Writers, Replace(w)
  PROVE  IInv' /\ (Published' = Published \/ Published' \in Values \/ (contended /\ Published' \in {Empty, Mixed}))
<1>1. dir' = IF dir["tmp"] = NoInode THEN dir
             ELSE [dir EXCEPT !["path"] = dir["tmp"], !["tmp"] = NoInode]
  BY DEF Replace
<1>2. TypeOK'
  <2>1. contended' \in BOOLEAN
    BY DEF Replace, Ends, IInv, TypeOK
  <2>2. dir' \in [Names -> Inodes \cup {NoInode}]
    BY <1>1 DEF IInv, TypeOK, Names
  <2> QED
    BY <2>1, <2>2 DEF Replace, IInv, TypeOK
<1>3. dir["tmp"] # NoInode => dir'["path"] = dir["tmp"] /\ dir'["tmp"] = NoInode
  BY <1>1 DEF IInv, TypeOK, Names
<1>4. NamesApart'
  BY <1>1, <1>3 DEF IInv, NamesApart
<1>5. OpenFiles'
  BY DEF Replace, IInv, TypeOK, OpenFiles
<1>6. (~contended') => \A x \in Writers : wpc'[x] = "idle"
  BY EndsCalm DEF Replace
<1>7. WriterOnTmp'
  BY <1>6 DEF WriterOnTmp, Busy
<1>8. ReaderOffTmp'
  BY <1>1, <1>3, NotAnInode DEF Replace, IInv, ReaderOffTmp
<1>9. CASE dir["tmp"] = NoInode
  <2>1. Published' = Published
    BY <1>1, <1>9 DEF Replace, Published
  <2> QED
    BY <2>1, <1>2, <1>4, <1>5, <1>7, <1>8 DEF IInv
<1>10. CASE dir["tmp"] # NoInode
  <2>1. Published' = data[dir["tmp"]] /\ data[dir["tmp"]] \in Content
    BY <1>3, <1>10, NotAnInode DEF Replace, Published, IInv, TypeOK, Names
  <2>2. ~contended => data[dir["tmp"]] \in Values
    BY DEF Replace, IInv, WriterOnTmp
  <2> QED
    BY <2>1, <2>2, <1>2, <1>4, <1>5, <1>7, <1>8 DEF IInv, Content
<1> QED
  BY <1>9, <1>10

LEMMA ReaderIInv ==
  ASSUME IInv, NEW r \in Readers, OpenStatus(r) \/ ReadStatus(r)
  PROVE  IInv' /\ Published' = Published
<1>1. NamesApart' /\ OpenFiles' /\ WriterOnTmp' /\ Published' = Published
  BY DEF OpenStatus, ReadStatus, IInv, NamesApart, OpenFiles, WriterOnTmp, Published, Busy
<1>2. CASE OpenStatus(r)
  <2>1. dir["path"] \in Inodes /\ dir["path"] # dir["tmp"]
    BY <1>2 DEF OpenStatus, IInv, TypeOK, NamesApart, Names
  <2>2. ~doubtful'[r] => data[dir["path"]] \in Values /\ \A w \in Writers : wfd[w] # dir["path"]
    <3> SUFFICES ASSUME ~doubtful'[r]
                 PROVE  data[dir["path"]] \in Values /\ \A w \in Writers : wfd[w] # dir["path"]
      OBVIOUS
    <3>1. ~contended /\ Published \in Values
      BY <1>2 DEF OpenStatus, IInv, TypeOK
    <3>2. data[dir["path"]] \in Values
      BY <3>1, <2>1, NotAnInode DEF Published
    <3>3. ASSUME NEW w \in Writers PROVE wfd[w] # dir["path"]
      <4>1. CASE wpc[w] = "write"
        BY <4>1, <3>1, <2>1 DEF IInv, WriterOnTmp
      <4>2. CASE wpc[w] # "write"
        BY <4>2, <2>1, NotAnInode DEF IInv, OpenFiles
      <4> QED
        BY <4>1, <4>2
    <3> QED
      BY <3>2, <3>3
  <2>3. TypeOK'
    <3>1. (contended \/ Published \notin Values) \in BOOLEAN
      BY DEF IInv, TypeOK
    <3> QED
      BY <1>2, <2>1, <3>1 DEF OpenStatus, IInv, TypeOK
  <2>4. ReaderOffTmp'
    BY <1>2, <2>1, <2>2 DEF OpenStatus, IInv, TypeOK, ReaderOffTmp
  <2> QED
    BY <1>1, <2>3, <2>4 DEF IInv
<1>3. CASE ReadStatus(r)
  <2>1. rfd[r] \in Inodes /\ (~doubtful[r] => data[rfd[r]] \in Values)
    BY <1>3 DEF ReadStatus, IInv, ReaderOffTmp
  <2>2. TypeOK'
    BY <1>3, <2>1 DEF ReadStatus, IInv, TypeOK, Content
  <2>3. ReaderOffTmp'
    BY <1>3, <2>1 DEF ReadStatus, IInv, TypeOK, ReaderOffTmp
  <2> QED
    BY <1>1, <2>2, <2>3 DEF IInv
<1> QED
  BY <1>2, <1>3

LEMMA CrashIInv ==
  ASSUME IInv, Crash
  PROVE  IInv' /\ Published' = Published
<1>1. TypeOK'
  BY DEF Crash, IInv, TypeOK
<1>2. NamesApart' /\ OpenFiles' /\ WriterOnTmp' /\ ReaderOffTmp' /\ Published' = Published
  BY DEF Crash, IInv, NamesApart, OpenFiles, WriterOnTmp, ReaderOffTmp, Published, Busy
<1> QED
  BY <1>1, <1>2 DEF IInv

\* What one step does: it keeps the invariant, and either leaves what readers
\* find as it was, publishes a whole document in its place, or garbles it while
\* writes overlap.
LEMMA StepIInv ==
  ASSUME IInv, [Next]_vars
  PROVE  IInv' /\ (Published' = Published \/ Published' \in Values \/ (contended /\ Published' \in {Empty, Mixed}))
<1>1. CASE UNCHANGED vars
  BY <1>1 DEF vars, IInv, TypeOK, NamesApart, OpenFiles, WriterOnTmp, ReaderOffTmp, Published, Busy
<1> QED
  BY <1>1, OpenTmpIInv, WriteTmpIInv, WriteFailsIInv, ReplaceIInv, ReaderIInv, CrashIInv DEF Next

LEMMA Inductive == Spec => []IInv
<1>1. IInv /\ [Next]_vars => IInv'
  BY StepIInv
<1> QED
  BY <1>1, InitIInv, PTL DEF Spec

\* Every state is well typed, whatever the writers, failing writes and crashes.
THEOREM StatusTypeCorrect == Spec => []TypeOK
  BY Inductive, PTL DEF IInv

\* No reader gets an empty or spliced document from a file that was whole and not
\* contended when it opened it, whatever any number of writers do meanwhile and
\* whenever the server dies.
THEOREM ReadsAreWhole == Spec => []WholeReads
<1>1. IInv => WholeReads
  BY DEF IInv, ReaderOffTmp, WholeReads
<1> QED
  BY <1>1, Inductive, PTL

\* For any number of writers the file implements the register its callers may
\* assume: written in one step, never absent again, garbled only by writes that
\* overlap and made whole by the next one that does not.
THEOREM ImplementsRegister == Spec => RegisterSpec
<1>1. Init => Register!Init
  BY DEF Init, Register!Init, Published, Names
<1>2. IInv /\ [Next]_vars => [Register!Next]_Published
  BY StepIInv DEF Register!Next, Register!Write, Register!Garble
<1> QED
  BY <1>1, <1>2, Inductive, PTL DEF Spec, RegisterSpec, Register!Spec

-----------------------------------------------------------------------------
(***************************************************************************)
(* The context memory.                                                     *)
(***************************************************************************)

LEMMA MemTypes ==
  ASSUME MemTypeOK
  PROVE  /\ \A l \in Lists : /\ MemLoaded[l] \in Seq(MemRow) /\ memOp.whole[l] \in Seq(MemRow)
                             /\ memOp.told[l] \in Seq(MemRow) /\ memTold[l] \subseteq MemRow
         /\ MemLoaded \in MemWhole /\ memOp.whole \in MemWhole /\ memOp.told \in MemWhole
         /\ memNow \in 0..MemMaxNow
<1>1. \A S : <<>> \in Seq(S)
  OBVIOUS
<1>2. MemEmpty \in MemWhole
  BY <1>1, Zenon DEF MemEmpty, MemWhole
<1>3. MemLoaded \in MemWhole
  BY <1>2 DEF MemTypeOK, MemLoaded
<1>4. memOp.whole \in MemWhole /\ memOp.told \in MemWhole /\ memTold \in [Lists -> SUBSET MemRow]
  BY DEF MemTypeOK
<1> QED
  BY <1>3, <1>4 DEF MemWhole, MemTypeOK

\* A row an operation makes: by now, and not expired.
LEMMA RowIsNew ==
  ASSUME MemTypeOK, NEW name \in Keys \cup Topics \cup {Compacted, Trace},
         NEW by \in {"human", "llm"}, NEW ttl \in BOOLEAN
  PROVE  /\ NewRow(name, by, ttl) \in MemRow
         /\ NewRow(name, by, ttl).name = name /\ NewRow(name, by, ttl).by = by
         /\ NewRow(name, by, ttl).at = memNow
<1>1. memNow \in 0..MemMaxNow /\ MemMaxNow \in Nat /\ Ttl \in Nat
  BY MemBoundsAssumption DEF MemTypeOK
<1>2. (IF ttl THEN memNow + Ttl ELSE Never) \in 0..(MemMaxNow + Ttl + 1)
  BY <1>1 DEF Never
<1> QED
  BY <1>1, <1>2 DEF NewRow, MemRow

\* The rows after an upsert: the new one is there, and so are those of other names.
LEMMA UpsertedRows ==
  ASSUME NEW rows \in Seq(MemRow), NEW row \in MemRow
  PROVE  /\ Upserted(rows, row) \in Seq(MemRow)
         /\ \E i \in DOMAIN Upserted(rows, row) : Upserted(rows, row)[i] = row
         /\ \A r \in Range(rows) : r.name # row.name
               => \E i \in DOMAIN Upserted(rows, row) : Upserted(rows, row)[i] = r
<1> DEFINE changed == [i \in DOMAIN rows |-> IF rows[i].name = row.name THEN row ELSE rows[i]]
<1>1. rows \in [1..Len(rows) -> MemRow] /\ DOMAIN rows = 1..Len(rows) /\ Len(rows) \in Nat
  OBVIOUS
<1>2. CASE \E i \in DOMAIN rows : rows[i].name = row.name
  <2>1. Upserted(rows, row) = changed
    BY <1>2 DEF Upserted
  <2>2. changed \in [1..Len(rows) -> MemRow] /\ DOMAIN changed = DOMAIN rows
    BY <1>1
  <2>3. changed \in Seq(MemRow)
    <3> HIDE DEF changed
    <3> QED
      BY <1>1, <2>2, SeqDef, Zenon
  <2>4. \E i \in DOMAIN changed : changed[i] = row
    BY <1>2
  <2>5. \A r \in Range(rows) : r.name # row.name => \E i \in DOMAIN changed : changed[i] = r
    BY DEF Range
  <2> QED
    BY <2>1, <2>3, <2>4, <2>5
<1>3. CASE ~\E i \in DOMAIN rows : rows[i].name = row.name
  <2>1. Upserted(rows, row) = Append(rows, row)
    BY <1>3 DEF Upserted
  <2>2. /\ Append(rows, row) \in Seq(MemRow) /\ DOMAIN Append(rows, row) = 1..(Len(rows) + 1)
        /\ Append(rows, row)[Len(rows) + 1] = row
        /\ \A i \in 1..Len(rows) : Append(rows, row)[i] = rows[i]
    OBVIOUS
  <2> QED
    BY <1>1, <2>1, <2>2 DEF Range
<1> QED
  BY <1>2, <1>3

\* The live rows of those that are looked at: none is new, and none that is live is lost.
LEMMA LiveRowsOf ==
  ASSUME NEW rows \in Seq(MemRow)
  PROVE  /\ LiveRows(rows) \in Seq(MemRow)
         /\ \A i \in DOMAIN LiveRows(rows) : LiveRows(rows)[i] \in Range(rows)
         /\ \A r \in Range(rows) : ~MemExpired(r) => \E i \in DOMAIN LiveRows(rows) : LiveRows(rows)[i] = r
         /\ InTime(rows) => InTime(LiveRows(rows))
<1> DEFINE live == {row \in Range(rows) : ~MemExpired(row)}
           r == Only(rows, live)
<1>1. r \in Seq(MemRow) /\ \E g : Embeds(g, rows, r, live)
  BY OnlyEmbeds, Zenon DEF OnlyHolds
<1>2. PICK g : Embeds(g, rows, r, live)
  BY <1>1
<1>3. LiveRows(rows) = r
  BY DEF LiveRows
<1> HIDE DEF r, live
<1>4. /\ g \in [1..Len(r) -> 1..Len(rows)]
      /\ \A i, j \in 1..Len(r) : i < j => g[i] < g[j]
      /\ \A i \in 1..Len(r) : r[i] = rows[g[i]]
      /\ \A j \in 1..Len(rows) : rows[j] \in live => \E i \in 1..Len(r) : g[i] = j
  BY <1>2, Zenon DEF Embeds
<1>5. DOMAIN r = 1..Len(r) /\ DOMAIN rows = 1..Len(rows)
  BY <1>1
<1>6. \A i \in DOMAIN r : g[i] \in DOMAIN rows /\ r[i] = rows[g[i]]
  BY <1>4, <1>5
<1>7. \A i \in DOMAIN r : r[i] \in Range(rows)
  BY <1>6, Zenon DEF Range
<1>8. \A q \in Range(rows) : ~MemExpired(q) => \E i \in DOMAIN r : r[i] = q
  <2> SUFFICES ASSUME NEW q \in Range(rows), ~MemExpired(q)  PROVE \E i \in DOMAIN r : r[i] = q
    OBVIOUS
  <2>1. PICK j \in 1..Len(rows) : rows[j] = q
    BY <1>5 DEF Range
  <2>2. rows[j] \in live
    BY <2>1 DEF live
  <2> QED
    BY <1>4, <1>5, <2>1, <2>2
<1>9. ASSUME InTime(rows)  PROVE InTime(r)
  <2>1. /\ \A i \in DOMAIN rows : rows[i].at <= memNow
        /\ \A i, j \in DOMAIN rows : i < j => rows[i].at <= rows[j].at
    BY <1>9 DEF InTime
  <2>2. \A i \in DOMAIN r : r[i].at <= memNow
    BY <1>6, <2>1
  <2>3. \A i, j \in DOMAIN r : i < j => r[i].at <= r[j].at
    BY <1>4, <1>5, <1>6, <2>1
  <2> QED
    BY <2>2, <2>3 DEF InTime
<1> QED
  BY <1>1, <1>3, <1>7, <1>8, <1>9

\* The rows of a list that an operation may not lose: those it does not replace or cut.
Spared(l, list, row, cut) ==
    {r \in memTold[l] : /\ r \notin cut[l]
                        /\ l = list /\ l # "decisions" => \A i \in DOMAIN row : row[i].name # r.name}

\* An operation has computed what it will write.
LEMMA SavesInv ==
  ASSUME MemIInv, NEW whole \in MemWhole, NEW list \in Lists, NEW row \in Seq(MemRow),
         NEW cut \in [Lists -> SUBSET MemRow], MemSaves(whole, list, row, cut),
         InTime(whole["decisions"]),
         Has(whole[list], Range(row)),
         \A l \in Lists : Has(whole[l], Spared(l, list, row, cut))
  PROVE  MemIInv'
<1>1. /\ memOp' = [step |-> "open", whole |-> whole, told |-> [MemEmpty EXCEPT ![list] = row],
                   cut |-> cut]
      /\ memOp.step = "idle" /\ UNCHANGED <<memFile, memNow, memTold>>
  BY DEF MemSaves
<1>2. MemTypeOK /\ Promised /\ Decisions
  BY DEF MemIInv
<1> DEFINE told == [MemEmpty EXCEPT ![list] = row]
<1>3. /\ told \in MemWhole /\ told[list] = row
      /\ \A l \in Lists : l # list => told[l] = <<>>
  <2>1. \A S : <<>> \in Seq(S)
    OBVIOUS
  <2>2. told = [l \in Lists |-> IF l = list THEN row ELSE <<>>]
    BY DEF MemEmpty
  <2> HIDE DEF told
  <2>3. \A l \in Lists : (IF l = list THEN row ELSE <<>>) \in Seq(MemRow)
    BY <2>1, Zenon
  <2> QED
    BY <2>2, <2>3, Zenon DEF MemWhole
<1> HIDE DEF told
<1>4. /\ memOp'.step = "open" /\ memOp'.whole = whole /\ memOp'.told = told /\ memOp'.cut = cut
      /\ memOp' \in [step : {"idle", "open", "write"}, whole : MemWhole, told : MemWhole,
                     cut : [Lists -> SUBSET MemRow]]
  BY <1>1, <1>3 DEF told
<1>5. MemTypeOK'
  BY <1>1, <1>2, <1>4 DEF MemTypeOK
<1>6. MemLoaded' = MemLoaded
  BY <1>1 DEF MemLoaded
<1>7. Decisions'
  BY <1>1, <1>2, <1>4, <1>6 DEF Decisions, InTime
<1>8. Promised'
  <2>1. \A l \in Lists : Has(MemLoaded[l], memTold[l])'
    BY <1>1, <1>2, <1>6 DEF Promised, Has, MemExpired
  <2>2. ASSUME NEW l \in Lists
        PROVE  Has(whole[l], {r \in memTold[l] : Survives(l, r)'}) /\ Has(whole[l], Range(told[l]))
    <3>1. CASE l = list
      <4>1. {r \in memTold[l] : Survives(l, r)'} = Spared(l, list, row, cut)
        BY <1>3, <1>4, <3>1 DEF Survives, Spared
      <4> QED
        BY <1>3, <3>1, <4>1
    <3>2. CASE l # list
      <4>1. {r \in memTold[l] : Survives(l, r)'} \subseteq Spared(l, list, row, cut)
        BY <1>4, <3>2 DEF Survives, Spared
      <4>2. Has(whole[l], {r \in memTold[l] : Survives(l, r)'})
        BY <4>1 DEF Has
      <4>3. Range(told[l]) = {}
        BY <1>3, <3>2 DEF Range
      <4> QED
        BY <4>2, <4>3 DEF Has
    <3> QED
      BY <3>1, <3>2
  <2>3. \A l \in Lists : /\ Has(memOp.whole[l], {r \in memTold[l] : Survives(l, r)})'
                         /\ Has(memOp.whole[l], Range(memOp.told[l]))'
    <3> SUFFICES ASSUME NEW l \in Lists
                 PROVE  /\ Has(memOp.whole[l], {r \in memTold[l] : Survives(l, r)})'
                        /\ Has(memOp.whole[l], Range(memOp.told[l]))'
      OBVIOUS
    <3>1. memTold'[l] = memTold[l] /\ memNow' = memNow
      BY <1>1
    <3>2. Has(whole[l], {r \in memTold[l] : Survives(l, r)'}) /\ Has(whole[l], Range(told[l]))
      BY <2>2
    <3> QED
      BY <1>4, <3>1, <3>2 DEF Has, MemExpired
  <2> QED
    BY <1>4, <2>1, <2>3 DEF Promised
<1> QED
  BY <1>5, <1>7, <1>8 DEF MemIInv

LEMMA NoCutType == NoCut \in [Lists -> SUBSET MemRow] /\ \A l \in Lists : NoCut[l] = {}
BY DEF NoCut

LEMMA MemUpsertInv ==
  ASSUME MemIInv, NEW list \in {"entries", "summaries"},
         NEW name \in Keys \cup Topics \cup {Compacted, Trace},
         NEW ttl \in BOOLEAN, MemUpsert(list, name, ttl)
  PROVE  MemIInv'
<1> DEFINE row == NewRow(name, "llm", ttl)
           rows == Upserted(MemLoaded[list], row)
           whole == [MemLoaded EXCEPT ![list] = rows]
<1>1. MemTypeOK /\ Promised /\ Decisions /\ list \in Lists /\ list # "decisions"
  BY DEF MemIInv, Lists
<1>2. row \in MemRow /\ row.name = name
  BY <1>1, RowIsNew
<1>3. \A l \in Lists : MemLoaded[l] \in Seq(MemRow)
  BY <1>1, MemTypes
<1>4. MemLoaded \in MemWhole
  BY <1>1, MemTypes
<1>5. MemSaves(whole, list, <<row>>, NoCut)
  BY DEF MemUpsert
<1> HIDE DEF row
<1>6. /\ rows \in Seq(MemRow)
      /\ \E i \in DOMAIN rows : rows[i] = row
      /\ \A r \in Range(MemLoaded[list]) : r.name # row.name => \E i \in DOMAIN rows : rows[i] = r
  BY <1>1, <1>2, <1>3, UpsertedRows
<1> HIDE DEF rows
<1>7. /\ whole \in MemWhole /\ whole[list] = rows
      /\ \A l \in Lists : l # list => whole[l] = MemLoaded[l]
  BY <1>1, <1>4, <1>6 DEF MemWhole
<1> HIDE DEF whole
<1>8. InTime(whole["decisions"])
  BY <1>1, <1>7 DEF Decisions, Lists
<1>9. memOp.step = "idle" /\ <<row>> \in Seq(MemRow) /\ Range(<<row>>) = {row}
  BY <1>2, <1>5 DEF MemSaves, Range
<1>10. Has(whole[list], Range(<<row>>))
  BY <1>6, <1>7, <1>9 DEF Has
<1>11. \A l \in Lists : Has(MemLoaded[l], memTold[l])
  BY <1>1, <1>9 DEF Promised
<1>12. ASSUME NEW l \in Lists
       PROVE Has(whole[l], Spared(l, list, <<row>>, NoCut))
  <2>1. CASE l # list
    BY <1>7, <1>11, <2>1 DEF Has, Spared
  <2>2. CASE l = list
    <3> SUFFICES ASSUME NEW r \in memTold[l],
                        l # "decisions" => \A i \in DOMAIN <<row>> : <<row>>[i].name # r.name
                 PROVE  MemExpired(r) \/ \E i \in DOMAIN rows : rows[i] = r
      BY <1>7, <2>2 DEF Has, Spared
    <3>1. r.name # row.name
      BY <1>1, <2>2
    <3>2. MemExpired(r) \/ r \in Range(MemLoaded[l])
      BY <1>11 DEF Has, Range
    <3> QED
      BY <1>6, <2>2, <3>1, <3>2
  <2> QED
    BY <2>1, <2>2
<1> QED
  BY <1>1, <1>5, <1>7, <1>8, <1>9, <1>10, <1>12, NoCutType, SavesInv

\* A row is appended to a list in which none of its name is promised, or to the decisions.
LEMMA AppendedInv ==
  ASSUME MemIInv, NEW list \in {"summaries", "decisions"}, NEW row \in MemRow, row.at = memNow,
         MemSaves([MemLoaded EXCEPT ![list] = Append(@, row)], list, <<row>>, NoCut)
  PROVE  MemIInv'
<1> DEFINE old == MemLoaded[list]
           rows == Append(old, row)
           whole == [MemLoaded EXCEPT ![list] = rows]
<1>1. MemTypeOK /\ Promised /\ Decisions /\ list \in Lists
  BY DEF MemIInv, Lists
<1>2. \A l \in Lists : MemLoaded[l] \in Seq(MemRow)
  BY <1>1, MemTypes
<1>3. MemLoaded \in MemWhole
  BY <1>1, MemTypes
<1>4. MemSaves(whole, list, <<row>>, NoCut)
  OBVIOUS
<1>5. old \in Seq(MemRow)
  BY <1>1, <1>2
<1> HIDE DEF old
<1>6. /\ rows \in Seq(MemRow) /\ DOMAIN rows = 1..(Len(old) + 1) /\ DOMAIN old = 1..Len(old)
      /\ Len(old) \in Nat /\ rows[Len(old) + 1] = row
      /\ \A i \in 1..Len(old) : rows[i] = old[i]
  BY <1>5
<1> HIDE DEF rows
<1>7. /\ whole \in MemWhole /\ whole[list] = rows
      /\ \A l \in Lists : l # list => whole[l] = MemLoaded[l]
  BY <1>1, <1>3, <1>6 DEF MemWhole
<1> HIDE DEF whole
<1>8. InTime(whole["decisions"])
  <2>1. CASE list = "summaries"
    BY <1>1, <1>7, <2>1 DEF Decisions, Lists
  <2>2. CASE list = "decisions"
    <3>1. /\ \A i \in 1..Len(old) : old[i].at <= memNow
          /\ \A i, j \in 1..Len(old) : i < j => old[i].at <= old[j].at
      BY <1>1, <1>6, <2>2 DEF Decisions, InTime, old
    <3>2. memNow \in Int
      BY <1>1 DEF MemTypeOK
    <3>3. \A i \in 1..(Len(old) + 1) : i \in 1..Len(old) \/ i = Len(old) + 1
      BY <1>6
    <3>4. \A i \in 1..(Len(old) + 1) : rows[i].at <= memNow
      BY <1>6, <3>1, <3>2, <3>3
    <3>5. ASSUME NEW i \in 1..(Len(old) + 1), NEW j \in 1..(Len(old) + 1), i < j
          PROVE  rows[i].at <= rows[j].at
      <4>1. i \in 1..Len(old)
        BY <1>6, <3>5
      <4>2. CASE j \in 1..Len(old)
        BY <1>6, <3>1, <3>5, <4>1, <4>2
      <4>3. CASE j = Len(old) + 1
        BY <1>6, <3>1, <4>1, <4>3
      <4> QED
        BY <3>3, <4>2, <4>3
    <3> QED
      BY <1>6, <1>7, <2>2, <3>4, <3>5 DEF InTime
  <2> QED
    BY <2>1, <2>2
<1>9. memOp.step = "idle" /\ <<row>> \in Seq(MemRow) /\ Range(<<row>>) = {row}
  BY <1>4 DEF MemSaves, Range
<1>10. Has(whole[list], Range(<<row>>))
  BY <1>6, <1>7, <1>9 DEF Has
<1>11. \A l \in Lists : Has(MemLoaded[l], memTold[l])
  BY <1>1, <1>9 DEF Promised
<1>12. \A l \in Lists : Has(whole[l], memTold[l])
  <2>1. \A r : (\E i \in DOMAIN old : old[i] = r) => \E i \in DOMAIN rows : rows[i] = r
    BY <1>6
  <2> QED
    BY <1>7, <1>11, <2>1 DEF Has, old
<1>13. \A l \in Lists : Has(whole[l], Spared(l, list, <<row>>, NoCut))
  BY <1>12 DEF Has, Spared
<1> QED
  BY <1>1, <1>4, <1>7, <1>8, <1>9, <1>10, <1>13, NoCutType, SavesInv

LEMMA MemDecideInv ==
  ASSUME MemIInv, NEW name \in Topics, NEW by \in {"human", "llm"}, NEW ttl \in BOOLEAN,
         MemDecide(name, by, ttl)
  PROVE  MemIInv'
<1> DEFINE row == NewRow(name, by, ttl)
<1>1. row \in MemRow /\ row.at = memNow
  BY RowIsNew DEF MemIInv
<1>2. MemSaves([MemLoaded EXCEPT !["decisions"] = Append(@, row)], "decisions", <<row>>, NoCut)
  BY DEF MemDecide
<1> QED
  BY <1>1, <1>2, AppendedInv

LEMMA MemCaptureInv ==
  ASSUME MemIInv, MemCapture
  PROVE  MemIInv'
<1> DEFINE row == NewRow(Trace, "llm", FALSE)
<1>1. row \in MemRow /\ row.at = memNow
  BY RowIsNew DEF MemIInv
<1>2. MemSaves([MemLoaded EXCEPT !["summaries"] = Append(@, row)], "summaries", <<row>>, NoCut)
  BY DEF MemCapture
<1> QED
  BY <1>1, <1>2, AppendedInv

LEMMA MemValidateInv ==
  ASSUME MemIInv, MemValidate
  PROVE  MemIInv'
<1> DEFINE Len0(rows) == IF Len(rows) < ValidateLimit THEN Len(rows) ELSE ValidateLimit
           Seen(l) == SubSeq(MemLoaded[l], 1, Len0(MemLoaded[l]))
           whole == [l \in Lists |-> LiveRows(Seen(l))]
           cut == [l \in Lists |-> Beyond(MemLoaded[l])]
<1>1. MemTypeOK /\ Promised /\ Decisions /\ ValidateLimit \in Nat
  BY MemBoundsAssumption DEF MemIInv
<1>2. MemSaves(whole, "entries", <<>>, cut)
  BY DEF MemValidate
<1>3. ASSUME NEW l \in Lists
      PROVE  /\ Seen(l) \in Seq(MemRow)
             /\ \A r \in Range(MemLoaded[l]) : r \notin Beyond(MemLoaded[l]) => r \in Range(Seen(l))
             /\ InTime(MemLoaded[l]) => InTime(Seen(l))
             /\ Beyond(MemLoaded[l]) \subseteq MemRow
  <2> DEFINE rows == MemLoaded[l]
             n == Len0(rows)
             seen == SubSeq(rows, 1, n)
  <2>1. rows \in Seq(MemRow)
    BY <1>1, MemTypes
  <2> HIDE DEF rows
  <2>2. n \in 0..Len(rows) /\ (n < Len(rows) => n = ValidateLimit) /\ Len(rows) \in Nat
    BY <1>1, <2>1
  <2> HIDE DEF n
  <2>3. seen \in Seq(MemRow) /\ DOMAIN seen = 1..n /\ \A i \in 1..n : seen[i] = rows[i]
    BY <2>1, <2>2
  <2> HIDE DEF seen
  <2>4. DOMAIN rows = 1..Len(rows) /\ \A i \in 1..Len(rows) : rows[i] \in MemRow
    BY <2>1
  <2>5. \A r \in Range(rows) : r \notin Beyond(rows) => r \in Range(seen)
    BY <1>1, <2>2, <2>3, <2>4 DEF Range, Beyond
  <2>6. InTime(rows) => InTime(seen)
    BY <2>2, <2>3, <2>4 DEF InTime
  <2>7. Beyond(rows) \subseteq MemRow
    BY <2>4 DEF Beyond
  <2> QED
    BY <2>3, <2>5, <2>6, <2>7 DEF rows, seen, n
<1> HIDE DEF Seen
<1>4. ASSUME NEW l \in Lists
      PROVE  /\ LiveRows(Seen(l)) \in Seq(MemRow)
             /\ \A r \in Range(Seen(l)) : ~MemExpired(r) =>
                   \E i \in DOMAIN LiveRows(Seen(l)) : LiveRows(Seen(l))[i] = r
             /\ InTime(Seen(l)) => InTime(LiveRows(Seen(l)))
  BY <1>3, LiveRowsOf
<1>5. whole \in MemWhole /\ \A l \in Lists : whole[l] = LiveRows(Seen(l))
  BY <1>4 DEF MemWhole
<1>6. cut \in [Lists -> SUBSET MemRow] /\ \A l \in Lists : cut[l] = Beyond(MemLoaded[l])
  BY <1>3
<1>7. InTime(whole["decisions"])
  BY <1>1, <1>3, <1>4, <1>5 DEF Decisions, Lists
<1> HIDE DEF whole, cut
<1>8. memOp.step = "idle" /\ <<>> \in Seq(MemRow) /\ Range(<<>>) = {} /\ "entries" \in Lists
  BY <1>2 DEF MemSaves, Range, Lists
<1>9. \A l \in Lists : Has(MemLoaded[l], memTold[l])
  BY <1>1, <1>8 DEF Promised
<1>10. Has(whole["entries"], Range(<<>>))
  BY <1>8 DEF Has
<1>11. ASSUME NEW l \in Lists, NEW r \in memTold[l], r \notin cut[l]
       PROVE  MemExpired(r) \/ \E i \in DOMAIN whole[l] : whole[l][i] = r
  <2>1. MemExpired(r) \/ r \in Range(MemLoaded[l])
    BY <1>9 DEF Has, Range
  <2> QED
    BY <1>3, <1>4, <1>5, <1>6, <1>11, <2>1
<1>12. \A l \in Lists : Has(whole[l], Spared(l, "entries", <<>>, cut))
  BY <1>11 DEF Has, Spared
<1> QED
  BY <1>1, <1>2, <1>5, <1>6, <1>7, <1>8, <1>10, <1>12, SavesInv

LEMMA MemOpenInv == ASSUME MemIInv, MemOpen PROVE MemIInv'
<1>1. /\ memOp.step = "open" /\ memFile' = MemTorn /\ memOp' = [memOp EXCEPT !.step = "write"]
      /\ UNCHANGED <<memNow, memTold>>
  BY DEF MemOpen
<1>2. MemTypeOK /\ Promised /\ Decisions
  BY DEF MemIInv
<1>3. /\ memOp' \in [step : {"idle", "open", "write"}, whole : MemWhole, told : MemWhole,
                     cut : [Lists -> SUBSET MemRow]]
      /\ memOp'.step = "write" /\ memOp'.whole = memOp.whole /\ memOp'.told = memOp.told
      /\ memOp'.cut = memOp.cut
  BY <1>1, <1>2 DEF MemTypeOK
<1>4. MemTypeOK'
  BY <1>1, <1>2, <1>3 DEF MemTypeOK
<1>5. MemLoaded' = MemEmpty /\ MemEmpty["decisions"] = <<>>
  BY <1>1 DEF MemLoaded, MemEmpty, Lists
<1>6. Decisions'
  BY <1>1, <1>2, <1>3, <1>5 DEF Decisions, InTime
<1>7. Promised'
  BY <1>1, <1>2, <1>3 DEF Promised, Has, Survives, MemExpired
<1> QED
  BY <1>4, <1>6, <1>7 DEF MemIInv

LEMMA MemWriteInv == ASSUME MemIInv, MemWrite PROVE MemIInv'
<1> DEFINE told(l) == {r \in memTold[l] \ memOp.cut[l] :
              /\ ~MemExpired(r)
              /\ l = "decisions" \/ \A i \in DOMAIN memOp.told[l] : memOp.told[l][i].name # r.name}
          \cup {memOp.told[l][i] : i \in DOMAIN memOp.told[l]}
<1>1. /\ memOp.step = "write" /\ memFile' = memOp.whole
      /\ memTold' = [l \in Lists |-> told(l)] /\ memOp' = MemIdle /\ UNCHANGED memNow
  BY DEF MemWrite
<1>2. MemTypeOK /\ Promised /\ Decisions /\ MemTorn \notin MemWhole
  BY MemTornAssumption DEF MemIInv
<1>3. \A l \in Lists : /\ memOp.whole[l] \in Seq(MemRow) /\ memOp.told[l] \in Seq(MemRow)
                       /\ memTold[l] \subseteq MemRow
  BY <1>2, MemTypes
<1>4. memOp.whole \in MemWhole
  BY <1>2, MemTypes
<1>5. \A l \in Lists : told(l) \subseteq MemRow
  BY <1>3
<1>6. MemEmpty \in MemWhole /\ MemEmpty["decisions"] = <<>>
  <2>1. \A S : <<>> \in Seq(S)
    OBVIOUS
  <2> QED
    BY <2>1, Zenon DEF MemEmpty, MemWhole, Lists
<1>7. ASSUME NEW l \in Lists, NEW r \in told(l)
      PROVE  MemExpired(r) \/ \E i \in DOMAIN memOp.whole[l] : memOp.whole[l][i] = r
  <2>1. /\ Has(memOp.whole[l], {q \in memTold[l] : Survives(l, q)})
        /\ Has(memOp.whole[l], Range(memOp.told[l]))
    BY <1>1, <1>2 DEF Promised
  <2>2. r \in {q \in memTold[l] : Survives(l, q)} \/ r \in Range(memOp.told[l])
    BY <1>7 DEF Survives, Range
  <2> QED
    BY <2>1, <2>2 DEF Has
<1> HIDE DEF told
<1>8. MemIdle \in [step : {"idle", "open", "write"}, whole : MemWhole, told : MemWhole,
                   cut : [Lists -> SUBSET MemRow]]
  BY <1>6, NoCutType DEF MemIdle
<1>9. MemTypeOK'
  BY <1>1, <1>2, <1>4, <1>5, <1>8 DEF MemTypeOK
<1>10. MemLoaded' = memOp.whole
  BY <1>1, <1>2, <1>4 DEF MemLoaded
<1>11. Decisions'
  BY <1>1, <1>2, <1>6, <1>10 DEF Decisions, InTime, MemIdle
<1>12. \A l \in Lists : Has(MemLoaded[l], memTold[l])'
  BY <1>1, <1>7, <1>10 DEF Has, MemExpired
<1>13. Promised'
  BY <1>1, <1>12 DEF Promised, MemIdle
<1> QED
  BY <1>9, <1>11, <1>13 DEF MemIInv

LEMMA MemCrashInv == ASSUME MemIInv, MemCrash PROVE MemIInv'
<1>1. /\ memTold' = IF memFile = MemTorn THEN [l \in Lists |-> {}] ELSE memTold
      /\ memOp' = MemIdle /\ UNCHANGED <<memFile, memNow>>
  BY DEF MemCrash
<1>2. MemTypeOK /\ Promised /\ Decisions
  BY DEF MemIInv
<1>3. MemEmpty \in MemWhole /\ MemEmpty["decisions"] = <<>>
  <2>1. \A S : <<>> \in Seq(S)
    OBVIOUS
  <2> QED
    BY <2>1, Zenon DEF MemEmpty, MemWhole, Lists
<1>4. MemIdle \in [step : {"idle", "open", "write"}, whole : MemWhole, told : MemWhole,
                   cut : [Lists -> SUBSET MemRow]]
  BY <1>3, NoCutType DEF MemIdle
<1>5. MemTypeOK'
  BY <1>1, <1>2, <1>4 DEF MemTypeOK
<1>6. MemLoaded' = MemLoaded
  BY <1>1 DEF MemLoaded
<1>7. Decisions'
  BY <1>1, <1>2, <1>3, <1>6 DEF Decisions, InTime, MemIdle
<1>8. \A l \in Lists : Has(MemLoaded[l], memTold[l])'
  BY <1>1, <1>2, <1>6 DEF Promised, Has, MemExpired
<1>9. Promised'
  BY <1>1, <1>8 DEF Promised, MemIdle
<1> QED
  BY <1>5, <1>7, <1>9 DEF MemIInv

LEMMA MemTickInv == ASSUME MemIInv, MemTick PROVE MemIInv'
<1>1. /\ memOp.step = "idle" /\ memNow < MemMaxNow /\ memNow' = memNow + 1
      /\ UNCHANGED <<memFile, memOp, memTold>>
  BY DEF MemTick
<1>2. MemTypeOK /\ Promised /\ Decisions /\ MemMaxNow \in Nat /\ Ttl \in Nat
  BY MemBoundsAssumption DEF MemIInv
<1>3. memNow \in 0..MemMaxNow /\ memNow' \in 0..MemMaxNow
  BY <1>1, <1>2 DEF MemTypeOK
<1>4. MemTypeOK'
  BY <1>1, <1>2, <1>3 DEF MemTypeOK
<1>5. MemLoaded' = MemLoaded
  BY <1>1 DEF MemLoaded
<1>6. ASSUME NEW rows \in Seq(MemRow), InTime(rows)
      PROVE  /\ \A i \in DOMAIN rows : rows[i].at <= memNow'
             /\ \A i, j \in DOMAIN rows : i < j => rows[i].at <= rows[j].at
  <2>1. \A i \in DOMAIN rows : rows[i] \in MemRow /\ rows[i].at <= memNow
    BY <1>6 DEF InTime
  <2>2. \A i \in DOMAIN rows : rows[i].at \in Nat
    BY <1>2, <2>1 DEF MemRow
  <2> QED
    BY <1>1, <1>3, <1>6, <2>1, <2>2 DEF InTime
<1>7. MemLoaded["decisions"] \in Seq(MemRow) /\ memOp.whole["decisions"] \in Seq(MemRow)
  BY <1>2, MemTypes DEF Lists
<1>8. Decisions'
  BY <1>1, <1>2, <1>5, <1>6, <1>7 DEF Decisions, InTime
<1>9. \A row \in MemRow : MemExpired(row) => MemExpired(row)'
  BY <1>1, <1>2, <1>3 DEF MemExpired, MemRow
<1>10. \A l \in Lists : memTold[l] \subseteq MemRow
  BY <1>2, MemTypes
<1>11. Promised'
  BY <1>1, <1>2, <1>5, <1>9, <1>10 DEF Promised, Has
<1> QED
  BY <1>4, <1>8, <1>11 DEF MemIInv

LEMMA MemInitInv == MemInit => MemIInv
<1> SUFFICES ASSUME MemInit  PROVE MemIInv
  OBVIOUS
<1>1. memFile = MemEmpty /\ memOp = MemIdle /\ memNow = 0 /\ memTold = [l \in Lists |-> {}]
  BY DEF MemInit
<1>2. MemEmpty \in MemWhole /\ MemEmpty["decisions"] = <<>>
  <2>1. \A S : <<>> \in Seq(S)
    OBVIOUS
  <2> QED
    BY <2>1, Zenon DEF MemEmpty, MemWhole, Lists
<1>3. MemIdle \in [step : {"idle", "open", "write"}, whole : MemWhole, told : MemWhole,
                   cut : [Lists -> SUBSET MemRow]]
  BY <1>2, NoCutType DEF MemIdle
<1>4. 0 \in 0..MemMaxNow
  BY MemBoundsAssumption
<1>5. MemTypeOK
  BY <1>1, <1>2, <1>3, <1>4 DEF MemTypeOK
<1>6. MemLoaded = MemEmpty
  BY <1>1 DEF MemLoaded
<1>7. Decisions
  BY <1>1, <1>2, <1>6 DEF Decisions, InTime, MemIdle
<1>8. Promised
  BY <1>1 DEF Promised, Has, MemIdle
<1> QED
  BY <1>5, <1>7, <1>8 DEF MemIInv

LEMMA MemStutterInv == MemIInv /\ UNCHANGED memVars => MemIInv'
<1> SUFFICES ASSUME MemIInv, UNCHANGED memVars  PROVE MemIInv'
  OBVIOUS
<1>1. UNCHANGED <<memFile, memOp, memNow, memTold>>
  BY DEF memVars
<1>2. MemLoaded' = MemLoaded
  BY <1>1 DEF MemLoaded
<1> QED
  BY <1>1, <1>2 DEF MemIInv, MemTypeOK, Decisions, InTime, Promised, Has, Survives, MemExpired

LEMMA MemInductive == MemIInv /\ [MemNext]_memVars => MemIInv'
<1> SUFFICES ASSUME MemIInv, [MemNext]_memVars  PROVE MemIInv'
  OBVIOUS
<1>1. CASE MemOpen \/ MemWrite \/ MemCrash \/ MemTick
  BY <1>1, MemOpenInv, MemWriteInv, MemCrashInv, MemTickInv
<1>2. CASE MemCompact
  <2>1. MemUpsert("summaries", Compacted, TRUE)
    BY <1>2 DEF MemCompact
  <2> QED
    BY <2>1, MemUpsertInv
<1>3. CASE MemCapture \/ MemValidate
  BY <1>3, MemCaptureInv, MemValidateInv
<1>4. ASSUME NEW ttl \in BOOLEAN,
             (\E k \in Keys : MemUpsert("entries", k, ttl)) \/ MemUpsert("summaries", Compacted, ttl)
      PROVE  MemIInv'
  BY <1>4, MemUpsertInv
<1>5. ASSUME NEW ttl \in BOOLEAN, NEW t \in Topics, NEW by \in {"human", "llm"}, MemDecide(t, by, ttl)
      PROVE  MemIInv'
  BY <1>5, MemDecideInv
<1>6. CASE UNCHANGED memVars
  BY <1>6, MemStutterInv
<1> QED
  BY <1>1, <1>2, <1>3, <1>4, <1>5, <1>6 DEF MemNext

LEMMA MemInvariant == MemSpec => []MemIInv
BY MemInitInv, MemInductive, PTL DEF MemSpec

\* The memory file holds rows of its three lists and nothing else, or is torn.
THEOREM MemTypeCorrect == MemSpec => []MemTypeOK
<1>1. MemIInv => MemTypeOK
  BY DEF MemIInv
<1> QED
  BY <1>1, MemInvariant, PTL

\* What memory_upsert, memory_summary_upsert and memory_decision_record have answered
\* for stays in the file, whatever is saved, compacted or pruned after it, for all
\* names, numbers of rows and times to live.
THEOREM MemKeepsRows == MemSpec => []MemKept
<1>1. MemIInv => MemKept
  BY DEF MemIInv, Promised, Has, MemKept
<1> QED
  BY <1>1, MemInvariant, PTL

-----------------------------------------------------------------------------
(***************************************************************************)
(* The pass over the decisions.  Its recursion has a solution, and the     *)
(* best so far is the last of those of the highest priority so far.        *)
(***************************************************************************)

Passed(f, rows, topic, n) ==
    f = [i \in 0..n |->
            IF i = 0 THEN <<>>
            ELSE IF rows[i].name # topic \/ MemExpired(rows[i]) THEN f[i - 1]
            ELSE IF f[i - 1] = <<>> \/ Better(rows[i], f[i - 1][1]) THEN <<rows[i]>>
            ELSE f[i - 1]]

LEMMA PassedOne ==
  ASSUME NEW rows, NEW topic, NEW n \in Nat, NEW f, Passed(f, rows, topic, n)
  PROVE  \E g : Passed(g, rows, topic, n + 1)
<1> DEFINE step(best, i) ==
              IF rows[i].name # topic \/ MemExpired(rows[i]) THEN best
              ELSE IF best = <<>> \/ Better(rows[i], best[1]) THEN <<rows[i]>> ELSE best
           g == [i \in 0..(n + 1) |-> IF i = n + 1 THEN step(f[n], n + 1) ELSE f[i]]
<1>1. \A i \in 0..n : f[i] = IF i = 0 THEN <<>> ELSE step(f[i - 1], i)
  BY DEF Passed
<1>2. f = [i \in 0..n |-> IF i = 0 THEN <<>> ELSE step(f[i - 1], i)]
  BY Zenon DEF Passed
<1> HIDE DEF step
<1>3. g[n + 1] = step(f[n], n + 1) /\ \A i \in 0..n : g[i] = f[i]
  OBVIOUS
<1>4. ASSUME NEW i \in 0..(n + 1)  PROVE g[i] = IF i = 0 THEN <<>> ELSE step(g[i - 1], i)
  <2>1. CASE i = n + 1
    <3>1. i # 0 /\ i - 1 = n /\ n \in 0..n
      BY <2>1
    <3>2. g[i - 1] = f[n] /\ g[i] = step(f[n], i)
      BY <1>3, <2>1, <3>1
    <3> QED
      BY <3>1, <3>2
  <2>2. CASE i \in 0..n
    <3>1. g[i] = f[i] /\ (i # 0 => g[i - 1] = f[i - 1])
      <4>1. i # 0 => i - 1 \in 0..n
        BY <2>2
      <4> QED
        BY <1>3, <2>2, <4>1
    <3> HIDE DEF g
    <3> QED
      BY <1>1, <2>2, <3>1
  <2> QED
    BY <2>1, <2>2
<1>5. g = [i \in 0..(n + 1) |-> IF i = 0 THEN <<>> ELSE step(g[i - 1], i)]
  <2>1. g = [i \in 0..(n + 1) |-> g[i]]
    OBVIOUS
  <2> HIDE DEF g
  <2> QED
    BY <1>4, <2>1
<1> HIDE DEF g
<1>6. Passed(g, rows, topic, n + 1)
  BY <1>5, Zenon DEF Passed, step
<1> QED
  BY <1>6

LEMMA PassedExists ==
  ASSUME NEW rows, NEW topic, NEW n \in Nat
  PROVE  \E f : Passed(f, rows, topic, n)
<1> DEFINE G == {i \in Nat : \E f : Passed(f, rows, topic, i)}
<1>1. 0 \in G
  <2> DEFINE g == [i \in 0..0 |-> <<>>]
  <2>1. Passed(g, rows, topic, 0)
    BY DEF Passed
  <2> QED
    BY <2>1
<1>2. \A i \in 0..(n - 1) : i \in G => i + 1 \in G
  BY PassedOne
<1>3. n \in G
  <2> HIDE DEF G
  <2>1. \A i \in 0..n : i \in G
    BY <1>1, <1>2, UpTo
  <2> QED
    BY <2>1
<1> QED
  BY <1>3

LEMMA EffectivePassed ==
  ASSUME NEW rows \in Seq(MemRow), NEW topic
  PROVE  \E f : Passed(f, rows, topic, Len(rows)) /\ EffectiveDecision(rows, topic) = f[Len(rows)]
<1>1. \E f : Passed(f, rows, topic, Len(rows))
  <2>1. Len(rows) \in Nat
    OBVIOUS
  <2> QED
    BY <2>1, PassedExists
<1> QED
  BY <1>1 DEF EffectiveDecision, Passed

\* The decisions among the first n that count, and the best of them.
Counting(rows, topic, n) == {i \in 1..n : rows[i].name = topic /\ ~MemExpired(rows[i])}
BestOf(rows, some) ==
    IF \E i \in some : rows[i].by = "human" THEN {i \in some : rows[i].by = "human"} ELSE some
IsBest(rows, topic, n, best) ==
    \/ Counting(rows, topic, n) = {} /\ best = <<>>
    \/ \E k \in BestOf(rows, Counting(rows, topic, n)) :
          /\ \A j \in BestOf(rows, Counting(rows, topic, n)) : j <= k
          /\ best = <<rows[k]>>

LEMMA BestOne ==
  ASSUME NEW rows \in Seq(MemRow), InTime(rows), memNow \in Nat, NEW topic,
         NEW n \in 0..(Len(rows) - 1), NEW best, IsBest(rows, topic, n, best),
         NEW next,
         next = IF rows[n + 1].name # topic \/ MemExpired(rows[n + 1]) THEN best
                ELSE IF best = <<>> \/ Better(rows[n + 1], best[1]) THEN <<rows[n + 1]>> ELSE best
  PROVE  IsBest(rows, topic, n + 1, next)
<1> DEFINE row == rows[n + 1]
           old == Counting(rows, topic, n)
           new == Counting(rows, topic, n + 1)
<1>1. /\ n \in Nat /\ n + 1 \in 1..Len(rows) /\ row \in MemRow
      /\ \A i \in 1..n : i \in 1..Len(rows) /\ rows[i] \in MemRow
  OBVIOUS
<1>2. old \subseteq 1..n
  BY DEF Counting
<1>3. CASE row.name # topic \/ MemExpired(row)
  <2>1. new = old
    BY <1>1, <1>3 DEF Counting
  <2>2. next = best
    BY <1>3
  <2> QED
    BY <2>1, <2>2 DEF IsBest
<1>4. CASE row.name = topic /\ ~MemExpired(row)
  <2>1. new = old \cup {n + 1}
    BY <1>1, <1>4 DEF Counting
  <2>2. next = IF best = <<>> \/ Better(row, best[1]) THEN <<row>> ELSE best
    BY <1>4
  <2> HIDE DEF old, new
  <2>3. CASE old = {}
    <3>1. best = <<>>
      BY <2>3 DEF IsBest, BestOf, old
    <3>2. next = <<row>> /\ new = {n + 1}
      BY <2>1, <2>2, <2>3, <3>1
    <3>3. BestOf(rows, new) = {n + 1}
      BY <3>2 DEF BestOf
    <3> QED
      BY <1>1, <3>2, <3>3 DEF IsBest, new
  <2>4. CASE old # {}
    <3>1. PICK k \in BestOf(rows, old) : (\A j \in BestOf(rows, old) : j <= k) /\ best = <<rows[k]>>
      BY <2>4 DEF IsBest, old
    <3>2. k \in old /\ k \in 1..n /\ rows[k] \in MemRow
      BY <1>1, <1>2, <3>1 DEF BestOf
    <3>3. best # <<>> /\ best[1] = rows[k]
      BY <3>1
    <3>4. rows[k].at <= row.at /\ rows[k].at \in Int /\ row.at \in Int
      <4>1. k \in DOMAIN rows /\ n + 1 \in DOMAIN rows /\ k < n + 1
        BY <1>1, <3>2
      <4>2. rows[k].at <= row.at
        BY <4>1 DEF InTime
      <4>3. \A r \in MemRow : r.at \in 0..MemMaxNow
        BY DEF MemRow
      <4> QED
        BY <1>1, <3>2, <4>2, <4>3, MemBoundsAssumption
    <3>5. next = IF Better(row, rows[k]) THEN <<row>> ELSE best
      BY <2>2, <3>3
    <3>6. row.by \in {"human", "llm"} /\ rows[k].by \in {"human", "llm"}
      BY <1>1, <3>2 DEF MemRow
    <3>7. Better(row, rows[k]) <=> row.by = "human" \/ rows[k].by # "human"
      BY <3>4, <3>6 DEF Better, DecisionPriority
    <3>8. rows[k].by = "human" <=> \E i \in old : rows[i].by = "human"
      BY <3>1 DEF BestOf
    <3>9. CASE row.by = "human" \/ rows[k].by # "human"
      <4>1. n + 1 \in BestOf(rows, new)
        BY <2>1, <3>8, <3>9 DEF BestOf
      <4>2. \A j \in BestOf(rows, new) : j <= n + 1
        <5>1. BestOf(rows, new) \subseteq 1..(n + 1)
          BY <1>1, <1>2, <2>1 DEF BestOf, old
        <5> QED
          BY <1>1, <5>1
      <4>3. next = <<row>>
        BY <3>5, <3>7, <3>9
      <4> QED
        BY <4>1, <4>2, <4>3 DEF IsBest, new
    <3>10. CASE row.by # "human" /\ rows[k].by = "human"
      <4>1. BestOf(rows, new) = BestOf(rows, old)
        BY <2>1, <3>8, <3>10 DEF BestOf
      <4>2. next = best
        BY <3>5, <3>7, <3>10
      <4> QED
        BY <3>1, <4>1, <4>2 DEF IsBest, new
    <3> QED
      BY <3>9, <3>10
  <2> QED
    BY <2>3, <2>4
<1> QED
  BY <1>3, <1>4

LEMMA EffectiveIsBest ==
  ASSUME NEW rows \in Seq(MemRow), InTime(rows), memNow \in Nat, NEW topic
  PROVE  IsBest(rows, topic, Len(rows), EffectiveDecision(rows, topic))
<1>1. PICK f : Passed(f, rows, topic, Len(rows)) /\ EffectiveDecision(rows, topic) = f[Len(rows)]
  BY EffectivePassed
<1>0. Len(rows) \in Nat
  OBVIOUS
<1> DEFINE G == {i \in 0..Len(rows) : IsBest(rows, topic, i, f[i])}
<1>2. 0 \in G
  <2>1. f[0] = <<>>
    BY <1>0, <1>1 DEF Passed
  <2>2. Counting(rows, topic, 0) = {}
    BY DEF Counting
  <2> QED
    BY <1>0, <2>1, <2>2 DEF IsBest
<1>3. ASSUME NEW n \in 0..(Len(rows) - 1), n \in G  PROVE n + 1 \in G
  <2>1. n + 1 \in 0..Len(rows) /\ n + 1 # 0 /\ (n + 1) - 1 = n
    BY <1>0
  <2>2. f[n + 1] = IF n + 1 = 0 THEN <<>>
                   ELSE IF rows[n + 1].name # topic \/ MemExpired(rows[n + 1]) THEN f[(n + 1) - 1]
                   ELSE IF f[(n + 1) - 1] = <<>> \/ Better(rows[n + 1], f[(n + 1) - 1][1])
                        THEN <<rows[n + 1]>>
                   ELSE f[(n + 1) - 1]
    BY <1>1, <2>1, Zenon DEF Passed
  <2>3. f[n + 1] = IF rows[n + 1].name # topic \/ MemExpired(rows[n + 1]) THEN f[n]
                   ELSE IF f[n] = <<>> \/ Better(rows[n + 1], f[n][1]) THEN <<rows[n + 1]>> ELSE f[n]
    BY <2>1, <2>2
  <2>4. IsBest(rows, topic, n, f[n])
    BY <1>3
  <2>5. IsBest(rows, topic, n + 1, f[n + 1])
    BY <2>3, <2>4, BestOne
  <2> QED
    BY <2>1, <2>5
<1>4. Len(rows) \in G
  <2> HIDE DEF G
  <2>1. \A i \in 0..Len(rows) : i \in G
    BY <1>0, <1>2, <1>3, UpTo
  <2> QED
    BY <1>0, <2>1
<1> QED
  BY <1>1, <1>4

\* "Human-over-llm priority": one pass over the decisions of the file finds, for every
\* topic, the last one of a human, or the last one of any, that has not expired.
THEOREM MemHumanFirst == MemSpec => []MemHumanWins
<1>1. MemIInv => MemHumanWins
  <2> SUFFICES ASSUME MemIInv, NEW topic \in Topics
               PROVE  LET rows == MemLoaded["decisions"]
                          live == {i \in DOMAIN rows : rows[i].name = topic /\ ~MemExpired(rows[i])}
                          best == IF \E i \in live : rows[i].by = "human"
                                  THEN {i \in live : rows[i].by = "human"} ELSE live
                      IN EffectiveDecision(rows, topic) =
                            IF live = {} THEN <<>>
                            ELSE <<rows[CHOOSE i \in best : \A j \in best : j <= i]>>
    BY DEF MemHumanWins
  <2> DEFINE rows == MemLoaded["decisions"]
             live == {i \in DOMAIN rows : rows[i].name = topic /\ ~MemExpired(rows[i])}
             best == IF \E i \in live : rows[i].by = "human"
                     THEN {i \in live : rows[i].by = "human"} ELSE live
             last == CHOOSE i \in best : \A j \in best : j <= i
  <2>1. rows \in Seq(MemRow) /\ InTime(rows) /\ memNow \in Nat
    BY MemTypes DEF MemIInv, Decisions, Lists, MemTypeOK
  <2> HIDE DEF rows
  <2>2. IsBest(rows, topic, Len(rows), EffectiveDecision(rows, topic))
    BY <2>1, EffectiveIsBest
  <2>3. live = Counting(rows, topic, Len(rows)) /\ live \subseteq 1..Len(rows) /\ Len(rows) \in Nat
    BY <2>1 DEF Counting
  <2> HIDE DEF live
  <2>4. best = BestOf(rows, live) /\ best \subseteq live
    BY DEF BestOf
  <2>5. CASE live = {}
    <3>1. EffectiveDecision(rows, topic) = <<>>
      BY <2>2, <2>3, <2>5 DEF IsBest, BestOf
    <3> QED
      BY <2>5, <3>1 DEF live, rows
  <2>6. CASE live # {}
    <3> HIDE DEF best
    <3>1. PICK k \in best : (\A j \in best : j <= k) /\ EffectiveDecision(rows, topic) = <<rows[k]>>
      BY <2>2, <2>3, <2>4, <2>6 DEF IsBest
    <3>2. last \in best /\ \A j \in best : j <= last
      BY <3>1
    <3>3. last = k
      <4> HIDE DEF last
      <4>1. last <= k /\ k <= last /\ last \in Nat /\ k \in Nat
        BY <2>3, <2>4, <3>1, <3>2
      <4> QED
        BY <4>1
    <3>4. EffectiveDecision(rows, topic) = IF live = {} THEN <<>> ELSE <<rows[last]>>
      BY <2>6, <3>1, <3>3
    <3> QED
      BY <3>4 DEF last, best, live, rows
  <2> QED
    BY <2>5, <2>6
<1> QED
  BY <1>1, MemInvariant, PTL

-----------------------------------------------------------------------------
(***************************************************************************)
(* The cached analyses and the repository index.                           *)
(***************************************************************************)

\* Some of the paths are finitely many.
LEMMA PathsFinite ==
  ASSUME NEW fs \in SUBSET IdxFiles
  PROVE  /\ IsFiniteSet(fs) /\ Cardinality(fs) \in Nat /\ fs \subseteq Nat
         /\ \A gs \in SUBSET fs : IsFiniteSet(gs) /\ Cardinality(gs) \in Nat
                                  /\ Cardinality(gs) <= Cardinality(fs)
                                  /\ (gs # fs => Cardinality(gs) < Cardinality(fs))
<1>1. IsFiniteSet(IdxFiles) /\ IdxFiles \subseteq Nat
  BY IdxAssumption
<1>2. IsFiniteSet(fs) /\ fs \subseteq Nat
  BY <1>1, FS_Subset
<1>3. Cardinality(fs) \in Nat
  BY <1>2, FS_CardinalityType
<1>4. ASSUME NEW gs \in SUBSET fs
      PROVE  /\ IsFiniteSet(gs) /\ Cardinality(gs) \in Nat /\ Cardinality(gs) <= Cardinality(fs)
             /\ gs # fs => Cardinality(gs) < Cardinality(fs)
  <2>1. /\ IsFiniteSet(gs) /\ Cardinality(gs) <= Cardinality(fs)
        /\ Cardinality(gs) = Cardinality(fs) => gs = fs
    BY <1>2, FS_Subset
  <2>2. Cardinality(gs) \in Nat
    BY <2>1, FS_CardinalityType
  <2> QED
    BY <1>3, <2>1, <2>2
<1> QED
  BY <1>2, <1>3, <1>4

\* The first n of no more than n files are all of them.
LEMMA FirstOfFew ==
  ASSUME NEW fs \in SUBSET IdxFiles, NEW n \in Nat, Cardinality(fs) <= n
  PROVE  First(fs, n) = fs
<1>1. ASSUME NEW f \in fs  PROVE Cardinality({g \in fs : g < f}) < n
  <2> DEFINE gs == {g \in fs : g < f}
  <2>1. gs \in SUBSET fs /\ gs # fs
    BY PathsFinite
  <2>2. Cardinality(gs) < Cardinality(fs) /\ Cardinality(gs) \in Nat /\ Cardinality(fs) \in Nat
    <3> HIDE DEF gs
    <3> QED
      BY <2>1, PathsFinite
  <2> QED
    BY <2>2
<1> QED
  BY <1>1 DEF First

\* If the first n files are fewer than n, there are no others.
LEMMA FirstIsShort ==
  ASSUME NEW fs \in SUBSET IdxFiles, NEW n \in Nat, Cardinality(First(fs, n)) < n
  PROVE  First(fs, n) = fs
<1> DEFINE Rest == {f \in fs : f \notin First(fs, n)}
<1>1. SUFFICES ASSUME Rest # {}  PROVE FALSE
  BY DEF First
<1>2. fs \subseteq Nat /\ Rest \subseteq Nat
  BY PathsFinite
<1>3. PICK f \in Rest : \A g \in Rest : f <= g
  <2> HIDE DEF Rest
  <2> QED
    BY <1>1, <1>2, LeastNumber
<1> DEFINE gs == {g \in fs : g < f}
<1>4. gs \in SUBSET First(fs, n)
  BY <1>2, <1>3
<1>5. ~(Cardinality(gs) < n)
  BY <1>3 DEF First
<1>6. First(fs, n) \in SUBSET IdxFiles
  BY DEF First
<1>7. /\ Cardinality(gs) \in Nat /\ Cardinality(First(fs, n)) \in Nat
      /\ Cardinality(gs) <= Cardinality(First(fs, n))
  <2> HIDE DEF gs
  <2> QED
    BY <1>4, <1>6, PathsFinite
<1> QED
  BY <1>5, <1>7

\* What the walk, the analyses and the fingerprints return.
LEMMA Walk ==
  ASSUME NEW tree \in IdxTree, NEW root \in IdxRoots
  PROVE  /\ Present(tree, root) \in SUBSET IdxFiles
         /\ Python(tree, root) \in SUBSET IdxPython
         /\ Python(tree, root) \subseteq Present(tree, root)
         /\ Python(tree, root) \in SUBSET IdxFiles
         /\ \A f \in Present(tree, root) : tree[f].text \in IdxTexts
         /\ \A tool : /\ Scope(tool, tree, root) \subseteq Python(tree, root)
                      /\ Analysis(tool, tree, root) \in Found
                      /\ DOMAIN Analysis(tool, tree, root) = Scope(tool, tree, root)
                      /\ \A f \in Scope(tool, tree, root) : Analysis(tool, tree, root)[f] = tree[f].text
                      /\ Fingerprint(tool, tree, root) \in Found
<1>1. IdxFiles \subseteq Nat /\ IdxPython \subseteq IdxFiles /\ root \subseteq IdxFiles
  BY IdxAssumption
<1>2. \A f \in Present(tree, root) : f \in IdxFiles /\ tree[f].text \in IdxTexts
  BY <1>1 DEF Present, IdxTree
<1>3. /\ Python(tree, root) \subseteq Present(tree, root) /\ Python(tree, root) \in SUBSET IdxPython
      /\ Python(tree, root) \in SUBSET IdxFiles
  BY <1>1 DEF Python
<1>4. ASSUME NEW tool
      PROVE  /\ Scope(tool, tree, root) \subseteq Python(tree, root)
             /\ Analysis(tool, tree, root) \in Found
             /\ DOMAIN Analysis(tool, tree, root) = Scope(tool, tree, root)
             /\ \A f \in Scope(tool, tree, root) : Analysis(tool, tree, root)[f] = tree[f].text
             /\ Fingerprint(tool, tree, root) \in Found
  <2>1. \A n : First(Python(tree, root), n) \subseteq Python(tree, root)
    BY DEF First
  <2>2. Scope(tool, tree, root) \subseteq Python(tree, root)
    BY <2>1 DEF Scope
  <2>3. \A fs : fs \subseteq Python(tree, root) => [f \in fs |-> tree[f].text] \in Found
    <3> SUFFICES ASSUME NEW fs, fs \subseteq Python(tree, root)
                 PROVE  [f \in fs |-> tree[f].text] \in Found
      OBVIOUS
    <3>1. fs \in SUBSET IdxPython /\ [f \in fs |-> tree[f].text] \in [fs -> IdxTexts]
      BY <1>2, <1>3
    <3> QED
      BY <3>1 DEF Found
  <2> QED
    BY <2>1, <2>2, <2>3 DEF Analysis, Fingerprint
<1> QED
  BY <1>2, <1>3, <1>4

\* The first rows are rows.
LEMMA CutRows ==
  ASSUME NEW rows \in Found, NEW n
  PROVE  Cut(rows, n) \in Found /\ DOMAIN Cut(rows, n) \subseteq DOMAIN rows
<1>1. PICK fs \in SUBSET IdxPython : rows \in [fs -> IdxTexts]
  BY DEF Found
<1>2. First(DOMAIN rows, n) \subseteq fs
  BY <1>1 DEF First
<1>3. Cut(rows, n) \in [First(DOMAIN rows, n) -> IdxTexts] /\ First(DOMAIN rows, n) \in SUBSET IdxPython
  BY <1>1, <1>2 DEF Cut
<1> QED
  BY <1>1, <1>2, <1>3 DEF Found, Cut

\* An analysis answers for the fingerprint taken of the same tree.
LEMMA AnalysisAnswers ==
  ASSUME NEW tree \in IdxTree, NEW root \in IdxRoots, NEW tool \in IdxTools,
         NEW key, key.print = Fingerprint(tool, tree, root)
  PROVE  AnswersFor(tool, key, Analysis(tool, tree, root))
<1> DEFINE fs == Python(tree, root)
           n == IF tool = "deps" THEN DepsMax ELSE PrintMax
<1>1. fs \in SUBSET IdxFiles /\ n \in Nat
  BY Walk, IdxAssumption
<1>2. First(fs, n) \subseteq fs
  BY DEF First
<1>3. /\ DOMAIN key.print = First(fs, n)
      /\ \A f \in First(fs, n) : key.print[f] = tree[f].text
  BY DEF Fingerprint
<1>4. DOMAIN Analysis(tool, tree, root) = IF tool = "deps" THEN First(fs, n) ELSE fs
  BY DEF Analysis, Scope
<1>5. \A f \in DOMAIN Analysis(tool, tree, root) : Analysis(tool, tree, root)[f] = tree[f].text
  BY DEF Analysis
<1>6. ASSUME Sure(tool, key)  PROVE Analysis(tool, tree, root) = key.print
  <2>1. CASE tool = "deps"
    BY <2>1 DEF Analysis, Scope, Fingerprint
  <2>2. CASE tool = "symbols"
    <3>1. Cardinality(First(fs, n)) < n /\ n = PrintMax
      BY <1>3, <1>6, <2>2 DEF Sure
    <3> HIDE DEF fs, n
    <3>2. First(fs, n) = fs
      BY <1>1, <3>1, FirstIsShort
    <3> QED
      BY <2>2, <3>1, <3>2 DEF Analysis, Scope, Fingerprint, fs
  <2> QED
    BY <2>1, <2>2 DEF IdxTools
<1> QED
  <2> HIDE DEF fs, n
  <2> QED
    BY <1>2, <1>3, <1>4, <1>5, <1>6 DEF AnswersFor

\* The cache after a row was added: no new rows but that one, and no more than allowed.
LEMMA CachedRows ==
  ASSUME NEW R, NEW rows \in Seq(R), NEW row \in R
  PROVE  /\ Cached(rows, row) \in Seq(R)
         /\ Len(Cached(rows, row)) <= CacheMax
         /\ \A i \in DOMAIN Cached(rows, row) :
               Cached(rows, row)[i] = row \/ \E j \in DOMAIN rows : Cached(rows, row)[i] = rows[j]
<1> DEFINE others == Only(rows, {r \in Range(rows) : r.key # row.key})
           all == Append(others, row)
           first == IF Len(all) > CacheMax THEN Len(all) - CacheMax + 1 ELSE 1
           kept == SubSeq(all, first, Len(all))
<1>0. CacheMax \in Nat \ {0}
  BY IdxAssumption
<1>1. /\ others \in Seq(R)
      /\ \A i \in DOMAIN others : \E j \in DOMAIN rows : rows[j] = others[i]
  <2> DEFINE keep == {r \in Range(rows) : r.key # row.key}
  <2> HIDE DEF keep
  <2>1. Only(rows, keep) \in Seq(R) /\ \A i \in DOMAIN Only(rows, keep) : \E j \in DOMAIN rows : rows[j] = Only(rows, keep)[i]
    BY OnlyElements
  <2> QED
    BY <2>1 DEF keep
<1> HIDE DEF others
<1>2. /\ all \in Seq(R) /\ Len(all) = Len(others) + 1 /\ Len(others) \in Nat
      /\ \A i \in 1..Len(all) : all[i] = row \/ \E j \in DOMAIN others : all[i] = others[j]
  BY <1>1
<1>3. \A i \in 1..Len(all) : all[i] = row \/ \E j \in DOMAIN rows : all[i] = rows[j]
  BY <1>1, <1>2
<1> HIDE DEF all
<1>4. first \in 1..Len(all) /\ Len(all) - first + 1 <= CacheMax
  BY <1>0, <1>2
<1> HIDE DEF first
<1>5. \A i \in first..Len(all) : all[i] \in R
  BY <1>2, <1>4
<1>6. /\ kept \in Seq(R) /\ Len(kept) = Len(all) - first + 1
      /\ \A i \in 1..Len(kept) : kept[i] = all[first + i - 1]
  BY <1>2, <1>4, <1>5, SubSeqProperties
<1>7. \A i \in DOMAIN kept : kept[i] = row \/ \E j \in DOMAIN rows : kept[i] = rows[j]
  <2> SUFFICES ASSUME NEW i \in DOMAIN kept
               PROVE  kept[i] = row \/ \E j \in DOMAIN rows : kept[i] = rows[j]
    OBVIOUS
  <2>1. i \in 1..Len(kept)
    BY <1>6
  <2>2. first + i - 1 \in 1..Len(all) /\ kept[i] = all[first + i - 1]
    BY <1>2, <1>4, <1>6, <2>1
  <2> HIDE DEF kept
  <2> QED
    BY <1>3, <2>2
<1>8. Cached(rows, row) = kept
  BY DEF Cached, kept, first, all, others
<1> QED
  BY <1>4, <1>6, <1>7, <1>8

-----------------------------------------------------------------------------
\* The inductive invariant at the beginning.

LEMMA IdxInitInv == IdxInit => IdxIInv
<1> SUFFICES ASSUME IdxInit  PROVE IdxIInv
  OBVIOUS
<1>0. IdxMaxEdits \in Nat /\ IdxMaxCalls \in Nat /\ CacheMax \in Nat
  BY IdxAssumption
<1>1. idxTree \in IdxTree /\ \A f \in IdxFiles : idxTree[f].stamp = 0
  BY DEF IdxInit
<1>2. \A tool \in IdxTools : idxCache[tool] = <<>>
  BY DEF IdxInit, NoRows
<1>3. IdxTypeOK
  <2>1. \A tool \in IdxTools : idxCache[tool] \in Seq([key : IdxKeys, value : Found]) /\ Len(idxCache[tool]) <= CacheMax
    <3>1. \A S : <<>> \in Seq(S)
      OBVIOUS
    <3>2. Len(<<>>) <= CacheMax
      BY <1>0
    <3> QED
      BY <1>2, <3>1, <3>2, Zenon
  <2>2. /\ idxIndex \in Payload \cup {NoPayload} /\ idxOp \in IdxCall \cup {IdxIdle} /\ idxJob = IdxIdle
        /\ idxRaced \subseteq IdxKeys /\ idxEdited \in BOOLEAN
    BY Zenon DEF IdxInit
  <2>3. idxEdits \in 0..IdxMaxEdits /\ idxCalls \in 0..IdxMaxCalls
    BY <1>0 DEF IdxInit
  <2> QED
    BY <1>1, <2>1, <2>2, <2>3 DEF IdxTypeOK, IdxInit, NoRows
<1>4. RowsAnswer
  BY <1>2 DEF RowsAnswer
<1>5. CallAnswers /\ Phases /\ Asked /\ IndexFits
  BY DEF IdxInit, CallAnswers, Phases, Asked, Whole, IndexFits
<1>6. Stamps
  BY <1>1 DEF IdxInit, Stamps
<1> QED
  BY <1>3, <1>4, <1>5, <1>6 DEF IdxIInv

-----------------------------------------------------------------------------
\* An analysis is asked for.
LEMMA Started ==
  ASSUME IdxIInv, NEW tool \in IdxTools, NEW root \in IdxRoots, StartCall(tool, root)
  PROVE  /\ idxOp' \in IdxCall /\ idxOp'.tool = tool /\ idxOp'.step \in {"read", "answer"}
         /\ idxOp'.want = Analysis(tool, idxTree, root)
         /\ AnswersFor(tool, idxOp'.key, idxOp'.want)
         /\ idxOp'.step = "answer" /\ idxOp'.key \notin idxRaced
               => AnswersFor(tool, idxOp'.key, idxOp'.value)
<1> DEFINE key == [root |-> root, print |-> Fingerprint(tool, idxTree, root)]
           rows == {r \in Range(idxCache[tool]) : r.key = key}
           want == Analysis(tool, idxTree, root)
           call == [step |-> "read", tool |-> tool, key |-> key, value |-> NoneFound, want |-> want]
<1>1. idxTree \in IdxTree /\ idxCache[tool] \in Seq([key : IdxKeys, value : Found])
  BY DEF IdxIInv, IdxTypeOK
<1>2. key \in IdxKeys /\ want \in Found /\ NoneFound \in Found
  <2>1. Fingerprint(tool, idxTree, root) \in Found /\ want \in Found
    BY <1>1, Walk
  <2>2. NoneFound \in [{} -> IdxTexts] /\ {} \in SUBSET IdxPython
    BY DEF NoneFound
  <2> QED
    BY <2>1, <2>2 DEF IdxKeys, Found
<1>3. AnswersFor(tool, key, want)
  BY <1>1, AnalysisAnswers
<1>4. \A r \in rows : /\ r.key = key /\ r.value \in Found
                      /\ key \notin idxRaced => AnswersFor(tool, key, r.value)
  <2> SUFFICES ASSUME NEW r \in rows
               PROVE  /\ r.key = key /\ r.value \in Found
                      /\ key \notin idxRaced => AnswersFor(tool, key, r.value)
    OBVIOUS
  <2>1. PICK i \in DOMAIN idxCache[tool] : idxCache[tool][i] = r
    BY DEF Range
  <2>2. r \in [key : IdxKeys, value : Found]
    BY <1>1, <2>1, ElementOfSeq, LenProperties
  <2>3. r.key = key /\ r.value \in Found
    BY <2>2
  <2>4. r.key \notin idxRaced => AnswersFor(tool, r.key, r.value)
    BY <2>1 DEF IdxIInv, RowsAnswer
  <2> QED
    BY <2>3, <2>4
<1> HIDE DEF key, want
<1>5. idxOp' = IF rows = {} THEN call
               ELSE [call EXCEPT !.step = "answer", !.value = (CHOOSE r \in rows : TRUE).value]
  BY DEF StartCall, key, want
<1> HIDE DEF rows
<1>6. CASE rows = {}
  <2>1. idxOp' = call
    BY <1>5, <1>6
  <2> QED
    BY <1>2, <1>3, <2>1 DEF IdxCall, want
<1>7. CASE rows # {}
  <2> DEFINE r == CHOOSE r \in rows : TRUE
  <2>1. r \in rows
    BY <1>7
  <2> HIDE DEF r
  <2>2. idxOp' = [call EXCEPT !.step = "answer", !.value = r.value]
    BY <1>5, <1>7 DEF r
  <2>3. r.value \in Found /\ (key \notin idxRaced => AnswersFor(tool, key, r.value))
    BY <1>4, <2>1
  <2>4. idxOp' = [step |-> "answer", tool |-> tool, key |-> key, value |-> r.value, want |-> want]
    BY <2>2
  <2> QED
    BY <1>2, <1>3, <2>3, <2>4 DEF IdxCall, want
<1> QED
  BY <1>6, <1>7

-----------------------------------------------------------------------------
\* What the types say of an analysis and of a refresh in progress.
LEMMA Going ==
  ASSUME IdxTypeOK
  PROVE  /\ idxTree \in IdxTree
         /\ \/ idxOp = IdxIdle /\ idxOp.step = "idle"
            \/ /\ idxOp # IdxIdle /\ idxOp \in IdxCall
               /\ idxOp.step \in {"read", "fill", "answer"} /\ idxOp.tool \in IdxTools
               /\ idxOp.key \in IdxKeys /\ idxOp.key.root \in IdxRoots
               /\ idxOp.value \in Found /\ idxOp.want \in Found
         /\ \/ idxJob = IdxIdle /\ idxJob.step = "idle"
            \/ /\ idxJob # IdxIdle /\ idxJob \in [step : {"symbols", "deps", "fill"}, payload : Payload]
               /\ idxJob.step \in {"symbols", "deps", "fill"} /\ idxJob.payload \in Payload
               /\ idxJob.payload.root \in IdxRoots
<1>1. IdxIdle.step = "idle"
  BY DEF IdxIdle
<1>2. \A c \in IdxCall :
        /\ c.step \in {"read", "fill", "answer"} /\ c.tool \in IdxTools
        /\ c.key \in IdxKeys /\ c.key.root \in IdxRoots /\ c.value \in Found /\ c.want \in Found
  BY DEF IdxCall, IdxKeys
<1>3. \A j \in [step : {"symbols", "deps", "fill"}, payload : Payload] :
        j.step \in {"symbols", "deps", "fill"} /\ j.payload \in Payload /\ j.payload.root \in IdxRoots
  BY DEF Payload
<1>4. /\ idxTree \in IdxTree /\ (idxOp = IdxIdle \/ idxOp \in IdxCall)
      /\ idxJob = IdxIdle \/ idxJob \in [step : {"symbols", "deps", "fill"}, payload : Payload]
  BY DEF IdxTypeOK
<1>5. idxOp \in IdxCall => idxOp # IdxIdle
  BY <1>1, <1>2
<1>6. idxJob \in [step : {"symbols", "deps", "fill"}, payload : Payload] => idxJob # IdxIdle
  BY <1>1, <1>3
<1> QED
  BY <1>1, <1>2, <1>3, <1>4, <1>5, <1>6, Zenon

LEMMA AskInv ==
  ASSUME IdxIInv, NEW tool \in IdxTools, NEW root \in IdxRoots, Ask(tool, root)
  PROVE  IdxIInv'
<1>1. /\ StartCall(tool, root) /\ idxOp = IdxIdle /\ idxJob = IdxIdle
      /\ idxCalls < IdxMaxCalls /\ idxCalls' = idxCalls + 1
      /\ UNCHANGED <<idxTree, idxCache, idxIndex, idxJob, idxEdits, idxRaced, idxEdited>>
  BY DEF Ask, BeginCall
<1>2. /\ idxOp' \in IdxCall /\ idxOp'.step \in {"read", "answer"} /\ idxOp'.tool = tool
      /\ AnswersFor(tool, idxOp'.key, idxOp'.want)
      /\ idxOp'.step = "answer" /\ idxOp'.key \notin idxRaced => AnswersFor(tool, idxOp'.key, idxOp'.value)
  BY <1>1, Started
<1>3. IdxTypeOK'
  <2>1. IdxTypeOK /\ IdxMaxCalls \in Nat
    BY IdxAssumption DEF IdxIInv
  <2>2. idxCalls' \in 0..IdxMaxCalls
    BY <1>1, <2>1 DEF IdxTypeOK
  <2> QED
    BY <1>1, <1>2, <2>1, <2>2 DEF IdxTypeOK
<1>4. CallAnswers'
  BY <1>1, <1>2 DEF CallAnswers
<1>5. RowsAnswer' /\ Stamps' /\ Phases' /\ Asked' /\ IndexFits'
  <2>1. RowsAnswer'
    BY <1>1 DEF IdxIInv, RowsAnswer
  <2>2. Stamps'
    BY <1>1 DEF IdxIInv, Stamps
  <2>3. Phases' /\ Asked'
    BY <1>1 DEF Phases, Asked, Whole
  <2>4. IndexFits'
    BY <1>1 DEF IdxIInv, IndexFits, FilesFit, SymbolsFit, EdgesFit, Current, Whole
  <2> QED
    BY <2>1, <2>2, <2>3, <2>4
<1> QED
  BY <1>3, <1>4, <1>5 DEF IdxIInv

LEMMA AnalyseInv ==
  ASSUME IdxIInv, Analyse
  PROVE  IdxIInv'
<1> DEFINE found == Analysis(idxOp.tool, idxTree, idxOp.key.root)
<1>0. IdxTypeOK
  BY DEF IdxIInv
<1>1. /\ idxOp.step = "read" /\ idxOp' = [idxOp EXCEPT !.step = "fill", !.value = found]
      /\ idxRaced' = IF found = idxOp.want THEN idxRaced ELSE idxRaced \cup {idxOp.key}
      /\ UNCHANGED <<idxTree, idxCache, idxIndex, idxJob, idxEdits, idxCalls, idxEdited>>
  BY DEF Analyse
<1>2. /\ idxOp # IdxIdle /\ idxOp \in IdxCall /\ idxOp.tool \in IdxTools /\ idxOp.key \in IdxKeys
      /\ idxOp.key.root \in IdxRoots /\ idxTree \in IdxTree
  BY <1>0, <1>1, Going
<1>3. found \in Found
  BY <1>2, Walk
<1> HIDE DEF found
<1>4. /\ idxOp' \in IdxCall /\ idxOp'.step = "fill" /\ idxOp'.value = found /\ idxOp' # IdxIdle
      /\ idxOp'.tool = idxOp.tool /\ idxOp'.key = idxOp.key /\ idxOp'.want = idxOp.want
  BY <1>1, <1>2, <1>3 DEF IdxCall, IdxIdle
<1>5. idxRaced \subseteq idxRaced' /\ idxRaced' \subseteq IdxKeys
  BY <1>0, <1>1, <1>2 DEF IdxTypeOK
<1>6. IdxTypeOK'
  BY <1>0, <1>1, <1>4, <1>5 DEF IdxTypeOK
<1>7. CallAnswers'
  <2>1. idxOp.key \notin idxRaced' => found = idxOp.want
    BY <1>1
  <2>2. AnswersFor(idxOp.tool, idxOp.key, idxOp.want)
    BY <1>2 DEF IdxIInv, CallAnswers
  <2> QED
    BY <1>4, <2>1, <2>2 DEF CallAnswers
<1>8. RowsAnswer'
  BY <1>1, <1>5 DEF IdxIInv, RowsAnswer
<1>9. Stamps' /\ Phases' /\ Asked'
  BY <1>1, <1>2, <1>4 DEF IdxIInv, Stamps, Phases, Asked, Whole
<1>10. IndexFits'
  BY <1>1 DEF IdxIInv, IndexFits, FilesFit, SymbolsFit, EdgesFit, Current, Whole
<1> QED
  BY <1>6, <1>7, <1>8, <1>9, <1>10 DEF IdxIInv

LEMMA CacheFillInv ==
  ASSUME IdxIInv, CacheFill
  PROVE  IdxIInv'
<1> DEFINE row == [key |-> idxOp.key, value |-> idxOp.value]
<1>0. IdxTypeOK
  BY DEF IdxIInv
<1>1. /\ idxOp.step = "fill" /\ idxOp' = [idxOp EXCEPT !.step = "answer"]
      /\ idxCache' = [idxCache EXCEPT ![idxOp.tool] = Cached(@, row)]
      /\ UNCHANGED <<idxTree, idxIndex, idxJob, idxEdits, idxCalls, idxRaced, idxEdited>>
  BY DEF CacheFill
<1>2. /\ idxOp # IdxIdle /\ idxOp \in IdxCall /\ idxOp.tool \in IdxTools /\ idxOp.key \in IdxKeys
      /\ idxOp.value \in Found
  BY <1>0, <1>1, Going
<1>3. /\ idxOp' \in IdxCall /\ idxOp'.step = "answer" /\ idxOp'.value = idxOp.value /\ idxOp' # IdxIdle
      /\ idxOp'.tool = idxOp.tool /\ idxOp'.key = idxOp.key /\ idxOp'.want = idxOp.want
  BY <1>1, <1>2 DEF IdxCall, IdxIdle
<1>4. /\ AnswersFor(idxOp.tool, idxOp.key, idxOp.want)
      /\ idxOp.key \notin idxRaced => AnswersFor(idxOp.tool, idxOp.key, idxOp.value)
  BY <1>1, <1>2 DEF IdxIInv, CallAnswers
<1> DEFINE R == [key : IdxKeys, value : Found]
<1>5. row \in R
  BY <1>2
<1>6. /\ idxCache \in [IdxTools -> Seq(R)]
      /\ \A tool \in IdxTools : idxCache[tool] \in Seq(R) /\ Len(idxCache[tool]) <= CacheMax
  BY <1>0 DEF IdxTypeOK
<1> HIDE DEF R
<1>7. ASSUME NEW tool \in IdxTools
      PROVE  /\ idxCache'[tool] \in Seq(R) /\ Len(idxCache'[tool]) <= CacheMax
             /\ \A i \in DOMAIN idxCache'[tool] :
                   idxCache'[tool][i].key \notin idxRaced
                      => AnswersFor(tool, idxCache'[tool][i].key, idxCache'[tool][i].value)
  <2>1. idxCache' = [idxCache EXCEPT ![idxOp.tool] = Cached(idxCache[idxOp.tool], row)]
    BY <1>1
  <2>2. idxCache \in [IdxTools -> Seq(R)]
    BY <1>6
  <2>3. /\ Cached(idxCache[idxOp.tool], row) \in Seq(R)
        /\ Len(Cached(idxCache[idxOp.tool], row)) <= CacheMax
        /\ \A i \in DOMAIN Cached(idxCache[idxOp.tool], row) :
              \/ Cached(idxCache[idxOp.tool], row)[i] = row
              \/ \E j \in DOMAIN idxCache[idxOp.tool] :
                    Cached(idxCache[idxOp.tool], row)[i] = idxCache[idxOp.tool][j]
    BY <1>2, <1>5, <1>6, CachedRows
  <2>4. \A t \in IdxTools : \A j \in DOMAIN idxCache[t] :
           idxCache[t][j].key \notin idxRaced => AnswersFor(t, idxCache[t][j].key, idxCache[t][j].value)
    BY DEF IdxIInv, RowsAnswer
  <2>5. row.key = idxOp.key /\ row.value = idxOp.value
    OBVIOUS
  <2> HIDE DEF row
  <2>6. CASE tool = idxOp.tool
    <3>1. idxCache'[tool] = Cached(idxCache[idxOp.tool], row)
      BY <1>2, <2>1, <2>2, <2>6
    <3> QED
      BY <1>4, <2>3, <2>4, <2>5, <2>6, <3>1
  <2>7. CASE tool # idxOp.tool
    <3>1. idxCache'[tool] = idxCache[tool]
      BY <1>2, <2>1, <2>2, <2>7
    <3> QED
      BY <1>6, <2>4, <3>1
  <2> QED
    BY <2>6, <2>7
<1>8. IdxTypeOK'
  <2>1. idxCache' \in [IdxTools -> Seq(R)]
    <3>1. DOMAIN idxCache' = IdxTools /\ idxCache' = [t \in DOMAIN idxCache |-> idxCache'[t]]
      BY <1>1, <1>6
    <3> QED
      BY <1>6, <1>7, <3>1
  <2> QED
    BY <1>0, <1>1, <1>3, <1>7, <2>1 DEF IdxTypeOK, R
<1>9. RowsAnswer'
  BY <1>1, <1>7 DEF RowsAnswer
<1>10. CallAnswers'
  BY <1>1, <1>3, <1>4 DEF CallAnswers
<1>11. Stamps' /\ Phases' /\ Asked'
  BY <1>1, <1>2, <1>3 DEF IdxIInv, Stamps, Phases, Asked, Whole
<1>12. IndexFits'
  BY <1>1 DEF IdxIInv, IndexFits, FilesFit, SymbolsFit, EdgesFit, Current, Whole
<1> QED
  BY <1>8, <1>9, <1>10, <1>11, <1>12 DEF IdxIInv

\* The rows after the first m.
LEMMA LaterRows ==
  ASSUME NEW R, NEW rows \in Seq(R), NEW m \in Nat
  PROVE  LET kept == SubSeq(rows, m + 1, Len(rows))
         IN /\ kept \in Seq(R) /\ Len(kept) \in Nat /\ Len(kept) <= Len(rows) /\ Len(rows) \in Nat
            /\ \A i \in DOMAIN kept : \E j \in DOMAIN rows : kept[i] = rows[j]
<1>1. PICK n \in Nat : n = Len(rows)
  OBVIOUS
<1>2. DOMAIN rows = 1..n
  BY <1>1
<1> DEFINE kept == SubSeq(rows, m + 1, n)
<1>3. \A i \in m + 1 .. n : rows[i] \in R
  BY <1>2
<1>4. /\ kept \in Seq(R) /\ Len(kept) = IF m + 1 <= n THEN n - (m + 1) + 1 ELSE 0
      /\ \A i \in 1 .. n - (m + 1) + 1 : kept[i] = rows[(m + 1) + i - 1]
  BY <1>3, SubSeqProperties
<1> HIDE DEF kept
<1>5. Len(kept) \in Nat /\ Len(kept) <= n /\ (Len(kept) = 0 \/ Len(kept) = n - m)
  BY <1>4
<1>6. DOMAIN kept = 1..Len(kept)
  BY <1>4
<1>7. ASSUME NEW i \in DOMAIN kept  PROVE \E j \in DOMAIN rows : kept[i] = rows[j]
  <2>1. i \in 1 .. n - (m + 1) + 1
    BY <1>5, <1>6
  <2>2. (m + 1) + i - 1 \in DOMAIN rows
    BY <1>2, <2>1
  <2> QED
    BY <1>4, <2>1, <2>2
<1> QED
  BY <1>1, <1>4, <1>5, <1>7 DEF kept

LEMMA CacheControlInv ==
  ASSUME IdxIInv, NEW tools \in SUBSET IdxTools, CacheControl(tools)
  PROVE  IdxIInv'
<1>0. IdxTypeOK /\ IdxMaxCalls \in Nat /\ CacheMax \in Nat
  BY IdxAssumption DEF IdxIInv
<1>1. /\ idxOp = IdxIdle /\ idxJob = IdxIdle /\ idxCalls < IdxMaxCalls /\ idxCalls' = idxCalls + 1
      /\ UNCHANGED <<idxTree, idxIndex, idxOp, idxJob, idxEdits, idxRaced, idxEdited>>
  BY DEF CacheControl, BeginCall
<1>2. PICK n \in [tools -> 0..CacheMax] :
         idxCache' = [tool \in IdxTools |->
             IF tool \in tools THEN SubSeq(idxCache[tool], n[tool] + 1, Len(idxCache[tool]))
             ELSE idxCache[tool]]
  BY DEF CacheControl
<1> DEFINE R == [key : IdxKeys, value : Found]
<1>3. /\ idxCache \in [IdxTools -> Seq(R)]
      /\ \A t \in IdxTools : idxCache[t] \in Seq(R) /\ Len(idxCache[t]) <= CacheMax
  BY <1>0 DEF IdxTypeOK
<1> HIDE DEF R
<1>4. ASSUME NEW t \in IdxTools
      PROVE  /\ idxCache'[t] \in Seq(R) /\ Len(idxCache'[t]) <= CacheMax
             /\ \A i \in DOMAIN idxCache'[t] : \E j \in DOMAIN idxCache[t] : idxCache'[t][i] = idxCache[t][j]
  <2>1. CASE t \notin tools
    BY <1>2, <1>3, <2>1
  <2>2. CASE t \in tools
    <3> DEFINE rows == idxCache[t]
               kept == SubSeq(rows, n[t] + 1, Len(rows))
    <3>1. idxCache'[t] = kept /\ n[t] \in Nat /\ rows \in Seq(R) /\ Len(rows) <= CacheMax
      BY <1>2, <1>3, <2>2
    <3>2. /\ kept \in Seq(R) /\ Len(kept) \in Nat /\ Len(kept) <= Len(rows) /\ Len(rows) \in Nat
          /\ \A i \in DOMAIN kept : \E j \in DOMAIN rows : kept[i] = rows[j]
      <4> HIDE DEF rows
      <4> QED
        BY <3>1, LaterRows
    <3> HIDE DEF kept
    <3>3. Len(kept) <= CacheMax
      BY <1>0, <3>1, <3>2
    <3> QED
      BY <3>1, <3>2, <3>3
  <2> QED
    BY <2>1, <2>2
<1>7. IdxTypeOK'
  <2>1. idxCache' \in [IdxTools -> Seq(R)] /\ \A t \in IdxTools : Len(idxCache'[t]) <= CacheMax
    <3>1. DOMAIN idxCache' = IdxTools /\ idxCache' = [t \in DOMAIN idxCache' |-> idxCache'[t]]
      BY <1>2
    <3> QED
      BY <1>4, <3>1
  <2>2. idxCalls' \in 0..IdxMaxCalls
    BY <1>0, <1>1 DEF IdxTypeOK
  <2> QED
    BY <1>0, <1>1, <2>1, <2>2 DEF IdxTypeOK, R
<1>8. RowsAnswer'
  <2> SUFFICES ASSUME NEW t \in IdxTools, NEW i \in DOMAIN idxCache'[t], idxCache'[t][i].key \notin idxRaced
               PROVE  AnswersFor(t, idxCache'[t][i].key, idxCache'[t][i].value)
    BY <1>1 DEF RowsAnswer
  <2>1. \E j \in DOMAIN idxCache[t] : idxCache'[t][i] = idxCache[t][j]
    BY <1>4
  <2> QED
    BY <2>1 DEF IdxIInv, RowsAnswer
<1>9. CallAnswers' /\ Phases' /\ Asked'
  BY <1>1 DEF CallAnswers, Phases, Asked, Whole
<1>10. Stamps'
  BY <1>1 DEF IdxIInv, Stamps
<1>11. IndexFits'
  BY <1>1 DEF IdxIInv, IndexFits, FilesFit, SymbolsFit, EdgesFit, Current, Whole
<1> QED
  BY <1>7, <1>8, <1>9, <1>10, <1>11 DEF IdxIInv

LEMMA IndexFillFileInv ==
  ASSUME IdxIInv, IndexFillFile
  PROVE  IdxIInv'
<1>0. IdxTypeOK
  BY DEF IdxIInv
<1>1. /\ idxJob.step = "fill" /\ idxIndex' = idxJob.payload /\ idxJob' = IdxIdle
      /\ UNCHANGED <<idxTree, idxCache, idxOp, idxEdits, idxCalls, idxRaced, idxEdited>>
  BY DEF IndexFillFile
<1>2. idxJob # IdxIdle /\ idxJob.payload \in Payload
  BY <1>0, <1>1, Going
<1>3. idxOp = IdxIdle
  BY <1>1, <1>2 DEF IdxIInv, Phases
<1>4. IdxTypeOK'
  BY <1>0, <1>1, <1>2 DEF IdxTypeOK
<1>5. RowsAnswer' /\ CallAnswers' /\ Phases' /\ Asked'
  BY <1>1, <1>3 DEF IdxIInv, RowsAnswer, CallAnswers, Phases, Asked, Whole
<1>6. Stamps'
  BY <1>1, <1>2 DEF IdxIInv, Stamps
<1>7. IndexFits'
  BY <1>1, <1>2 DEF IdxIInv, IndexFits, FilesFit, SymbolsFit, EdgesFit, Current, Whole
<1> QED
  BY <1>4, <1>5, <1>6, <1>7 DEF IdxIInv

LEMMA IdxCrashInv ==
  ASSUME IdxIInv, IdxCrash
  PROVE  IdxIInv'
<1>0. IdxTypeOK
  BY DEF IdxIInv
<1>1. /\ idxCache' = IF idxOp.step = "fill" THEN NoRows ELSE idxCache
      /\ idxOp' = IdxIdle /\ idxJob' = IdxIdle /\ idxEdited' = TRUE
      /\ UNCHANGED <<idxTree, idxIndex, idxEdits, idxCalls, idxRaced>>
  BY DEF IdxCrash
<1>2. NoRows \in [IdxTools -> Seq([key : IdxKeys, value : Found])] /\ \A t \in IdxTools : NoRows[t] = <<>>
  <2>1. \A S : <<>> \in Seq(S)
    OBVIOUS
  <2> QED
    BY <2>1 DEF NoRows
<1>3. Len(<<>>) <= CacheMax
  BY IdxAssumption
<1>4. IdxTypeOK'
  <2>1. /\ idxCache' \in [IdxTools -> Seq([key : IdxKeys, value : Found])]
        /\ \A t \in IdxTools : Len(idxCache'[t]) <= CacheMax
    <3>1. CASE idxOp.step = "fill"
      BY <1>1, <1>2, <1>3, <3>1, Zenon
    <3>2. CASE idxOp.step # "fill"
      BY <1>0, <1>1, <3>2 DEF IdxTypeOK
    <3> QED
      BY <3>1, <3>2
  <2> QED
    BY <1>0, <1>1, <2>1 DEF IdxTypeOK
<1>5. RowsAnswer'
  BY <1>1, <1>2 DEF IdxIInv, RowsAnswer
<1>6. CallAnswers' /\ Phases' /\ Asked'
  BY <1>1 DEF CallAnswers, Phases, Asked, Whole
<1>7. Stamps'
  BY <1>1 DEF IdxIInv, Stamps
<1>8. IndexFits'
  BY <1>1 DEF IdxIInv, IndexFits, FilesFit, SymbolsFit, EdgesFit, Current, Whole
<1> QED
  BY <1>4, <1>5, <1>6, <1>7, <1>8 DEF IdxIInv

LEMMA IdxEditInv ==
  ASSUME IdxIInv, NEW f \in IdxFiles, NEW text \in IdxTexts \cup {Gone}, IdxEdit(f, text)
  PROVE  IdxIInv'
<1>0. IdxTypeOK /\ IdxMaxEdits \in Nat /\ IdxFiles \subseteq Nat /\ IdxPython \subseteq IdxFiles
  BY IdxAssumption DEF IdxIInv
<1>1. /\ idxEdits < IdxMaxEdits /\ idxEdits' = idxEdits + 1 /\ idxEdited' = TRUE
      /\ idxTree' = [idxTree EXCEPT ![f] = [text |-> text, stamp |-> idxEdits + 1]]
      /\ UNCHANGED <<idxCache, idxIndex, idxOp, idxJob, idxCalls, idxRaced>>
  BY DEF IdxEdit
<1>2. idxTree \in IdxTree /\ idxEdits \in 0..IdxMaxEdits
  BY <1>0 DEF IdxTypeOK
<1>3. /\ idxTree' \in IdxTree /\ idxEdits' \in 0..IdxMaxEdits /\ idxTree'[f].stamp = idxEdits + 1
      /\ \A g \in IdxFiles : g # f => idxTree'[g] = idxTree[g]
  BY <1>0, <1>1, <1>2 DEF IdxTree
<1>4. IdxTypeOK'
  BY <1>0, <1>1, <1>3 DEF IdxTypeOK
<1>5. RowsAnswer' /\ CallAnswers' /\ Phases'
  BY <1>1 DEF IdxIInv, RowsAnswer, CallAnswers, Phases
<1>6. Asked'
  BY <1>1 DEF Asked, Whole
<1>7. Stamps'
  <2>0. Stamps
    BY DEF IdxIInv
  <2>1. \A g \in IdxFiles : idxTree[g].stamp \in Nat /\ idxTree[g].stamp <= idxEdits
    BY <1>2, <2>0 DEF IdxTree, Stamps
  <2>2. \A g \in IdxFiles : idxTree'[g].stamp <= idxEdits'
    BY <1>0, <1>1, <1>2, <1>3, <2>1
  <2>3. ASSUME NEW p \in Payload, \A g \in DOMAIN p.files : p.files[g] <= idxEdits
        PROVE  \A g \in DOMAIN p.files : p.files[g] <= idxEdits'
    <3>1. \A g \in DOMAIN p.files : p.files[g] \in Nat
      BY DEF Payload, Stats
    <3> QED
      BY <1>1, <1>2, <2>3, <3>1
  <2>4. (idxIndex # NoPayload => idxIndex \in Payload) /\ (idxJob # IdxIdle => idxJob.payload \in Payload)
    BY <1>0, Going DEF IdxTypeOK
  <2> QED
    BY <1>1, <2>0, <2>2, <2>3, <2>4 DEF Stamps
<1>8. IndexFits'
  <2>1. ASSUME NEW p \in Payload, FilesFit(p), \A g \in DOMAIN p.files : p.files[g] <= idxEdits
        PROVE  FilesFit(p)'
    <3> SUFFICES ASSUME Whole(p), NEW g \in DOMAIN p.files \cap IdxPython
                 PROVE  g \in DOMAIN p.read /\ (idxTree'[g].stamp = p.files[g] => idxTree'[g].text = p.read[g])
      BY DEF FilesFit, Whole
    <3>1. g \in DOMAIN p.read /\ (idxTree[g].stamp = p.files[g] => idxTree[g].text = p.read[g])
      BY <2>1 DEF FilesFit
    <3>2. g = f => idxTree'[g].stamp # p.files[g]
      <4>1. p.files[g] \in Nat /\ p.files[g] <= idxEdits
        BY <2>1 DEF Payload, Stats
      <4> QED
        BY <1>2, <1>3, <4>1
    <3>3. g # f => idxTree'[g] = idxTree[g]
      BY <1>0, <1>3
    <3> QED
      BY <3>1, <3>2, <3>3
  <2>2. \A p : Current(p)' /\ (SymbolsFit(p) => SymbolsFit(p)') /\ (EdgesFit(p) => EdgesFit(p)')
    BY <1>1 DEF Current, SymbolsFit, EdgesFit, Whole
  <2>3. (idxIndex # NoPayload => idxIndex \in Payload) /\ (idxJob # IdxIdle => idxJob.payload \in Payload)
    BY <1>0, Going DEF IdxTypeOK
  <2>4. Stamps /\ IndexFits
    BY DEF IdxIInv
  <2>5. (idxIndex # NoPayload)' =>
          /\ FilesFit(idxIndex)' /\ SymbolsFit(idxIndex)' /\ EdgesFit(idxIndex)' /\ Current(idxIndex)'
    BY <1>1, <2>1, <2>2, <2>3, <2>4 DEF Stamps, IndexFits, FilesFit, SymbolsFit, EdgesFit, Current, Whole
  <2>6. (idxJob # IdxIdle /\ idxJob.step # "symbols")' =>
          /\ FilesFit(idxJob.payload)' /\ SymbolsFit(idxJob.payload)' /\ Current(idxJob.payload)'
          /\ (idxJob.step = "fill" => EdgesFit(idxJob.payload))'
    BY <1>1, <2>1, <2>2, <2>3, <2>4 DEF Stamps, IndexFits, FilesFit, SymbolsFit, EdgesFit, Current, Whole
  <2> QED
    BY <2>5, <2>6 DEF IndexFits
<1> QED
  BY <1>4, <1>5, <1>6, <1>7, <1>8 DEF IdxIInv

\* No rows are rows.
LEMMA NoRowsFound == NoneFound \in Found
<1>1. NoneFound \in [{} -> IdxTexts] /\ {} \in SUBSET IdxPython
  BY DEF NoneFound
<1> QED
  BY <1>1 DEF Found

\* dependency_map reads the first of the files that symbol_index reads.
LEMMA DepsAreFirst ==
  \A tree, root : Analysis("deps", tree, root) = Cut(Analysis("symbols", tree, root), DepsMax)
<1> SUFFICES ASSUME NEW tree, NEW root
             PROVE  Analysis("deps", tree, root) = Cut(Analysis("symbols", tree, root), DepsMax)
  OBVIOUS
<1> DEFINE fs == Python(tree, root)
           all == Analysis("symbols", tree, root)
<1>1. all = [f \in fs |-> tree[f].text]
  BY DEF Analysis, Scope
<1>2. Analysis("deps", tree, root) = [f \in First(fs, DepsMax) |-> tree[f].text]
  BY DEF Analysis, Scope
<1>3. First(fs, DepsMax) \subseteq fs
  BY DEF First
<1> HIDE DEF fs, all
<1>4. Cut(all, DepsMax) = [f \in First(fs, DepsMax) |-> all[f]]
  BY <1>1 DEF Cut
<1>5. \A f \in First(fs, DepsMax) : all[f] = tree[f].text
  BY <1>1, <1>3
<1> QED
  BY <1>2, <1>4, <1>5 DEF all

\* What the symbols are that an analysis of this tree was answered with: those of the
\* tree, when all of its files were hashed, or when the answer is that small.
LEMMA AnsweredSymbols ==
  ASSUME NEW tree \in IdxTree, NEW root \in IdxRoots, NEW key \in IdxKeys, NEW value \in Found,
         AnswersFor("symbols", key, value), AnswersFor("symbols", key, Analysis("symbols", tree, root)),
         Hashed(tree, root) \/ Cardinality(DOMAIN value) < PrintMax
  PROVE  value = Analysis("symbols", tree, root)
<1> DEFINE want == Analysis("symbols", tree, root)
<1>1. DOMAIN want = Python(tree, root) /\ Python(tree, root) \in SUBSET IdxFiles
  BY Walk DEF Scope
<1>2. DOMAIN value \in SUBSET IdxFiles
  <2>1. PICK fs \in SUBSET IdxPython : value \in [fs -> IdxTexts]
    BY DEF Found
  <2> QED
    BY <2>1, IdxAssumption
<1>3. DOMAIN key.print \subseteq DOMAIN value /\ DOMAIN key.print \subseteq DOMAIN want
  BY DEF AnswersFor
<1>4. Cardinality(DOMAIN key.print) < PrintMax
  <2>0. PrintMax \in Nat
    BY IdxAssumption
  <2>1. CASE Hashed(tree, root)
    <3>1. Cardinality(DOMAIN want) < PrintMax
      BY <1>1, <2>1 DEF Hashed
    <3> HIDE DEF want
    <3>2. /\ Cardinality(DOMAIN key.print) <= Cardinality(DOMAIN want)
          /\ Cardinality(DOMAIN key.print) \in Nat /\ Cardinality(DOMAIN want) \in Nat
      BY <1>1, <1>3, PathsFinite
    <3> QED
      BY <2>0, <3>1, <3>2
  <2>2. CASE Cardinality(DOMAIN value) < PrintMax
    <3>2. /\ Cardinality(DOMAIN key.print) <= Cardinality(DOMAIN value)
          /\ Cardinality(DOMAIN key.print) \in Nat /\ Cardinality(DOMAIN value) \in Nat
      BY <1>2, <1>3, PathsFinite
    <3> QED
      BY <2>0, <2>2, <3>2
  <2> QED
    BY <2>1, <2>2
<1> QED
  BY <1>4 DEF AnswersFor, Sure

\* The answer to an analysis that a refresh asked for.
LEMMA AnswerInv ==
  ASSUME IdxIInv, Answer
  PROVE  IdxIInv'
<1>0. IdxTypeOK
  BY DEF IdxIInv
<1>1. /\ idxOp.step = "answer"
      /\ UNCHANGED <<idxTree, idxCache, idxEdits, idxCalls, idxRaced, idxEdited>>
  BY DEF Answer
<1>2. /\ idxOp # IdxIdle /\ idxOp \in IdxCall /\ idxOp.tool \in IdxTools /\ idxOp.key \in IdxKeys
      /\ idxOp.value \in Found /\ idxTree \in IdxTree
  BY <1>0, <1>1, Going
<1>3. /\ AnswersFor(idxOp.tool, idxOp.key, idxOp.want)
      /\ idxOp.key \notin idxRaced => AnswersFor(idxOp.tool, idxOp.key, idxOp.value)
  BY <1>1, <1>2 DEF IdxIInv, CallAnswers
<1>4. RowsAnswer'
  BY <1>1 DEF IdxIInv, RowsAnswer
<1>5. CASE idxJob = IdxIdle
  <2>1. idxOp' = IdxIdle /\ UNCHANGED <<idxJob, idxIndex>>
    BY <1>5 DEF Answer
  <2>2. IdxTypeOK'
    BY <1>0, <1>1, <2>1 DEF IdxTypeOK
  <2>3. CallAnswers' /\ Phases' /\ Asked'
    BY <1>5, <2>1 DEF CallAnswers, Phases, Asked
  <2>4. Stamps'
    BY <1>1, <2>1 DEF IdxIInv, Stamps
  <2>5. IndexFits'
    BY <1>1, <2>1 DEF IdxIInv, IndexFits, FilesFit, SymbolsFit, EdgesFit, Current, Whole
  <2> QED
    BY <1>4, <2>2, <2>3, <2>4, <2>5 DEF IdxIInv
<1>6. CASE idxJob # IdxIdle
  <2> DEFINE p == idxJob.payload
             why == p.why \cup IF idxEdited \/ idxOp.key \in idxRaced THEN {"raced"} ELSE {}
  <2>1. /\ idxJob \in [step : {"symbols", "deps", "fill"}, payload : Payload]
        /\ p \in Payload /\ p.root \in IdxRoots /\ p.why \subseteq {"root", "deleted", "dropped", "raced"}
        /\ p.files \in Stats
    BY <1>0, <1>6, Going DEF Payload
  <2>2. idxJob.step = idxOp.tool
    BY <1>2, <1>6 DEF IdxIInv, Phases
  <2>3. /\ p.why \subseteq why /\ why \subseteq {"root", "deleted", "dropped", "raced"}
        /\ why \subseteq {"dropped"} => ~idxEdited /\ idxOp.key \notin idxRaced
    BY <2>1
  <2>4. why \subseteq {"dropped"} =>
          /\ DOMAIN p.files \subseteq Present(idxTree, p.root)
          /\ idxOp.want = Analysis(idxOp.tool, idxTree, p.root)
          /\ AnswersFor(idxOp.tool, idxOp.key, Analysis(idxOp.tool, idxTree, p.root))
          /\ AnswersFor(idxOp.tool, idxOp.key, idxOp.value)
    BY <1>2, <1>3, <1>6, <2>3 DEF IdxIInv, Asked
  <2>5. IndexFits /\ Stamps
    BY DEF IdxIInv
  <2>8. \A n : Indexed(p, idxOp.value, n) \in Found
    BY <1>2, CutRows, NoRowsFound DEF Indexed
  <2>6. CASE idxOp.tool = "symbols"
    <3> DEFINE q == [p EXCEPT !.why = why, !.read = idxOp.value, !.symbols = Indexed(p, idxOp.value, SymMax)]
    <3>1. /\ idxJob' = [idxJob EXCEPT !.step = "deps", !.payload.why = why, !.payload.read = idxOp.value,
                                       !.payload.symbols = Indexed(p, idxOp.value, SymMax)]
          /\ StartCall("deps", p.root) /\ UNCHANGED idxIndex
      BY <1>6, <2>6 DEF Answer
    <3>2. idxJob' = [step |-> "deps", payload |-> q]
      BY <2>1, <3>1
    <3>3. /\ q \in Payload /\ q.root = p.root /\ q.files = p.files /\ q.read = idxOp.value /\ q.why = why
          /\ q.kept = p.kept /\ q.symbols = Indexed(p, idxOp.value, SymMax)
      BY <1>2, <2>1, <2>3, <2>8 DEF Payload
    <3> HIDE DEF q, why
    <3>4. /\ idxOp' \in IdxCall /\ idxOp'.tool = "deps" /\ idxOp'.step \in {"read", "answer"}
          /\ idxOp'.want = Analysis("deps", idxTree, p.root)
          /\ AnswersFor("deps", idxOp'.key, idxOp'.want)
          /\ idxOp'.step = "answer" /\ idxOp'.key \notin idxRaced
                => AnswersFor("deps", idxOp'.key, idxOp'.value)
      BY <2>1, <3>1, Started DEF IdxTools
    <3>5. idxOp' # IdxIdle /\ idxJob' # IdxIdle /\ idxJob'.step = "deps" /\ idxJob'.payload = q
      BY <3>2, <3>4 DEF IdxIdle
    <3>6. IdxTypeOK'
      <4>1. idxJob' \in [step : {"symbols", "deps", "fill"}, payload : Payload]
        BY <3>2, <3>3
      <4> QED
        BY <1>0, <1>1, <3>1, <3>4, <4>1 DEF IdxTypeOK
    <3>7. CallAnswers'
      BY <1>1, <3>4 DEF CallAnswers
    <3>8. Phases'
      BY <3>4, <3>5 DEF Phases
    <3>9. Stamps'
      BY <1>1, <1>6, <2>5, <3>1, <3>3, <3>5 DEF Stamps
    <3>10. why \subseteq {"dropped"} /\ (Hashed(idxTree, p.root) \/ Cardinality(DOMAIN idxOp.value) < PrintMax)
             => idxOp.value = Analysis("symbols", idxTree, p.root)
      BY <1>2, <2>1, <2>4, <2>6, AnsweredSymbols
    <3>11. Asked'
      <4>1. ASSUME ~idxEdited  PROVE DOMAIN p.files \subseteq Present(idxTree, p.root)
        BY <1>6, <4>1 DEF IdxIInv, Asked
      <4>2. ASSUME Whole(q)  PROVE q.read = Analysis("symbols", idxTree, p.root)
        BY <3>3, <3>10, <4>2 DEF Whole
      <4> QED
        BY <1>1, <3>3, <3>4, <3>5, <4>1, <4>2 DEF Asked, Whole
    <3>12. FilesFit(q) /\ SymbolsFit(q)
      <4>0. SymbolsFit(q)
        BY <3>3 DEF SymbolsFit, Indexed
      <4> SUFFICES ASSUME Whole(q), NEW f \in DOMAIN q.files \cap IdxPython
                   PROVE  f \in DOMAIN q.read /\ idxTree[f].text = q.read[f]
        BY <4>0 DEF FilesFit
      <4>1. q.read = Analysis("symbols", idxTree, p.root) /\ f \in Present(idxTree, p.root)
        BY <2>4, <3>3, <3>10 DEF Whole
      <4>2. f \in Python(idxTree, p.root)
        BY <4>1 DEF Python
      <4> QED
        BY <4>1, <4>2 DEF Analysis, Scope
    <3>13. Current(q)
      BY <3>3, <3>10 DEF Current
    <3>14. IndexFits'
      <4>1. (idxIndex # NoPayload => FilesFit(idxIndex) /\ SymbolsFit(idxIndex) /\ EdgesFit(idxIndex))'
        BY <1>1, <2>5, <3>1 DEF IndexFits, FilesFit, SymbolsFit, EdgesFit, Whole
      <4>2. (idxJob # IdxIdle /\ idxJob.step # "symbols" =>
               FilesFit(idxJob.payload) /\ SymbolsFit(idxJob.payload) /\ Current(idxJob.payload))'
        BY <1>1, <3>5, <3>12, <3>13 DEF FilesFit, SymbolsFit, Current, Whole
      <4> QED
        BY <3>5, <4>1, <4>2 DEF IndexFits
    <3> QED
      BY <1>4, <3>6, <3>7, <3>8, <3>9, <3>11, <3>14 DEF IdxIInv
  <2>7. CASE idxOp.tool = "deps"
    <3> DEFINE q == [p EXCEPT !.why = why, !.edges = Indexed(p, idxOp.value, EdgeMax)]
    <3>1. /\ idxJob' = [idxJob EXCEPT !.step = "fill", !.payload.why = why,
                                       !.payload.edges = Indexed(p, idxOp.value, EdgeMax)]
          /\ idxIndex' = NoPayload /\ idxOp' = IdxIdle
      BY <1>6, <2>7 DEF Answer
    <3>2. idxJob' = [step |-> "fill", payload |-> q]
      BY <2>1, <3>1
    <3>3. /\ q \in Payload /\ q.root = p.root /\ q.files = p.files /\ q.symbols = p.symbols
          /\ q.read = p.read /\ q.kept = p.kept
          /\ q.edges = Indexed(p, idxOp.value, EdgeMax) /\ q.why = why
      BY <1>2, <2>1, <2>3, <2>8 DEF Payload
    <3> HIDE DEF q, why
    <3>4. idxJob' # IdxIdle /\ idxJob'.step = "fill" /\ idxJob'.payload = q
      BY <3>2 DEF IdxIdle
    <3>5. IdxTypeOK'
      <4>1. idxJob' \in [step : {"symbols", "deps", "fill"}, payload : Payload]
        BY <3>2, <3>3
      <4> QED
        BY <1>0, <1>1, <3>1, <4>1 DEF IdxTypeOK
    <3>6. CallAnswers' /\ Phases'
      BY <3>1, <3>4 DEF CallAnswers, Phases
    <3>7. Stamps'
      BY <1>1, <1>6, <2>5, <3>1, <3>3, <3>4 DEF Stamps
    <3>8. Asked'
      BY <1>1, <1>6, <3>1, <3>3, <3>4 DEF Asked, IdxIInv
    <3>9. FilesFit(p) /\ SymbolsFit(p) /\ Current(p)
      BY <1>6, <2>2, <2>5, <2>7 DEF IndexFits
    <3>10. FilesFit(q) /\ SymbolsFit(q) /\ Current(q)
      BY <2>3, <3>3, <3>9 DEF FilesFit, SymbolsFit, Current, Whole
    <3>11. EdgesFit(q)
      <4> SUFFICES ASSUME Whole(q), q.why = {}, q.kept
                   PROVE  q.edges = Cut(Cut(q.read, DepsMax), EdgeMax)
        BY DEF EdgesFit
      <4>1. ~idxEdited /\ Whole(p) /\ why \subseteq {"dropped"}
        BY <2>3, <3>3 DEF Whole
      <4>2. q.read = Analysis("symbols", idxTree, p.root)
        BY <1>6, <2>2, <2>7, <3>3, <4>1 DEF IdxIInv, Asked
      <4>3. q.edges = Cut(Analysis("deps", idxTree, p.root), EdgeMax)
        BY <2>4, <2>7, <3>3, <4>1 DEF AnswersFor, Sure, Indexed
      <4> QED
        BY <4>2, <4>3, DepsAreFirst
    <3>12. IndexFits'
      <4>1. (idxJob # IdxIdle /\ idxJob.step # "symbols" =>
               /\ FilesFit(idxJob.payload) /\ SymbolsFit(idxJob.payload)
               /\ Current(idxJob.payload) /\ EdgesFit(idxJob.payload))'
        BY <1>1, <3>4, <3>10, <3>11 DEF FilesFit, SymbolsFit, Current, EdgesFit, Whole
      <4> QED
        BY <3>1, <4>1 DEF IndexFits
    <3> QED
      BY <1>4, <3>5, <3>6, <3>7, <3>8, <3>12 DEF IdxIInv
  <2> QED
    BY <1>2, <2>6, <2>7 DEF IdxTools
<1> QED
  BY <1>5, <1>6

\* A refresh begins: the index is taken over, or the first analysis asked for.
LEMMA RefreshInv ==
  ASSUME IdxIInv, NEW root \in IdxRoots, NEW profile \in IdxProfiles, NEW incremental \in BOOLEAN,
         Refresh(root, profile, incremental)
  PROVE  IdxIInv'
<1> DEFINE present == Present(idxTree, root)
           files == [f \in First(present, ListMax) |-> idxTree[f].stamp]
           listed == IF profile = "compact" THEN Cut(files, CompactMax) ELSE files
           fresh == [root |-> root, kept |-> profile = "verbose", why |-> {}, files |-> listed,
                     read |-> NoneFound, symbols |-> NoneFound, edges |-> NoneFound]
<1>0. IdxTypeOK /\ IndexFits /\ Stamps /\ IdxMaxCalls \in Nat
  BY IdxAssumption DEF IdxIInv
<1>1. /\ idxOp = IdxIdle /\ idxJob = IdxIdle /\ idxCalls < IdxMaxCalls /\ idxCalls' = idxCalls + 1
      /\ idxEdited' = FALSE
      /\ UNCHANGED <<idxTree, idxCache, idxEdits, idxRaced>>
  BY DEF Refresh, BeginCall
<1>2. idxTree \in IdxTree /\ idxCalls' \in 0..IdxMaxCalls
  BY <1>0, <1>1 DEF IdxTypeOK
<1>3. RowsAnswer'
  BY <1>1 DEF IdxIInv, RowsAnswer
<1>4. /\ DOMAIN listed \subseteq DOMAIN files /\ DOMAIN files \subseteq present /\ present \in SUBSET IdxFiles
      /\ listed \in Stats
      /\ \A f \in DOMAIN files : files[f] = idxTree[f].stamp /\ files[f] <= idxEdits
      /\ \A f \in DOMAIN listed : listed[f] = files[f]
  <2>1. present \in SUBSET IdxFiles /\ First(present, ListMax) \subseteq present
    BY <1>2, Walk DEF First
  <2>2. \A f \in IdxFiles : idxTree[f].stamp \in 0..IdxMaxEdits /\ idxTree[f].stamp <= idxEdits
    BY <1>0, <1>2 DEF IdxTree, Stamps
  <2>3. /\ DOMAIN files = First(present, ListMax) /\ DOMAIN files \in SUBSET IdxFiles
        /\ files \in [DOMAIN files -> 0..IdxMaxEdits]
    BY <2>1, <2>2
  <2>4. \A f \in DOMAIN files : files[f] = idxTree[f].stamp /\ files[f] <= idxEdits
    BY <2>1, <2>2
  <2> HIDE DEF files
  <2>5. First(DOMAIN files, CompactMax) \subseteq DOMAIN files
    BY DEF First
  <2>6. /\ DOMAIN listed \subseteq DOMAIN files
        /\ \A f \in DOMAIN listed : listed[f] = files[f]
        /\ listed \in [DOMAIN listed -> 0..IdxMaxEdits]
    BY <2>3, <2>5 DEF Cut
  <2> HIDE DEF listed
  <2>7. listed \in Stats
    BY <2>3, <2>6 DEF Stats
  <2> QED
    BY <2>1, <2>3, <2>4, <2>6, <2>7
<1>5. NoneFound \in Found
  BY NoRowsFound
<1> HIDE DEF files, listed, present
<1>6. fresh \in Payload
  BY <1>4, <1>5 DEF Payload
<1>7. CASE Reusable(incremental, files)
  <2> DEFINE p == idxIndex
             why == p.why \cup TakenOver(root, files)
             q == [fresh EXCEPT !.read = p.read,
                                !.symbols = IF fresh.kept THEN p.symbols ELSE @,
                                !.edges = IF fresh.kept THEN p.edges ELSE @, !.why = why]
  <2>1. /\ idxIndex' = NoPayload /\ idxJob' = [step |-> "fill", payload |-> q] /\ UNCHANGED idxOp
    BY <1>7 DEF Refresh, files, listed, present
  <2>2. /\ p \in Payload /\ p # NoPayload /\ p.symbols \in Found /\ p.edges \in Found /\ p.read \in Found
        /\ p.why \subseteq {"root", "deleted", "dropped", "raced"}
        /\ Changed(files) \cap IdxPython = {}
    BY <1>0, <1>7 DEF Reusable, IdxTypeOK, Payload
  <2>3. /\ TakenOver(root, files) \subseteq {"root", "deleted", "dropped"}
        /\ "root" \notin TakenOver(root, files) => p.root = root
        /\ "deleted" \notin TakenOver(root, files) => DOMAIN p.read \subseteq present
        /\ "dropped" \notin TakenOver(root, files) => p.kept
    BY DEF TakenOver, present
  <2>4. /\ q \in Payload /\ q.root = root /\ q.files = listed /\ q.read = p.read
        /\ q.kept => q.symbols = p.symbols /\ q.edges = p.edges
        /\ q.why = why
    BY <1>4, <1>5, <2>2, <2>3 DEF Payload
  <2>5. /\ p.why \subseteq why
        /\ why \subseteq {"dropped"} => DOMAIN p.read \subseteq present
        /\ why = {} => p.kept
    BY <2>3
  <2> HIDE DEF q, why
  <2>6. idxJob' # IdxIdle /\ idxJob'.step = "fill" /\ idxJob'.payload = q
    BY <2>1 DEF IdxIdle
  <2>7. \A f \in DOMAIN files \cap IdxPython : f \in DOMAIN p.files /\ p.files[f] = files[f]
    BY <2>2 DEF Changed
  <2>8. FilesFit(p) /\ SymbolsFit(p) /\ EdgesFit(p)
    BY <1>0, <2>2 DEF IndexFits
  <2>9. Whole(q) => Whole(p)
    BY <2>4, <2>5 DEF Whole
  <2>10. FilesFit(q)
    BY <1>4, <2>4, <2>7, <2>8, <2>9 DEF FilesFit
  <2>11. SymbolsFit(q) /\ EdgesFit(q)
    BY <2>4, <2>5, <2>8, <2>9 DEF SymbolsFit, EdgesFit
  <2>12. ASSUME q.why \subseteq {"dropped"}, Hashed(idxTree, root), Cardinality(present) <= ListMax
         PROVE  q.read = Analysis("symbols", idxTree, root)
    <3> DEFINE fs == Python(idxTree, root)
    <3>1. fs \in SUBSET IdxFiles /\ fs \in SUBSET IdxPython /\ fs \subseteq present
      BY <1>2, Walk DEF present
    <3>2. ListMax \in Nat /\ PrintMax \in Nat
      BY IdxAssumption
    <3>3. DOMAIN files = present
      BY <1>4, <2>12, <3>2, FirstOfFew DEF files
    <3>4. DOMAIN p.read \subseteq fs
      <4>1. DOMAIN p.read \subseteq IdxPython
        BY <2>2 DEF Found
      <4> QED
        BY <2>4, <2>5, <2>12, <4>1 DEF Python, present
    <3>5. Cardinality(DOMAIN p.read) < PrintMax
      <4>1. Cardinality(fs) < PrintMax
        BY <2>12 DEF Hashed
      <4> HIDE DEF fs
      <4>2. /\ Cardinality(DOMAIN p.read) <= Cardinality(fs)
            /\ Cardinality(DOMAIN p.read) \in Nat /\ Cardinality(fs) \in Nat
        BY <3>1, <3>4, PathsFinite
      <4> QED
        BY <3>2, <4>1, <4>2
    <3>6. Whole(p)
      BY <2>4, <2>5, <2>12, <3>5 DEF Whole
    <3>7. \A f \in fs : f \in DOMAIN p.read /\ p.read[f] = idxTree[f].text
      BY <1>4, <2>7, <2>8, <3>1, <3>3, <3>6 DEF FilesFit
    <3>8. /\ DOMAIN Analysis("symbols", idxTree, root) = fs
          /\ Analysis("symbols", idxTree, root) = [f \in fs |-> idxTree[f].text]
      BY DEF Analysis, Scope
    <3>9. p.read = [f \in DOMAIN p.read |-> p.read[f]]
      BY <2>2 DEF Found
    <3> HIDE DEF fs
    <3>10. DOMAIN p.read = fs
      BY <3>4, <3>7
    <3> QED
      BY <2>4, <3>7, <3>8, <3>9, <3>10
  <2>13. Current(q)
    BY <2>4, <2>12 DEF Current, present
  <2>14. IdxTypeOK'
    <3>1. idxJob' \in [step : {"symbols", "deps", "fill"}, payload : Payload]
      BY <2>1, <2>4
    <3> QED
      BY <1>0, <1>1, <1>2, <2>1, <3>1 DEF IdxTypeOK
  <2>15. CallAnswers' /\ Phases'
    BY <1>1, <2>1, <2>6 DEF CallAnswers, Phases
  <2>16. Asked'
    BY <1>1, <1>4, <2>1, <2>4, <2>6 DEF Asked, present
  <2>17. Stamps'
    BY <1>0, <1>1, <1>4, <2>1, <2>4, <2>6 DEF Stamps
  <2>18. IndexFits'
    <3>1. Current(q) => (Current(idxJob.payload))'
      BY <1>1, <2>4, <2>6, <2>12 DEF Current, present
    <3>2. (FilesFit(idxJob.payload) /\ SymbolsFit(idxJob.payload) /\ EdgesFit(idxJob.payload))'
      BY <1>1, <2>6, <2>10, <2>11 DEF FilesFit, SymbolsFit, EdgesFit, Whole
    <3> QED
      BY <2>1, <2>13, <3>1, <3>2 DEF IndexFits
  <2> QED
    BY <1>3, <2>14, <2>15, <2>16, <2>17, <2>18 DEF IdxIInv
<1>8. CASE ~Reusable(incremental, files)
  <2>1. /\ idxJob' = [step |-> "symbols", payload |-> fresh] /\ StartCall("symbols", root)
        /\ UNCHANGED idxIndex
    BY <1>8 DEF Refresh, files, listed, present
  <2>2. /\ idxOp' \in IdxCall /\ idxOp'.tool = "symbols" /\ idxOp'.step \in {"read", "answer"}
        /\ idxOp'.want = Analysis("symbols", idxTree, root)
        /\ AnswersFor("symbols", idxOp'.key, idxOp'.want)
        /\ idxOp'.step = "answer" /\ idxOp'.key \notin idxRaced
              => AnswersFor("symbols", idxOp'.key, idxOp'.value)
    BY <2>1, Started DEF IdxTools
  <2>3. /\ idxJob' # IdxIdle /\ idxJob'.step = "symbols" /\ idxJob'.payload = fresh
        /\ fresh.root = root /\ fresh.files = listed /\ idxOp' # IdxIdle
    BY <2>1, <2>2 DEF IdxIdle
  <2> HIDE DEF fresh
  <2>4. IdxTypeOK'
    <3>1. idxJob' \in [step : {"symbols", "deps", "fill"}, payload : Payload]
      BY <1>6, <2>1
    <3> QED
      BY <1>0, <1>1, <1>2, <2>1, <2>2, <3>1 DEF IdxTypeOK
  <2>5. CallAnswers' /\ Phases'
    BY <1>1, <2>2, <2>3 DEF CallAnswers, Phases
  <2>6. Asked'
    BY <1>1, <1>4, <2>2, <2>3 DEF Asked, present
  <2>7. Stamps'
    BY <1>0, <1>1, <1>4, <2>1, <2>3 DEF Stamps
  <2>8. IndexFits'
    BY <1>0, <1>1, <2>1, <2>3 DEF IndexFits, FilesFit, SymbolsFit, EdgesFit, Whole
  <2> QED
    BY <1>3, <2>4, <2>5, <2>6, <2>7, <2>8 DEF IdxIInv
<1> QED
  BY <1>7, <1>8

-----------------------------------------------------------------------------
LEMMA IdxStutterInv == IdxIInv /\ UNCHANGED idxVars => IdxIInv'
<1> SUFFICES ASSUME IdxIInv, UNCHANGED idxVars  PROVE IdxIInv'
  OBVIOUS
<1>1. UNCHANGED <<idxTree, idxCache, idxIndex, idxOp, idxJob, idxEdits, idxCalls, idxRaced, idxEdited>>
  BY DEF idxVars
<1>2. (IdxTypeOK /\ RowsAnswer /\ CallAnswers)'
  BY <1>1 DEF IdxIInv, IdxTypeOK, RowsAnswer, CallAnswers
<1>3. (Phases /\ Stamps /\ Asked)'
  BY <1>1 DEF IdxIInv, Phases, Stamps, Asked, Whole
<1>4. IndexFits'
  BY <1>1 DEF IdxIInv, IndexFits, FilesFit, SymbolsFit, EdgesFit, Current, Whole
<1> QED
  BY <1>2, <1>3, <1>4 DEF IdxIInv

LEMMA IdxInductive == IdxIInv /\ [IdxNext]_idxVars => IdxIInv'
<1> SUFFICES ASSUME IdxIInv, [IdxNext]_idxVars  PROVE IdxIInv'
  OBVIOUS
<1>1. CASE Analyse \/ CacheFill \/ Answer \/ IndexFillFile \/ IdxCrash
  BY <1>1, AnalyseInv, CacheFillInv, AnswerInv, IndexFillFileInv, IdxCrashInv
<1>2. CASE \/ \E tools \in SUBSET IdxTools : CacheControl(tools)
           \/ \E tool \in IdxTools, root \in IdxRoots : Ask(tool, root)
  BY <1>2, CacheControlInv, AskInv
<1>3. CASE \E root \in IdxRoots, profile \in IdxProfiles, incremental \in BOOLEAN :
             Refresh(root, profile, incremental)
  BY <1>3, RefreshInv
<1>4. CASE \E f \in IdxFiles, text \in IdxTexts \cup {Gone} : IdxEdit(f, text)
  BY <1>4, IdxEditInv
<1>5. CASE UNCHANGED idxVars
  BY <1>5, IdxStutterInv
<1> QED
  BY <1>1, <1>2, <1>3, <1>4, <1>5 DEF IdxNext

LEMMA IdxInvariant == IdxSpec => []IdxIInv
BY IdxInitInv, IdxInductive, PTL DEF IdxSpec

\* Whatever is cached, called, edited or cut short, the cache, the index and the
\* operations in progress keep their types, and no tool has more rows than allowed.
THEOREM IdxTypeCorrect == IdxSpec => []IdxTypeOK
<1>1. IdxIInv => IdxTypeOK
  BY DEF IdxIInv
<1> QED
  BY <1>1, IdxInvariant, PTL

\* symbol_index and dependency_map answer, from the cache or not, with what they
\* would have found when they were asked, unless files were edited between hashing
\* and reading or there are more than the fingerprint covers: for every number of files.
THEOREM IdxAnswersCurrent == IdxSpec => []AnswerIsCurrent
<1>1. IdxIInv => AnswerIsCurrent
  <2> SUFFICES ASSUME IdxIInv, idxOp.step = "answer", idxOp.key \notin idxRaced,
                      Sure(idxOp.tool, idxOp.key)
               PROVE  idxOp.value = idxOp.want
    BY DEF AnswerIsCurrent, Sure
  <2>1. idxOp # IdxIdle
    BY DEF IdxIdle
  <2>2. /\ AnswersFor(idxOp.tool, idxOp.key, idxOp.want)
        /\ AnswersFor(idxOp.tool, idxOp.key, idxOp.value)
    BY <2>1 DEF IdxIInv, CallAnswers
  <2>3. idxOp.want = idxOp.key.print /\ idxOp.value = idxOp.key.print
    BY <2>2 DEF AnswersFor
  <2> QED
    BY <2>3
<1> QED
  BY <1>1, IdxInvariant, PTL

\* A verbose refresh of repo_index_daemon leaves an index of the tree, whether it was
\* computed or taken over, for every number of files and every limit.
THEOREM IdxIndexCurrent == IdxSpec => []IndexIsCurrent
<1>1. IdxIInv => IndexIsCurrent
  <2> SUFFICES ASSUME IdxIInv, idxIndex # NoPayload, idxJob = IdxIdle, ~idxEdited,
                      Hashed(idxTree, idxIndex.root),
                      Cardinality(Present(idxTree, idxIndex.root)) <= ListMax,
                      idxIndex.kept, idxIndex.why = {}
               PROVE  /\ idxIndex.symbols = Cut(Analysis("symbols", idxTree, idxIndex.root), SymMax)
                      /\ idxIndex.edges = Cut(Analysis("deps", idxTree, idxIndex.root), EdgeMax)
    BY DEF IndexIsCurrent
  <2>1. SymbolsFit(idxIndex) /\ EdgesFit(idxIndex) /\ Current(idxIndex)
    BY DEF IdxIInv, IndexFits
  <2>2. idxIndex.read = Analysis("symbols", idxTree, idxIndex.root)
    BY <2>1 DEF Current
  <2>3. Whole(idxIndex)
    BY <2>2 DEF Whole, Hashed, Analysis, Scope
  <2> QED
    BY <2>1, <2>2, <2>3, DepsAreFirst DEF SymbolsFit, EdgesFit
<1> QED
  BY <1>1, IdxInvariant, PTL
=============================================================================
