--------------------- MODULE MutationReplayGuardProofs ---------------------
(***************************************************************************)
(* Theorems about MutationReplayGuard for any sessions, keys, tools, depth *)
(* of the journal and number of calls.                                     *)
(***************************************************************************)
EXTENDS MutationReplayGuard, SequenceTheorems, WellFoundedInduction, TLAPS

-----------------------------------------------------------------------------
(***************************************************************************)
(* What IInv says of the journal, for any sequence of records, so that it  *)
(* can be said of the pruned and of the appended journal as well.          *)
(***************************************************************************)

GoodRecords(j, st, g, rn) ==
    /\ \A i \in DOMAIN j :
        /\ j[i].id <= g
        /\ \A n \in DOMAIN st : st[n].id = j[i].id => j[i].status = "started"
        /\ \A r \in rn : r.id = j[i].id => r.session = j[i].session /\ r.digest = j[i].digest
    /\ \A i, k \in DOMAIN j :
        /\ i < k => j[i].id < j[k].id
        /\ j[i].session = j[k].session =>
              /\ j[i].key = j[k].key /\ j[i].key # NoKey => j[i].digest = j[k].digest
              /\ j[i].digest = j[k].digest => i = k

LEMMA IInvUnfolded ==
  IInv <=> /\ TypeOK /\ Bounded /\ Nested /\ RunsOnRecord /\ RanNumbered
           /\ GoodRecords(journal, stack, guards, ran)
BY DEF IInv, KeyBindsOne, Numbered, RecordsMatch, GoodRecords

LEMMA IInvUnfoldedPrime ==
  IInv' <=> /\ TypeOK' /\ Bounded' /\ Nested' /\ RunsOnRecord' /\ RanNumbered'
            /\ GoodRecords(journal', stack', guards', ran')
BY DEF IInv, KeyBindsOne, Numbered, RecordsMatch, GoodRecords

\* p consists of the last records of j.
IsSuffix(p, j) ==
    /\ p \in Seq(Entry) /\ Len(p) <= Len(j)
    /\ \A i \in 1..Len(p) : p[i] = j[i + (Len(j) - Len(p))]

LEMMA SuffixGood ==
  ASSUME NEW j \in Seq(Entry), NEW p, NEW st, NEW g, NEW rn,
         IsSuffix(p, j), GoodRecords(j, st, g, rn)
  PROVE  GoodRecords(p, st, g, rn)
<1> DEFINE d == Len(j) - Len(p)
<1>1. d \in Nat /\ DOMAIN p = 1..Len(p) /\ DOMAIN j = 1..Len(j)
  BY DEF IsSuffix
<1>2. \A i \in DOMAIN p : i + d \in DOMAIN j /\ p[i] = j[i + d]
  BY <1>1 DEF IsSuffix
<1>3. \A i, k \in DOMAIN p : (i < k <=> i + d < k + d) /\ (i + d = k + d => i = k)
  BY <1>1
<1> HIDE DEF d
<1> QED
  BY <1>2, <1>3 DEF GoodRecords

LEMMA NewestSuffix ==
  ASSUME NEW j \in Seq(Entry)
  PROVE  /\ IsSuffix(Newest(j), j) /\ Len(Newest(j)) <= MaxEntries
         /\ Len(j) > 0 => /\ Len(Newest(j)) > 0
                          /\ Newest(j)[Len(Newest(j))] = j[Len(j)]
<1>1. CASE Len(j) <= MaxEntries
  BY <1>1 DEF Newest, IsSuffix
<1>2. CASE ~(Len(j) <= MaxEntries)
  <2> DEFINE m == Len(j) - MaxEntries + 1
             p == SubSeq(j, m, Len(j))
  <2>1. m \in 1..Len(j) /\ Len(j) \in Int /\ Len(j) - m + 1 = MaxEntries /\ MaxEntries \in Nat \ {0}
    BY <1>2, BoundsAssumption
  <2>2. \A i \in m..Len(j) : j[i] \in Entry
    BY <2>1
  <2>3. p \in Seq(Entry) /\ Len(p) = MaxEntries /\ \A i \in 1..MaxEntries : p[i] = j[m + i - 1]
    BY <2>1, <2>2, SubSeqProperties
  <2>4. Newest(j) = p
    BY <1>2 DEF Newest
  <2>5. \A i \in 1..MaxEntries : m + i - 1 = i + (Len(j) - MaxEntries)
    BY <2>1
  <2>6. p[MaxEntries] = j[Len(j)]
    BY <2>1, <2>3
  <2> HIDE DEF p
  <2> QED
    BY <2>1, <2>3, <2>4, <2>5, <2>6 DEF IsSuffix
<1> QED
  BY <1>1, <1>2

LEMMA SuffixTransitive ==
  ASSUME NEW j \in Seq(Entry), NEW p, NEW q, IsSuffix(p, j), IsSuffix(q, p)
  PROVE  IsSuffix(q, j)
<1>1. Len(q) <= Len(j) /\ q \in Seq(Entry) /\ p \in Seq(Entry)
  BY DEF IsSuffix
<1>2. ASSUME NEW i \in 1..Len(q) PROVE q[i] = j[i + (Len(j) - Len(q))]
  <2> DEFINE k == i + (Len(p) - Len(q))
  <2>1. k \in 1..Len(p) /\ k + (Len(j) - Len(p)) = i + (Len(j) - Len(q))
    BY <1>1 DEF IsSuffix
  <2>2. q[i] = p[k]
    BY DEF IsSuffix
  <2>3. p[k] = j[k + (Len(j) - Len(p))]
    BY <2>1 DEF IsSuffix
  <2> QED
    BY <2>1, <2>2, <2>3
<1> QED
  BY <1>1, <1>2 DEF IsSuffix

LEMMA PrunedSuffix ==
  ASSUME TypeOK
  PROVE  IsSuffix(Pruned, journal) /\ Len(Pruned) <= MaxEntries
<1> DEFINE p == SubSeq(journal, stale + 1, Len(journal))
<1>1. journal \in Seq(Entry) /\ stale \in 0..Len(journal) /\ Len(journal) \in Nat
  BY DEF TypeOK
<1>2. \A i \in (stale + 1)..Len(journal) : journal[i] \in Entry
  BY <1>1
<1>3. /\ p \in Seq(Entry) /\ Len(p) = Len(journal) - stale
      /\ \A i \in 1..Len(p) : p[i] = journal[stale + i]
  <2>1. /\ p \in Seq(Entry)
        /\ Len(p) = IF stale + 1 <= Len(journal) THEN Len(journal) - (stale + 1) + 1 ELSE 0
        /\ \A i \in 1..(Len(journal) - (stale + 1) + 1) : p[i] = journal[stale + 1 + i - 1]
    BY <1>1, <1>2, SubSeqProperties
  <2> HIDE DEF p
  <2>2. Len(p) = Len(journal) - stale
    BY <1>1, <2>1
  <2> QED
    BY <1>1, <2>1, <2>2
<1>4. IsSuffix(p, journal)
  <2> HIDE DEF p
  <2> QED
    BY <1>1, <1>3 DEF IsSuffix
<1>5. IsSuffix(Newest(p), p) /\ Len(Newest(p)) <= MaxEntries
  BY <1>3, NewestSuffix
<1> HIDE DEF p
<1>6. Pruned = Newest(p)
  BY DEF Pruned, p
<1> QED
  BY <1>1, <1>4, <1>5, <1>6, SuffixTransitive

\* Pruning keeps what IInv says of the journal.
LEMMA PrunedGood ==
  ASSUME TypeOK, GoodRecords(journal, stack, guards, ran)
  PROVE  /\ Pruned \in Seq(Entry) /\ Len(Pruned) <= MaxEntries
         /\ GoodRecords(Pruned, stack, guards, ran)
<1>1. journal \in Seq(Entry)
  BY DEF TypeOK
<1> QED
  BY <1>1, PrunedSuffix, SuffixGood DEF IsSuffix

-----------------------------------------------------------------------------
(***************************************************************************)
(* The stack.                                                              *)
(***************************************************************************)

LEMMA TopFacts ==
  ASSUME TypeOK, stack # <<>>
  PROVE  /\ Len(stack) \in Nat \ {0} /\ Len(stack) \in DOMAIN stack
         /\ DOMAIN stack = 1..Len(stack) /\ Top \in Frame
  BY DEF TypeOK, Top

LEMMA Waiting ==
  ASSUME Nested, NEW n \in DOMAIN stack, n < Len(stack)
  PROVE  stack[n].step = "run" /\ stack[n].id # 0 /\ Wraps[stack[n].digest[1]] # NoBody
<1>1. stack[n].step = "run" /\ Wraps[stack[n].digest[1]] # NoBody
  BY Zenon DEF Nested
<1>2. stack[n].step # "begin" => stack[n].id # 0
  BY Zenon DEF Nested
<1> QED
  BY <1>1, <1>2

\* The stack keeps all frames but the innermost, which becomes f.
LEMMA TopBecomesType ==
  ASSUME TypeOK, stack # <<>>, NEW f \in Frame, TopBecomes(f)
  PROVE  /\ stack' \in Seq(Frame) /\ Len(stack') = Len(stack)
         /\ DOMAIN stack' = DOMAIN stack
         /\ Top' = f /\ stack'[Len(stack)] = f
         /\ \A n \in DOMAIN stack : n # Len(stack) => stack'[n] = stack[n]
<1>1. stack \in Seq(Frame) /\ Len(stack) \in DOMAIN stack /\ DOMAIN stack = 1..Len(stack)
  BY TopFacts DEF TypeOK
<1>2. stack' = [stack EXCEPT ![Len(stack)] = f]
  BY DEF TopBecomes
<1>3. stack' \in Seq(Frame) /\ Len(stack') = Len(stack)
  BY <1>1, <1>2
<1> QED
  BY <1>1, <1>2, <1>3 DEF Top

\* The calls under the innermost one.
LEMMA UnderFacts ==
  ASSUME TypeOK, stack # <<>>
  PROVE  /\ Under \in Seq(Frame) /\ Len(Under) = Len(stack) - 1
         /\ \A n \in 1..(Len(stack) - 1) : Under[n] = stack[n]
<1>1. /\ stack \in Seq(Frame) /\ Len(stack) \in Nat \ {0} /\ DOMAIN stack = 1..Len(stack)
      /\ Top \in Frame /\ Len(stack) - 1 \in Nat
  BY TopFacts DEF TypeOK
<1>2. \A i \in 1..(Len(stack) - 1) : stack[i] \in Frame
  BY <1>1
<1>3. /\ Under \in Seq(Frame) /\ Len(Under) = Len(stack) - 1
      /\ \A n \in 1..(Len(stack) - 1) : Under[n] = stack[n]
  <2>1. 1 \in Int /\ Len(stack) - 1 \in Int
    BY <1>1
  <2>2. /\ Under \in Seq(Frame)
        /\ Len(Under) = IF 1 <= Len(stack) - 1 THEN (Len(stack) - 1) - 1 + 1 ELSE 0
        /\ \A n \in 1..((Len(stack) - 1) - 1 + 1) : Under[n] = stack[1 + n - 1]
    BY <1>2, <2>1, SubSeqProperties DEF Under
  <2> DEFINE m == Len(stack) - 1
  <2>3. m \in Nat /\ m - 1 + 1 = m /\ (~(1 <= m) => m = 0)
    BY <1>1
  <2>4. Len(Under) = m
    <3> HIDE DEF m
    <3>1. CASE 1 <= m
      <4>1. Len(Under) = m - 1 + 1
        BY <2>2, <3>1, Zenon DEF m
      <4> QED
        BY <2>3, <4>1
    <3>2. CASE ~(1 <= m)
      <4>1. Len(Under) = 0
        BY <2>2, <3>2, Zenon DEF m
      <4> QED
        BY <2>3, <3>2, <4>1
    <3> QED
      BY <3>1, <3>2
  <2>5. ASSUME NEW n \in 1..(Len(stack) - 1) PROVE Under[n] = stack[n]
    <3>1. n \in 1..((Len(stack) - 1) - 1 + 1) /\ 1 + n - 1 = n
      BY <1>1
    <3> QED
      BY <2>2, <3>1
  <2> QED
    BY <2>2, <2>4, <2>5
<1> QED
  BY <1>3

\* After a return the innermost call is gone and its caller finishes.
LEMMA ReturnType ==
  ASSUME TypeOK, Nested, stack # <<>>, NEW kind \in {"result", "duplicate"},
         NEW outcome \in Outcomes, Return(kind, outcome), guards' = guards
  PROVE  /\ stack' \in Seq(Frame) /\ answer' \in Answer
         /\ \A n \in DOMAIN stack' : /\ n \in DOMAIN stack /\ n < Len(stack)
                                     /\ stack'[n].id = stack[n].id
         /\ Nested' /\ RunsOnRecord'
<1>1. /\ stack \in Seq(Frame) /\ Len(stack) \in Nat \ {0} /\ DOMAIN stack = 1..Len(stack)
      /\ Top \in Frame /\ Len(stack) - 1 \in Nat
  BY TopFacts DEF TypeOK
<1>3. /\ Under \in Seq(Frame) /\ Len(Under) = Len(stack) - 1
      /\ \A n \in 1..(Len(stack) - 1) : Under[n] = stack[n]
  BY UnderFacts
<1>4. CASE Under = <<>>
  <2>1. stack' = <<>> /\ answer' = Told(kind, outcome)
    BY <1>4 DEF Return
  <2>2. Top.session \in Sessions /\ Top.key \in Keys \cup {NoKey} /\ Top.digest[1] \in Bodies
    BY <1>1 DEF Frame, Digests
  <2>3. Told(kind, outcome) \in Answer
    BY <2>2 DEF Answer, Told
  <2>4. answer' \in Answer
    BY <2>1, <2>3, Zenon
  <2>5. stack' \in Seq(Frame) /\ DOMAIN stack' = {}
    BY <2>1
  <2> QED
    BY <2>1, <2>4, <2>5 DEF Nested, RunsOnRecord, Busy
<1>5. CASE Under # <<>>
  <2> DEFINE m == Len(Under)
             f == Finishing(Under[m], outcome)
  <2>1. m \in 1..(Len(stack) - 1) /\ m = Len(stack) - 1 /\ m < Len(stack)
    BY <1>1, <1>3, <1>5
  <2>3. Under[m] \in Frame /\ Under[m] = stack[m]
    BY <1>3, <2>1
  <2>4. f \in Frame /\ f.id = stack[m].id /\ f.step = "finish" /\ f.outcome # "none"
    BY <2>3 DEF Frame, Finishing, Outcomes
  <2>5. stack' = [Under EXCEPT ![m] = f] /\ answer' = answer
    BY <1>5 DEF Return
  <2>6. /\ stack' \in Seq(Frame) /\ Len(stack') = m /\ DOMAIN stack' = 1..m
        /\ stack'[m] = f /\ \A n \in 1..m : n # m => stack'[n] = stack[n]
    <3> HIDE DEF f
    <3> QED
      BY <1>3, <2>1, <2>4, <2>5
  <2> HIDE DEF f, m
  <2>7. \A n \in 1..m : n \in DOMAIN stack /\ n < Len(stack) /\ stack'[n].id = stack[n].id
    <3>1. ASSUME NEW n \in 1..m PROVE stack'[n].id = stack[n].id
      <4>1. CASE n = m
        BY <4>1, <2>4, <2>6
      <4>2. CASE n # m
        BY <4>2, <2>6
      <4> QED
        BY <4>1, <4>2
    <3>2. \A n \in 1..m : n \in DOMAIN stack /\ n < Len(stack)
      BY <1>1, <2>1
    <3> QED
      BY <3>1, <3>2
  <2>8. Nested'
    <3>1. \A n \in 1..m : stack'[n].id <= guards' /\ stack'[n].step # "begin" /\ stack'[n].id # 0
      BY <2>1, <2>4, <2>6, <2>7 DEF Nested
    <3>2. \A n \in 1..m : n < m => stack'[n].step = "run" /\ Wraps[stack'[n].digest[1]] # NoBody
      <4> TAKE n \in 1..m
      <4> HAVE n < m
      <4>1. stack[n].step = "run" /\ Wraps[stack[n].digest[1]] # NoBody
        BY <2>7, Waiting
      <4>2. stack'[n] = stack[n]
        BY <2>1, <2>6
      <4> QED
        BY <4>1, <4>2
    <3>4. \A n \in 1..m : stack'[n].step = "finish" => stack'[n].outcome # "none"
      BY <2>1, <2>4, <2>6, <2>7 DEF Nested
    <3>3. \A n, k \in 1..m : stack'[k].id = stack'[n].id => k = n
      BY <2>7 DEF Nested
    <3> QED
      BY <2>6, <3>1, <3>2, <3>3, <3>4 DEF Nested
  <2>9. RunsOnRecord'
    BY <2>4, <2>6 DEF RunsOnRecord, Busy, Top
  <2> QED
    BY <2>5, <2>6, <2>7, <2>8, <2>9 DEF TypeOK
<1> QED
  BY <1>4, <1>5

\* With fewer frames, each with the number it had, the records stay good.
LEMMA FewerFrames ==
  ASSUME NEW j, NEW st, NEW g, NEW rn, NEW st2, GoodRecords(j, st, g, rn),
         \A n \in DOMAIN st2 : n \in DOMAIN st /\ st2[n].id = st[n].id
  PROVE  GoodRecords(j, st2, g, rn)
BY DEF GoodRecords

LEMMA EntryIds ==
  ASSUME NEW p \in Seq(Entry)
  PROVE  \A i \in DOMAIN p : p[i] \in Entry /\ p[i].id \in Nat
<1>1. \A i \in DOMAIN p : p[i] \in Entry
  OBVIOUS
<1>2. \A e \in Entry : e.id \in Nat
  BY BoundsAssumption DEF Entry, Ids
<1> QED
  BY <1>1, <1>2

LEMMA RecordIds ==
  ASSUME TypeOK
  PROVE  \A i \in DOMAIN journal : journal[i] \in Entry /\ journal[i].id \in Nat \ {0}
<1>1. \A i \in DOMAIN journal : journal[i] \in Entry
  BY DEF TypeOK
<1> QED
  BY <1>1, BoundsAssumption DEF Entry, Ids

LEMMA FrameIds ==
  ASSUME TypeOK
  PROVE  \A n \in DOMAIN stack : stack[n] \in Frame /\ stack[n].id \in Nat
<1>1. \A n \in DOMAIN stack : stack[n] \in Frame
  BY DEF TypeOK
<1> QED
  BY <1>1, BoundsAssumption DEF Frame, Ids

-----------------------------------------------------------------------------
(***************************************************************************)
(* One lemma per action.                                                   *)
(***************************************************************************)

LEMMA InitIInv == Init => IInv
<1> SUFFICES ASSUME Init PROVE IInv
  OBVIOUS
<1>1. TypeOK
  BY BoundsAssumption DEF Init, TypeOK, NoAnswer, Answer
<1>2. Bounded /\ Nested /\ RunsOnRecord /\ RanNumbered
  BY BoundsAssumption DEF Init, Bounded, Nested, RunsOnRecord, RanNumbered, Busy
<1>3. GoodRecords(journal, stack, guards, ran)
  BY DEF Init, GoodRecords
<1> QED
  BY <1>1, <1>2, <1>3, IInvUnfolded

LEMMA CallStep ==
  ASSUME IInv, NEW s \in Sessions, NEW k \in Keys \cup {NoKey}, NEW inHeader \in BOOLEAN,
         NEW b \in Bodies, Call(s, k, inHeader, b)
  PROVE  IInv'
<1> DEFINE f == [step |-> "begin", id |-> 0, session |-> s, key |-> k, header |-> inHeader,
                 digest |-> <<b, head>>, outcome |-> "none"]
<1>1. /\ TypeOK /\ Bounded /\ RanNumbered /\ GoodRecords(journal, stack, guards, ran)
  BY IInvUnfolded
<1>2. stack' = <<f>> /\ f \in Frame /\ f.step = "begin" /\ f.id = 0
  BY <1>1 DEF Call, Frame, Digests, TypeOK, Outcomes
<1> HIDE DEF f
<1>3. stack' \in Seq(Frame) /\ Len(stack') = 1 /\ DOMAIN stack' = {1} /\ stack'[1] = f
  BY <1>2
<1>4. used' \in [Sessions \X Keys -> SUBSET Bodies]
  <2>1. used \in [Sessions \X Keys -> SUBSET Bodies]
    BY <1>1 DEF TypeOK
  <2>2. used' = IF k = NoKey THEN used ELSE [used EXCEPT ![<<s, k>>] = @ \cup {b}]
    BY DEF Call
  <2> QED
    BY <2>1, <2>2
<1>5. TypeOK'
  BY <1>1, <1>3, <1>4 DEF Call, TypeOK, NoAnswer, Answer
<1>6. Nested' /\ RunsOnRecord'
  <2>1. guards' \in Nat
    BY <1>5 DEF TypeOK
  <2> QED
    BY <1>2, <1>3, <2>1 DEF Nested, RunsOnRecord, Busy, Top
<1>7. GoodRecords(journal', stack', guards', ran')
  <2>1. \A n \in DOMAIN stack' : stack'[n].id = 0
    BY <1>2, <1>3
  <2> QED
    BY <1>1, <2>1, RecordIds DEF Call, GoodRecords
<1>8. Bounded' /\ RanNumbered'
  BY <1>1 DEF Call, Bounded, RanNumbered
<1> QED
  BY <1>5, <1>6, <1>7, <1>8, IInvUnfoldedPrime

\* A call that is answered in begin, or whose outcome could not be saved, leaves
\* the journal at most pruned.
LEMMA ReturnStep ==
  ASSUME IInv, stack # <<>>, NEW kind \in {"result", "duplicate"}, NEW outcome \in Outcomes,
         Return(kind, outcome), UNCHANGED <<head, guards, ran, used>>,
         \/ journal' = Pruned /\ stale' = 0
         \/ UNCHANGED <<journal, stale>>
  PROVE  IInv'
<1>1. /\ TypeOK /\ Bounded /\ Nested /\ RanNumbered
      /\ GoodRecords(journal, stack, guards, ran)
  BY IInvUnfolded
<1>2. /\ stack' \in Seq(Frame) /\ answer' \in Answer /\ Nested' /\ RunsOnRecord'
      /\ \A n \in DOMAIN stack' : n \in DOMAIN stack /\ stack'[n].id = stack[n].id
  BY <1>1, ReturnType
<1>3. /\ journal' \in Seq(Entry) /\ Len(journal') <= MaxEntries /\ stale' \in 0..Len(journal')
      /\ GoodRecords(journal', stack, guards, ran)
  <2>1. CASE journal' = Pruned /\ stale' = 0
    BY <1>1, <2>1, PrunedGood
  <2>2. CASE UNCHANGED <<journal, stale>>
    BY <1>1, <2>2 DEF TypeOK, Bounded
  <2> QED
    BY <2>1, <2>2
<1>4. GoodRecords(journal', stack', guards, ran)
  BY <1>2, <1>3, FewerFrames
<1>5. TypeOK' /\ Bounded' /\ RanNumbered'
  BY <1>1, <1>2, <1>3 DEF TypeOK, Bounded, RanNumbered
<1> QED
  BY <1>2, <1>4, <1>5, IInvUnfoldedPrime

\* The record that BeginRecorded appends.
NewRecord == [id |-> guards + 1, session |-> Top.session, key |-> Top.key,
              digest |-> Top.digest, status |-> "started"]

\* Appended to a journal nothing of which concerns the call, the new record
\* leaves it good: for the keys and digests because there are no hits, for the
\* numbers because it is the latest.
LEMMA AppendGood ==
  ASSUME IInv, Busy("begin"), Hits(Top) = {}, guards < MaxGuards
  PROVE  /\ NewRecord \in Entry /\ Append(Pruned, NewRecord) \in Seq(Entry)
         /\ \A st : /\ \A n \in DOMAIN st : st[n].id <= guards \/ st[n].id = guards + 1
                    /\ GoodRecords(Pruned, st, guards, ran)
                    => GoodRecords(Append(Pruned, NewRecord), st, guards + 1, ran)
<1> DEFINE e == NewRecord
           p == Pruned
           j == Append(p, e)
<1>1. /\ TypeOK /\ RanNumbered /\ stack # <<>> /\ GoodRecords(p, stack, guards, ran)
      /\ p \in Seq(Entry) /\ guards \in Nat /\ Top \in Frame
  BY IInvUnfolded, PrunedGood, TopFacts, BoundsAssumption DEF TypeOK, Busy
<1>2. e \in Entry /\ e.id = guards + 1 /\ e.session = Top.session /\ e.key = Top.key
      /\ e.digest = Top.digest /\ e.status = "started"
  BY <1>1, BoundsAssumption DEF NewRecord, Frame, Entry, Ids
<1>3. \A i \in DOMAIN p : ~Concerns(p[i], Top)
  BY DEF Hits
<1> HIDE DEF p, e
<1>4. /\ j \in Seq(Entry) /\ Len(p) \in Nat /\ DOMAIN p = 1..Len(p)
      /\ DOMAIN j = 1..(Len(p) + 1) /\ j[Len(p) + 1] = e
      /\ \A i \in 1..Len(p) : j[i] = p[i]
  BY <1>1, <1>2
<1>5. ASSUME NEW st, \A n \in DOMAIN st : st[n].id <= guards \/ st[n].id = guards + 1,
             GoodRecords(p, st, guards, ran)
      PROVE  GoodRecords(j, st, guards + 1, ran)
  <2> HIDE DEF j
  <2>1. \A i \in 1..Len(p) : /\ j[i] = p[i] /\ p[i] \in Entry /\ p[i].id \in Nat
                             /\ p[i].id <= guards
    BY <1>1, <1>4, <1>5, EntryIds DEF GoodRecords
  <2>2. ASSUME NEW i \in DOMAIN j
        PROVE  /\ j[i].id <= guards + 1
               /\ \A n \in DOMAIN st : st[n].id = j[i].id => j[i].status = "started"
               /\ \A r \in ran : r.id = j[i].id => r.session = j[i].session
                                                   /\ r.digest = j[i].digest
    <3>1. CASE i \in 1..Len(p)
      BY <1>1, <1>4, <1>5, <2>1, <3>1 DEF GoodRecords
    <3>2. CASE i = Len(p) + 1
      <4>1. \A r \in ran : r.id <= guards /\ r.id \in Nat
        BY <1>1, BoundsAssumption DEF RanNumbered, TypeOK, Run, Ids
      <4> QED
        BY <1>1, <1>2, <1>4, <3>2, <4>1
    <3> QED
      BY <1>4, <3>1, <3>2
  <2>3. ASSUME NEW i \in DOMAIN j, NEW k \in DOMAIN j
        PROVE  /\ i < k => j[i].id < j[k].id
               /\ j[i].session = j[k].session =>
                    /\ j[i].key = j[k].key /\ j[i].key # NoKey => j[i].digest = j[k].digest
                    /\ j[i].digest = j[k].digest => i = k
    <3>1. CASE i \in 1..Len(p) /\ k \in 1..Len(p)
      BY <1>4, <1>5, <2>1, <3>1 DEF GoodRecords
    <3>2. CASE i \in 1..Len(p) /\ k = Len(p) + 1
      BY <1>1, <1>2, <1>3, <1>4, <2>1, <3>2 DEF Concerns, Clashes
    <3>3. CASE i = Len(p) + 1 /\ k \in 1..Len(p)
      BY <1>1, <1>2, <1>3, <1>4, <2>1, <3>3 DEF Concerns, Clashes
    <3>4. CASE i = Len(p) + 1 /\ k = Len(p) + 1
      BY <1>4, <3>4
    <3> QED
      BY <1>4, <3>1, <3>2, <3>3, <3>4
  <2> QED
    BY <2>2, <2>3 DEF GoodRecords
<1> QED
  BY <1>2, <1>4, <1>5 DEF p, e

LEMMA BeginRecordedStep ==
  ASSUME IInv, BeginRecorded
  PROVE  IInv'
<1> DEFINE f == [Top EXCEPT !.step = "run", !.id = guards']
           j == Append(Pruned, NewRecord)
           last == Len(stack)
<1>1. /\ TypeOK /\ Nested /\ RanNumbered /\ GoodRecords(journal, stack, guards, ran)
      /\ stack # <<>> /\ Busy("begin") /\ Top \in Frame /\ guards \in Nat /\ guards' = guards + 1
      /\ guards' \in Ids /\ Hits(Top) = {} /\ guards < MaxGuards
  BY IInvUnfolded, TopFacts, BoundsAssumption DEF BeginRecorded, Busy, TypeOK, Ids
<1>2. /\ f \in Frame /\ f.id = guards + 1 /\ f.step = "run" /\ f.session = Top.session
      /\ f.digest = Top.digest
  BY <1>1 DEF Frame
<1>3. TopBecomes(f) /\ journal' = Newest(j) /\ stale' = 0
      /\ UNCHANGED <<head, ran, used, answer>>
  <2>1. journal' = Newest(Append(Pruned, [id |-> guards', session |-> Top.session,
                     key |-> Top.key, digest |-> Top.digest, status |-> "started"]))
    BY DEF BeginRecorded
  <2> QED
    BY <1>1, <2>1 DEF BeginRecorded, NewRecord
<1> HIDE DEF f
<1>4. /\ stack' \in Seq(Frame) /\ Len(stack') = last /\ DOMAIN stack' = DOMAIN stack
      /\ Top' = f /\ stack'[last] = f /\ \A n \in DOMAIN stack : n # last => stack'[n] = stack[n]
      /\ last \in DOMAIN stack /\ DOMAIN stack = 1..last
  BY <1>1, <1>2, <1>3, TopBecomesType, TopFacts
<1>5. \A n \in DOMAIN stack : stack[n].id <= guards /\ stack[n].id \in Nat
  BY <1>1, FrameIds DEF Nested
<1>6. NewRecord \in Entry /\ j \in Seq(Entry) /\ GoodRecords(j, stack', guards', ran')
  <2>1. \A n \in DOMAIN stack' : stack'[n].id <= guards \/ stack'[n].id = guards + 1
    BY <1>2, <1>4, <1>5
  <2>2. GoodRecords(Pruned, stack, guards, ran) /\ Pruned \in Seq(Entry)
    BY <1>1, PrunedGood
  <2>3. \A i \in DOMAIN Pruned : Pruned[i].id <= guards /\ Pruned[i].id \in Nat
    BY <2>2, EntryIds DEF GoodRecords
  <2>4. \A i \in DOMAIN Pruned, n \in DOMAIN stack' :
          stack'[n].id = Pruned[i].id => Pruned[i].status = "started"
    <3> TAKE i \in DOMAIN Pruned, n \in DOMAIN stack'
    <3>1. CASE n = last
      BY <1>1, <1>2, <1>4, <2>3, <3>1
    <3>2. CASE n # last
      BY <1>4, <2>2, <3>2 DEF GoodRecords
    <3> QED
      BY <3>1, <3>2
  <2>5. GoodRecords(Pruned, stack', guards, ran)
    BY <2>2, <2>4 DEF GoodRecords
  <2>6. UNCHANGED ran
    BY <1>3
  <2> QED
    BY <1>1, <2>1, <2>5, <2>6, AppendGood
<1>7. /\ journal' \in Seq(Entry) /\ Len(journal') <= MaxEntries
      /\ GoodRecords(journal', stack', guards', ran')
      /\ Len(journal') \in DOMAIN journal' /\ journal'[Len(journal')] = NewRecord
  <2>1. Len(j) > 0 /\ j[Len(j)] = NewRecord
    <3>1. Pruned \in Seq(Entry)
      BY <1>1, PrunedGood
    <3> QED
      BY <1>6, <3>1
  <2> HIDE DEF j
  <2>2. /\ IsSuffix(journal', j) /\ Len(journal') <= MaxEntries /\ Len(journal') > 0
        /\ journal'[Len(journal')] = NewRecord
    BY <1>3, <1>6, <2>1, NewestSuffix
  <2>3. journal' \in Seq(Entry)
    BY <2>2 DEF IsSuffix
  <2>4. GoodRecords(journal', stack', guards', ran')
    BY <1>6, <2>2, SuffixGood
  <2> QED
    BY <2>2, <2>3, <2>4
<1>8. TypeOK' /\ Bounded' /\ RanNumbered'
  <2>1. stale' \in 0..Len(journal') /\ guards' \in 0..MaxGuards
    BY <1>1, <1>3, <1>7 DEF Ids
  <2>2. \A r \in ran : r.id \in Nat
    BY <1>1, BoundsAssumption DEF TypeOK, Run, Ids
  <2> QED
    BY <1>1, <1>3, <1>4, <1>7, <2>1, <2>2 DEF TypeOK, Bounded, RanNumbered
<1>9. Nested'
  <2>1. \A n \in DOMAIN stack' :
          /\ stack'[n].id <= guards'
          /\ stack'[n].step # "begin" /\ stack'[n].id # 0
          /\ stack'[n].step = "finish" => stack'[n].outcome # "none"
          /\ n < last => stack'[n].step = "run" /\ Wraps[stack'[n].digest[1]] # NoBody
    BY <1>1, <1>2, <1>4, <1>5 DEF Nested
  <2>2. \A n, m \in DOMAIN stack' : stack'[m].id = stack'[n].id => m = n
    BY <1>1, <1>2, <1>4, <1>5 DEF Nested
  <2> QED
    BY <1>4, <2>1, <2>2 DEF Nested
<1>10. RunsOnRecord'
  <2>1. \A r \in ran' : r.id # guards'
    BY <1>1, <1>3, BoundsAssumption DEF RanNumbered, TypeOK, Run, Ids
  <2>2. /\ NewRecord.id = f.id /\ NewRecord.session = f.session
        /\ NewRecord.digest = f.digest /\ NewRecord.status = "started"
    BY <1>2 DEF NewRecord
  <2> QED
    BY <1>1, <1>2, <1>4, <1>7, <2>1, <2>2 DEF RunsOnRecord
<1> QED
  BY <1>7, <1>8, <1>9, <1>10, IInvUnfoldedPrime

\* The innermost call leaves its tool: nothing is left to say of it but its number.
LEMMA FinishingStep ==
  ASSUME IInv, Busy("run"), NEW f \in Frame, f.step = "finish", f.id = Top.id,
         f.outcome # "none", TopBecomes(f),
         UNCHANGED <<journal, stale>> \/ (journal' = <<>> /\ stale' = 0),
         UNCHANGED <<head, guards, used, answer>>,
         ran' \subseteq Run,
         \A r \in ran' : r \in ran \/ /\ r.id = Top.id /\ r.session = Top.session
                                      /\ r.digest = Top.digest
  PROVE  IInv'
<1>1. /\ TypeOK /\ Bounded /\ Nested /\ RunsOnRecord /\ RanNumbered
      /\ GoodRecords(journal, stack, guards, ran) /\ stack # <<>>
  BY IInvUnfolded DEF Busy
<1>2. /\ stack' \in Seq(Frame) /\ Len(stack') = Len(stack) /\ DOMAIN stack' = DOMAIN stack
      /\ Top' = f /\ stack'[Len(stack)] = f /\ Len(stack) \in DOMAIN stack
      /\ \A n \in DOMAIN stack : n # Len(stack) => stack'[n] = stack[n]
      /\ stack[Len(stack)] = Top /\ DOMAIN stack = 1..Len(stack)
  BY <1>1, TopBecomesType, TopFacts DEF Top
<1>3. \A n \in DOMAIN stack : stack'[n].id = stack[n].id
  <2> TAKE n \in DOMAIN stack
  <2>1. CASE n = Len(stack)
    BY <1>2, <2>1
  <2>2. CASE n # Len(stack)
    BY <1>2, <2>2
  <2> QED
    BY <2>1, <2>2
<1>4. Nested'
  <2>1. f.id # 0
    BY <1>1, <1>2 DEF Nested, Busy
  <2>2. \A n \in DOMAIN stack' :
          /\ stack'[n].id <= guards' /\ stack'[n].step # "begin" /\ stack'[n].id # 0
          /\ stack'[n].step = "finish" => stack'[n].outcome # "none"
          /\ n < Len(stack) => stack'[n].step = "run" /\ Wraps[stack'[n].digest[1]] # NoBody
    <3> TAKE n \in DOMAIN stack'
    <3>1. CASE n = Len(stack)
      BY <1>1, <1>2, <1>3, <2>1, <3>1 DEF Nested
    <3>2. CASE n # Len(stack)
      BY <1>1, <1>2, <1>3, <3>2 DEF Nested
    <3> QED
      BY <3>1, <3>2
  <2>3. \A n, m \in DOMAIN stack' : stack'[m].id = stack'[n].id => m = n
    BY <1>1, <1>2, <1>3 DEF Nested
  <2> QED
    BY <1>2, <2>2, <2>3 DEF Nested
<1>5. RunsOnRecord'
  BY <1>2 DEF RunsOnRecord, Busy
<1>6. TypeOK' /\ Bounded'
  <2>1. journal' \in Seq(Entry) /\ stale' \in 0..Len(journal') /\ Len(journal') <= MaxEntries
    <3>1. CASE UNCHANGED <<journal, stale>>
      BY <1>1, <3>1 DEF TypeOK, Bounded
    <3>2. CASE journal' = <<>> /\ stale' = 0
      BY <3>2, BoundsAssumption
    <3> QED
      BY <3>1, <3>2
  <2> QED
    BY <1>1, <1>2, <2>1 DEF TypeOK, Bounded
<1>7. RanNumbered'
  <2>1. Top.id <= guards
    BY <1>1, <1>2 DEF Nested
  <2> QED
    BY <1>1, <2>1 DEF RanNumbered
<1>8. GoodRecords(journal, stack', guards', ran')
  <2>1. PICK k \in DOMAIN journal : /\ journal[k].id = Top.id /\ journal[k].session = Top.session
                                    /\ journal[k].digest = Top.digest
    BY <1>1 DEF RunsOnRecord
  <2>2. \A i \in DOMAIN journal : journal[i].id = Top.id => i = k
    <3>1. \A i \in DOMAIN journal : i \in Nat /\ journal[i].id \in Nat
      BY <1>1, RecordIds DEF TypeOK
    <3> QED
      BY <1>1, <2>1, <3>1 DEF GoodRecords
  <2>3. \A i \in DOMAIN journal, r \in ran' :
          r.id = journal[i].id => r.session = journal[i].session /\ r.digest = journal[i].digest
    BY <1>1, <2>1, <2>2 DEF GoodRecords
  <2>4. \A i \in DOMAIN journal, n \in DOMAIN stack' :
          stack'[n].id = journal[i].id => journal[i].status = "started"
    BY <1>1, <1>2, <1>3 DEF GoodRecords
  <2> QED
    BY <1>1, <2>3, <2>4 DEF GoodRecords
<1>9. GoodRecords(journal', stack', guards', ran')
  BY <1>8 DEF GoodRecords
<1> QED
  BY <1>4, <1>5, <1>6, <1>7, <1>9, IInvUnfoldedPrime

LEMMA ExecuteStep ==
  ASSUME IInv, Execute
  PROVE  IInv'
<1>1. TypeOK /\ Busy("run") /\ Top \in Frame /\ Nested /\ Top.id # 0
  <2>1. TypeOK /\ Busy("run") /\ Nested /\ stack # <<>>
    BY IInvUnfolded DEF Execute, Busy
  <2> QED
    BY <2>1, TopFacts DEF Nested, Busy, Top
<1>2. PICK o \in {"ok", "not ok", "raised"} :
        /\ ran' = ran \cup {[id |-> Top.id, session |-> Top.session,
                              digest |-> Top.digest, outcome |-> o]}
        /\ TopBecomes([Top EXCEPT !.step = "finish", !.outcome = o])
  BY DEF Execute
<1> DEFINE f == [Top EXCEPT !.step = "finish", !.outcome = o]
<1>3. f \in Frame /\ f.step = "finish" /\ f.id = Top.id /\ f.outcome # "none"
  BY <1>1 DEF Frame, Outcomes
<1>4. [id |-> Top.id, session |-> Top.session, digest |-> Top.digest, outcome |-> o] \in Run
  BY <1>1 DEF Frame, Run, Outcomes
<1>5. ran' \subseteq Run
  BY <1>1, <1>2, <1>4 DEF TypeOK
<1>6. \A r \in ran' : r \in ran \/ /\ r.id = Top.id /\ r.session = Top.session
                                   /\ r.digest = Top.digest
  <2> DEFINE q == [id |-> Top.id, session |-> Top.session, digest |-> Top.digest,
                   outcome |-> o]
  <2>1. q.id = Top.id /\ q.session = Top.session /\ q.digest = Top.digest
    OBVIOUS
  <2>2. ran' = ran \cup {q}
    BY <1>2
  <2> HIDE DEF q
  <2> QED
    BY <2>1, <2>2
<1>7. /\ UNCHANGED <<journal, stale>> \/ (journal' = <<>> /\ stale' = 0)
      /\ UNCHANGED <<head, guards, used, answer>>
  BY DEF Execute
<1> HIDE DEF f
<1>8. TopBecomes(f)
  BY <1>2 DEF f
<1> QED
  BY <1>1, <1>3, <1>5, <1>6, <1>7, <1>8, FinishingStep

LEMMA RejectStep ==
  ASSUME IInv, Reject
  PROVE  IInv'
<1> DEFINE f == [Top EXCEPT !.step = "finish", !.outcome = "raised"]
<1>1. TypeOK /\ Busy("run") /\ stack # <<>> /\ TopBecomes(f)
      /\ UNCHANGED <<journal, stale, head, guards, ran, used, answer>>
  BY IInvUnfolded DEF Reject, Busy
<1>2. f \in Frame /\ f.step = "finish" /\ f.id = Top.id /\ f.outcome # "none"
  <2>1. Top \in Frame
    BY <1>1, TopFacts
  <2> QED
    BY <2>1 DEF Frame, Outcomes
<1>3. ran' \subseteq Run /\ \A r \in ran' : r \in ran
  BY <1>1 DEF TypeOK
<1> HIDE DEF f
<1> QED
  BY <1>1, <1>2, <1>3, FinishingStep

LEMMA InvokeStep ==
  ASSUME IInv, Invoke
  PROVE  IInv'
<1> DEFINE last == Len(stack)
           inner == [Top EXCEPT !.step = "begin", !.id = 0,
                                !.key = IF Top.header THEN @ ELSE NoKey,
                                !.digest = <<Wraps[Top.digest[1]], head>>]
<1>1. /\ TypeOK /\ Bounded /\ Nested /\ RanNumbered
      /\ GoodRecords(journal, stack, guards, ran) /\ stack # <<>> /\ Busy("run")
      /\ Wraps[Top.digest[1]] # NoBody
      /\ UNCHANGED <<journal, stale, head, guards, ran, used, answer>>
  BY IInvUnfolded DEF Invoke, Busy
<1>2. Top \in Frame /\ stack \in Seq(Frame) /\ DOMAIN stack = 1..last /\ last \in Nat \ {0}
      /\ stack[last] = Top
  BY <1>1, TopFacts DEF TypeOK, Top
<1>3. inner \in Frame /\ inner.step = "begin" /\ inner.id = 0
  <2>1. Top.digest[1] \in Bodies /\ head \in 0..MaxHead
    BY <1>1, <1>2 DEF Frame, Digests, TypeOK
  <2>2. Wraps[Top.digest[1]] \in Bodies
    BY <1>1, <2>1, BodiesAssumption
  <2>3. <<Wraps[Top.digest[1]], head>> \in Digests
    BY <2>1, <2>2 DEF Digests
  <2> QED
    BY <1>2, <2>3 DEF Frame
<1>4. stack' = Append(stack, inner)
  BY DEF Invoke
<1> HIDE DEF inner
<1>5. /\ stack' \in Seq(Frame) /\ Len(stack') = last + 1 /\ DOMAIN stack' = 1..(last + 1)
      /\ stack'[last + 1] = inner /\ \A n \in 1..last : stack'[n] = stack[n]
  BY <1>2, <1>3, <1>4
<1>6. TypeOK' /\ Bounded' /\ RanNumbered'
  BY <1>1, <1>5 DEF TypeOK, Bounded, RanNumbered
<1>7. \A n \in 1..last : /\ stack[n].step = "run" /\ stack[n].id # 0
                         /\ Wraps[stack[n].digest[1]] # NoBody
  <2> TAKE n \in 1..last
  <2>1. CASE n = last
    BY <1>1, <1>2, <2>1 DEF Nested, Busy
  <2>2. CASE n # last
    <3>1. n \in DOMAIN stack /\ last \in Nat
      BY <1>2
    <3>2. n < last
      BY <2>2, <3>1
    <3> QED
      BY <1>1, <3>1, <3>2, Waiting
  <2> QED
    BY <2>1, <2>2
<1>8. Nested'
  <2>1. guards \in Nat
    BY <1>1 DEF TypeOK
  <2>2. \A n \in DOMAIN stack' :
          /\ stack'[n].id <= guards'
          /\ stack'[n].step = "begin" => stack'[n].id = 0
          /\ stack'[n].step # "begin" => stack'[n].id # 0
          /\ stack'[n].step = "finish" => stack'[n].outcome # "none"
          /\ n < last + 1 => stack'[n].step = "run" /\ Wraps[stack'[n].digest[1]] # NoBody
    <3> TAKE n \in DOMAIN stack'
    <3>1. CASE n \in 1..last
      <4>1. stack'[n] = stack[n] /\ n \in DOMAIN stack
        BY <1>2, <1>5, <3>1
      <4>2. stack[n].step = "run" /\ stack[n].id # 0 /\ Wraps[stack[n].digest[1]] # NoBody
        BY <1>7, <3>1
      <4>3. stack[n].id <= guards /\ guards' = guards
        BY <1>1, <4>1 DEF Nested
      <4> QED
        BY <4>1, <4>2, <4>3
    <3>2. CASE n = last + 1
      BY <1>1, <1>2, <1>3, <1>5, <2>1, <3>2
    <3> QED
      BY <1>2, <1>5, <3>1, <3>2
  <2>3. ASSUME NEW n \in DOMAIN stack', NEW m \in DOMAIN stack', stack'[m].id = stack'[n].id
        PROVE  m = n
    <3>1. CASE n \in 1..last /\ m \in 1..last
      BY <1>1, <1>2, <1>5, <2>3, <3>1 DEF Nested
    <3>2. CASE n = last + 1 \/ m = last + 1
      BY <1>2, <1>3, <1>5, <1>7, <2>3, <3>2
    <3> QED
      BY <1>2, <1>5, <3>1, <3>2
  <2> QED
    BY <1>5, <2>2, <2>3 DEF Nested
<1>9. RunsOnRecord'
  BY <1>3, <1>5 DEF RunsOnRecord, Busy, Top
<1>10. GoodRecords(journal', stack', guards', ran')
  <2>1. \A i \in DOMAIN journal, n \in DOMAIN stack' :
          stack'[n].id = journal[i].id => journal[i].status = "started"
    <3> TAKE i \in DOMAIN journal, n \in DOMAIN stack'
    <3>1. CASE n \in 1..last
      BY <1>1, <1>2, <1>5, <3>1 DEF GoodRecords
    <3>2. CASE n = last + 1
      BY <1>1, <1>3, <1>5, <3>2, RecordIds
    <3> QED
      BY <1>2, <1>5, <3>1, <3>2
  <2> QED
    BY <1>1, <2>1 DEF GoodRecords
<1> QED
  BY <1>6, <1>8, <1>9, <1>10, IInvUnfoldedPrime

\* The record of the call that finishes gets the status, the others none of
\* which is the record of a call still in progress stay as they are.
LEMMA FinishStep ==
  ASSUME IInv, Finish
  PROVE  IInv'
<1>1. /\ TypeOK /\ Nested /\ RanNumbered /\ GoodRecords(Pruned, stack, guards, ran)
      /\ stack # <<>> /\ Busy("finish") /\ Pruned \in Seq(Entry) /\ Len(Pruned) <= MaxEntries
  BY IInvUnfolded, PrunedGood DEF Finish, Busy
<1>2. /\ Top \in Frame /\ Top = stack[Len(stack)] /\ Len(stack) \in DOMAIN stack
      /\ DOMAIN stack = 1..Len(stack)
  BY <1>1, TopFacts DEF Top
<1>3. Top.outcome \in Outcomes
  BY <1>1, <1>2 DEF Frame, Nested, Busy
<1>4. /\ Return("result", Top.outcome) /\ stale' = 0 /\ UNCHANGED <<head, guards, ran, used>>
      /\ journal' = [i \in DOMAIN Pruned |->
                      IF Pruned[i].id = Top.id
                      THEN [Pruned[i] EXCEPT !.status = IF Top.outcome = "ok" THEN "applied"
                                                        ELSE "failed"]
                      ELSE Pruned[i]]
  BY DEF Finish
<1>5. /\ stack' \in Seq(Frame) /\ answer' \in Answer /\ Nested' /\ RunsOnRecord'
      /\ \A n \in DOMAIN stack' : /\ n \in DOMAIN stack /\ n < Len(stack)
                                  /\ stack'[n].id = stack[n].id
  BY <1>1, <1>3, <1>4, ReturnType
<1>6. /\ DOMAIN journal' = DOMAIN Pruned /\ DOMAIN Pruned = 1..Len(Pruned)
      /\ \A i \in DOMAIN Pruned :
           /\ journal'[i] \in Entry
           /\ journal'[i].id = Pruned[i].id /\ journal'[i].session = Pruned[i].session
           /\ journal'[i].key = Pruned[i].key /\ journal'[i].digest = Pruned[i].digest
           /\ Pruned[i].id # Top.id => journal'[i].status = Pruned[i].status
  <2>1. \A i \in DOMAIN Pruned : Pruned[i] \in Entry
    BY <1>1, EntryIds
  <2> QED
    BY <1>1, <1>4, <2>1 DEF Entry
<1>7. journal' \in Seq(Entry) /\ Len(journal') = Len(Pruned)
  BY <1>1, <1>4, <1>6
<1>8. TypeOK' /\ Bounded' /\ RanNumbered'
  BY <1>1, <1>4, <1>5, <1>7 DEF TypeOK, Bounded, RanNumbered
<1>9. GoodRecords(journal', stack', guards', ran')
  <2>1. GoodRecords(Pruned, stack', guards, ran)
    BY <1>1, <1>5, FewerFrames
  <2>2. \A n \in DOMAIN stack' : stack'[n].id # Top.id
    BY <1>1, <1>2, <1>5 DEF Nested
  <2>3. ASSUME NEW i \in DOMAIN journal', NEW n \in DOMAIN stack',
               stack'[n].id = journal'[i].id
        PROVE  journal'[i].status = "started"
    BY <1>6, <2>1, <2>2, <2>3 DEF GoodRecords
  <2> QED
    BY <1>4, <1>6, <2>1, <2>3 DEF GoodRecords
<1> QED
  BY <1>5, <1>8, <1>9, IInvUnfoldedPrime

LEMMA CrashStep ==
  ASSUME IInv, Crash
  PROVE  IInv'
<1>1. TypeOK /\ Bounded /\ RanNumbered /\ GoodRecords(journal, stack, guards, ran)
  BY IInvUnfolded
<1>2. stack' = <<>> /\ UNCHANGED <<journal, stale, head, guards, ran, used, answer>>
  BY DEF Crash
<1>3. TypeOK' /\ Bounded' /\ RanNumbered'
  BY <1>1, <1>2 DEF TypeOK, Bounded, RanNumbered
<1>4. Nested' /\ RunsOnRecord' /\ GoodRecords(journal', stack', guards', ran')
  BY <1>1, <1>2 DEF Nested, RunsOnRecord, Busy, GoodRecords
<1> QED
  BY <1>3, <1>4, IInvUnfoldedPrime

\* Time and commits touch neither the records nor the calls.
LEMMA ElsewhereStep ==
  ASSUME IInv, Tick \/ Commit \/ UNCHANGED vars
  PROVE  IInv'
<1>1. /\ TypeOK /\ Bounded /\ Nested /\ RunsOnRecord /\ RanNumbered
      /\ GoodRecords(journal, stack, guards, ran)
  BY IInvUnfolded
<1>2. UNCHANGED <<journal, stack, guards, ran, used, answer>>
  BY DEF Tick, Commit, vars
<1>3. stale' \in 0..Len(journal) /\ head' \in 0..MaxHead
  BY <1>1, BoundsAssumption DEF Tick, Commit, vars, TypeOK
<1>4. TypeOK'
  BY <1>1, <1>2, <1>3 DEF TypeOK
<1>5. Bounded' /\ Nested' /\ RunsOnRecord' /\ RanNumbered'
      /\ GoodRecords(journal', stack', guards', ran')
  BY <1>1, <1>2 DEF Bounded, Nested, RunsOnRecord, RanNumbered, Busy, Top
<1> QED
  BY <1>4, <1>5, IInvUnfoldedPrime

LEMMA StepIInv ==
  ASSUME IInv, [Next]_vars
  PROVE  IInv'
<1>1. ASSUME NEW s \in Sessions, NEW k \in Keys \cup {NoKey}, NEW inHeader \in BOOLEAN,
             NEW b \in Bodies, Call(s, k, inHeader, b)
      PROVE  IInv'
  BY <1>1, CallStep
<1>2. CASE BeginRecorded
  BY <1>2, BeginRecordedStep
<1>3. CASE BeginDuplicate
  <2>1. PICK o \in {"ok", "not ok"} : Return("duplicate", o)
    BY <1>3 DEF BeginDuplicate
  <2>2. stack # <<>> /\ o \in Outcomes /\ journal' = Pruned /\ stale' = 0
        /\ UNCHANGED <<head, guards, ran, used>>
    BY <1>3 DEF BeginDuplicate, Busy, Outcomes
  <2> QED
    BY <2>1, <2>2, ReturnStep
<1>4. CASE BeginConflict
  <2>1. /\ stack # <<>> /\ Return("result", "conflict") /\ "conflict" \in Outcomes
        /\ journal' = Pruned /\ stale' = 0 /\ UNCHANGED <<head, guards, ran, used>>
    BY <1>4 DEF BeginConflict, Busy, Outcomes
  <2> QED
    BY <2>1, ReturnStep
<1>5. CASE Execute
  BY <1>5, ExecuteStep
<1>6. CASE Reject
  BY <1>6, RejectStep
<1>7. CASE Invoke
  BY <1>7, InvokeStep
<1>8. CASE Finish
  BY <1>8, FinishStep
<1>9. CASE SaveFails
  <2>1. /\ stack # <<>> /\ Return("result", "raised") /\ "raised" \in Outcomes
        /\ UNCHANGED <<journal, stale>> /\ UNCHANGED <<head, guards, ran, used>>
    BY <1>9 DEF SaveFails, Busy, Outcomes
  <2> QED
    BY <2>1, ReturnStep
<1>10. CASE Crash
  BY <1>10, CrashStep
<1>11. CASE Tick \/ Commit \/ UNCHANGED vars
  BY <1>11, ElsewhereStep
<1> QED
  BY <1>1, <1>2, <1>3, <1>4, <1>5, <1>6, <1>7, <1>8, <1>9, <1>10, <1>11 DEF Next

LEMMA Inductive == Spec => []IInv
<1>1. IInv /\ [Next]_vars => IInv'
  BY StepIInv
<1> QED
  BY <1>1, InitIInv, PTL DEF Spec

-----------------------------------------------------------------------------
(***************************************************************************)
(* The theorems.                                                           *)
(***************************************************************************)

\* Every variable keeps its type.
THEOREM TypeCorrect == Spec => []TypeOK
<1>1. IInv => TypeOK
  BY DEF IInv
<1> QED
  BY <1>1, Inductive, PTL

\* _mutation_replay_prune_entries: the journal never holds more than
\* MCP_MUTATION_REPLAY_GUARD_MAX_ENTRIES records.
THEOREM JournalBounded == Spec => []Bounded
<1>1. IInv => Bounded
  BY DEF IInv
<1> QED
  BY <1>1, Inductive, PTL

\* _mutation_replay_guard_begin: a key is bound to one digest, and a digest to
\* one record, whatever the calls, crashes and failed saves.
THEOREM KeysBound == Spec => []KeyBindsOne
<1>1. IInv => KeyBindsOne
  BY DEF IInv
<1> QED
  BY <1>1, Inductive, PTL

\* Only Execute starts a mutation, and it is the innermost call's.
LEMMA RanChanges ==
  ASSUME [Next]_vars, NEW r \in ran' \ ran
  PROVE  Execute /\ r.id = Top.id /\ r.session = Top.session /\ r.digest = Top.digest
<1>1. ran' # ran
  OBVIOUS
<1>2. Execute
  BY <1>1 DEF Next, vars, Call, BeginRecorded, BeginDuplicate, BeginConflict, Reject, Invoke,
              Finish, SaveFails, Tick, Commit, Crash
<1>3. PICK o \in {"ok", "not ok", "raised"} :
        ran' = ran \cup {[id |-> Top.id, session |-> Top.session,
                          digest |-> Top.digest, outcome |-> o]}
  BY <1>2 DEF Execute
<1>4. r = [id |-> Top.id, session |-> Top.session, digest |-> Top.digest, outcome |-> o]
  BY <1>3
<1> QED
  BY <1>2, <1>4

\* _mutation_replay_guard_begin saves before the tool is called: a mutation runs
\* on an open record on disk.
THEOREM RecordedBeforeRun == Spec => WriteAhead
<1>1. ASSUME IInv, [Next]_vars
      PROVE  \A r \in ran' \ ran :
               \E i \in DOMAIN journal : /\ journal[i].id = r.id
                                         /\ journal[i].status = "started"
  <2> TAKE r \in ran' \ ran
  <2>1. Busy("run") /\ r.id = Top.id
    BY <1>1, RanChanges DEF Execute
  <2> QED
    BY <1>1, <2>1 DEF IInv, RunsOnRecord
<1> QED
  BY <1>1, Inductive, PTL DEF Spec, WriteAhead

\* _run_with_mutation_replay_guard: a mutation whose first run is on record is
\* not run again.  The record of the new run and the retained one would have the
\* same session and digest, so be the same, but the new run's record was not run.
THEOREM RunAtMostOnce == Spec => AtMostOnce
<1>1. ASSUME IInv, [Next]_vars
      PROVE  \A r \in ran' \ ran, q \in ran :
               q.session = r.session /\ q.digest = r.digest => ~Retained(q.id)
  <2> SUFFICES ASSUME NEW r \in ran' \ ran, NEW q \in ran, q.session = r.session,
                      q.digest = r.digest, NEW i \in DOMAIN journal, journal[i].id = q.id
               PROVE  FALSE
    BY DEF Retained
  <2>1. Busy("run") /\ r.session = Top.session /\ r.digest = Top.digest
    BY <1>1, RanChanges DEF Execute
  <2>2. PICK k \in DOMAIN journal : /\ journal[k].id = Top.id /\ journal[k].session = Top.session
                                    /\ journal[k].digest = Top.digest
    BY <1>1, <2>1 DEF IInv, RunsOnRecord
  <2>3. q.session = journal[i].session /\ q.digest = journal[i].digest
    BY <1>1 DEF IInv, RecordsMatch
  <2>4. i = k
    BY <1>1, <2>1, <2>2, <2>3 DEF IInv, KeyBindsOne
  <2> QED
    BY <1>1, <2>1, <2>2, <2>4 DEF IInv, RunsOnRecord
<1> QED
  BY <1>1, Inductive, PTL DEF Spec, AtMostOnce

\* Records of one number in the journal and in what pruning leaves of it are the
\* same record.
LEMMA PrunedRecords ==
  ASSUME IInv, NEW i \in DOMAIN journal, NEW k \in DOMAIN Pruned, journal[i].id = Pruned[k].id
  PROVE  journal[i] = Pruned[k]
<1>1. /\ TypeOK /\ Numbered /\ IsSuffix(Pruned, journal) /\ journal \in Seq(Entry)
  BY PrunedSuffix DEF IInv, TypeOK
<1> DEFINE m == k + (Len(journal) - Len(Pruned))
<1>2. m \in DOMAIN journal /\ Pruned[k] = journal[m]
  BY <1>1 DEF IsSuffix
<1> HIDE DEF m
<1>3. i \in Nat /\ m \in Nat /\ journal[i].id \in Nat /\ journal[m].id \in Nat
  BY <1>1, <1>2, RecordIds
<1>4. i = m
  BY <1>1, <1>2, <1>3 DEF Numbered
<1> QED
  BY <1>2, <1>4

\* _mutation_replay_guard_finish only ever settles an open record.
THEOREM SettledForGood == Spec => SettledStays
<1>1. ASSUME IInv, [Next]_vars
      PROVE  \A i \in DOMAIN journal, j \in DOMAIN journal' :
               journal[i].id = journal'[j].id /\ journal[i].status # "started"
               => journal'[j].status = journal[i].status
  <2> SUFFICES ASSUME NEW i \in DOMAIN journal, NEW j \in DOMAIN journal',
                      journal[i].id = journal'[j].id, journal[i].status # "started"
               PROVE  journal'[j].status = journal[i].status
    OBVIOUS
  <2>1. /\ TypeOK /\ Numbered /\ RecordsMatch /\ journal \in Seq(Entry)
        /\ Pruned \in Seq(Entry)
    BY <1>1, PrunedSuffix DEF IInv, TypeOK, IsSuffix
  <2>2. CASE UNCHANGED journal
    <3>1. i \in Nat /\ j \in Nat /\ j \in DOMAIN journal
          /\ journal[i].id \in Nat /\ journal[j].id \in Nat /\ journal[i].id = journal[j].id
      BY <2>1, <2>2, RecordIds
    <3>2. i = j
      BY <2>1, <3>1 DEF Numbered
    <3> QED
      BY <2>2, <3>2
  <2>3. CASE journal' = Pruned
    BY <1>1, <2>3, PrunedRecords
  <2>4. CASE BeginRecorded
    <3> DEFINE s == Append(Pruned, NewRecord)
    <3>1. NewRecord \in Entry /\ s \in Seq(Entry) /\ NewRecord.id = guards + 1
      <4>1. Busy("begin") /\ Hits(Top) = {} /\ guards < MaxGuards
        BY <2>4 DEF BeginRecorded
      <4> QED
        BY <1>1, <4>1, AppendGood DEF NewRecord
    <3>2. journal' = Newest(s)
      BY <2>4 DEF BeginRecorded, NewRecord
    <3>3. /\ Len(s) = Len(Pruned) + 1 /\ s[Len(Pruned) + 1] = NewRecord
          /\ \A k \in 1..Len(Pruned) : s[k] = Pruned[k] /\ k \in DOMAIN Pruned
      BY <2>1, <3>1
    <3> HIDE DEF s
    <3>4. PICK k \in 1..Len(s) : journal'[j] = s[k]
      <4>1. IsSuffix(journal', s)
        BY <3>1, <3>2, NewestSuffix
      <4>2. /\ j \in 1..Len(journal') /\ Len(s) \in Nat /\ Len(journal') \in Nat
            /\ Len(journal') <= Len(s)
            /\ journal'[j] = s[j + (Len(s) - Len(journal'))]
        BY <3>1, <4>1 DEF IsSuffix
      <4>3. j + (Len(s) - Len(journal')) \in 1..Len(s)
        BY <4>2
      <4> QED
        BY <4>2, <4>3
    <3>5. k # Len(Pruned) + 1
      <4>1. journal[i].id <= guards /\ journal[i].id \in Nat /\ guards \in Nat
        BY <2>1, RecordIds DEF Numbered, TypeOK
      <4>2. journal[i].id # guards + 1
        BY <4>1
      <4> QED
        BY <3>1, <3>3, <3>4, <4>2
    <3>6. k \in DOMAIN Pruned /\ journal'[j] = Pruned[k]
      <4>1. Len(Pruned) \in Nat
        BY <2>1
      <4> QED
        BY <3>3, <3>4, <3>5, <4>1
    <3> QED
      BY <1>1, <3>6, PrunedRecords
  <2>5. CASE Finish
    <3>1. Busy("finish") /\ journal' =
            [n \in DOMAIN Pruned |->
               IF Pruned[n].id = Top.id
               THEN [Pruned[n] EXCEPT !.status = IF Top.outcome = "ok" THEN "applied" ELSE "failed"]
               ELSE Pruned[n]]
      BY <2>5 DEF Finish
    <3>2. j \in DOMAIN Pruned /\ Pruned[j] \in Entry
      BY <2>1, <3>1, EntryIds
    <3>3. journal'[j].id = Pruned[j].id
      BY <3>1, <3>2 DEF Entry
    <3>4. journal[i] = Pruned[j]
      BY <1>1, <3>2, <3>3, PrunedRecords
    <3>5. Top.id # Pruned[j].id
      <4>1. Len(stack) \in DOMAIN stack
        BY <2>1, <3>1, TopFacts DEF Busy
      <4> QED
        BY <2>1, <3>4, <4>1 DEF RecordsMatch, Top
    <3> QED
      BY <3>1, <3>2, <3>4, <3>5
  <2>6. CASE journal' = <<>>
    BY <2>6
  <2>7. \/ UNCHANGED journal \/ journal' = <<>> \/ journal' = Pruned \/ BeginRecorded \/ Finish
    BY <1>1 DEF Next, vars, Call, BeginDuplicate, BeginConflict, Execute, Reject, Invoke,
                SaveFails, Tick, Commit, Crash
  <2> QED
    BY <2>2, <2>3, <2>4, <2>5, <2>6, <2>7
<1> QED
  BY <1>1, Inductive, PTL DEF Spec, SettledStays

-----------------------------------------------------------------------------
(***************************************************************************)
(* An answer of ok stands for a success: along a call that finishes, its   *)
(* record and the repetition answered from that record.                    *)
(***************************************************************************)

\* A set of natural numbers has a least one.
Below == {ss \in Nat \X Nat : ss[1] < ss[2]}
LEMMA BelowWellFounded == IsWellFoundedOn(Below, Nat)
  BY NatLessThanWellFounded, Zenon DEF OpToRel, Below

LEMMA Least ==
  ASSUME NEW S, S \subseteq Nat, S # {}
  PROVE  \E i \in S : \A k \in S : i <= k
<1>1. PICK i \in S : \A k \in S : ~(<<k, i>> \in Below)
  BY WFMin, BelowWellFounded, Zenon
<1>2. \A k \in S : ~(k < i)
  BY <1>1 DEF Below
<1> QED
  BY <1>2

\* The record that answers a call is one that concerns it.
LEMMA FirstHitHits ==
  ASSUME TypeOK, Hits(Top) # {}
  PROVE  FirstHit(Top) \in DOMAIN Pruned /\ Concerns(Pruned[FirstHit(Top)], Top)
<1>1. Pruned \in Seq(Entry)
  BY PrunedSuffix DEF IsSuffix
<1>2. Hits(Top) \subseteq Nat
  BY <1>1 DEF Hits
<1>3. \E i \in Hits(Top) : \A k \in Hits(Top) : i <= k
  BY <1>2, Least
<1>4. FirstHit(Top) \in Hits(Top)
  BY <1>3, Zenon DEF FirstHit
<1> QED
  BY <1>4 DEF Hits

LEMMA PrunedInJournal ==
  ASSUME TypeOK, NEW k \in DOMAIN Pruned
  PROVE  \E i \in DOMAIN journal : Pruned[k] = journal[i]
<1>1. IsSuffix(Pruned, journal) /\ journal \in Seq(Entry) /\ Pruned \in Seq(Entry)
  BY PrunedSuffix DEF TypeOK, IsSuffix
<1> DEFINE m == k + (Len(journal) - Len(Pruned))
<1>2. m \in DOMAIN journal /\ Pruned[k] = journal[m]
  BY <1>1 DEF IsSuffix
<1> QED
  BY <1>2

\* What a step makes of a record: nothing, a new one, or a settled one.
LEMMA RecordsNext ==
  ASSUME IInv, [Next]_vars, NEW j \in DOMAIN journal'
  PROVE  \/ \E i \in DOMAIN journal : journal'[j] = journal[i]
         \/ BeginRecorded /\ journal'[j] = NewRecord
         \/ /\ Finish
            /\ \E i \in DOMAIN journal :
                 /\ journal[i].id = Top.id
                 /\ journal'[j].id = journal[i].id
                 /\ journal'[j].session = journal[i].session
                 /\ journal'[j].digest = journal[i].digest
                 /\ journal'[j].status = "applied" => Top.outcome = "ok"
<1>1. /\ TypeOK /\ journal \in Seq(Entry) /\ IsSuffix(Pruned, journal)
      /\ Pruned \in Seq(Entry)
  BY PrunedSuffix DEF IInv, TypeOK, IsSuffix
<1>2. \A k \in DOMAIN Pruned : \E i \in DOMAIN journal : Pruned[k] = journal[i]
  BY <1>1, PrunedInJournal
<1>3. CASE UNCHANGED journal
  BY <1>3
<1>4. CASE journal' = Pruned
  BY <1>2, <1>4
<1>5. CASE BeginRecorded
  <2> DEFINE s == Append(Pruned, NewRecord)
  <2>1. NewRecord \in Entry /\ s \in Seq(Entry)
    <3>1. Busy("begin") /\ Hits(Top) = {} /\ guards < MaxGuards
      BY <1>5 DEF BeginRecorded
    <3> QED
      BY <3>1, AppendGood
  <2>2. journal' = Newest(s)
    BY <1>5 DEF BeginRecorded, NewRecord
  <2>3. /\ Len(s) = Len(Pruned) + 1 /\ s[Len(Pruned) + 1] = NewRecord
        /\ \A k \in 1..Len(Pruned) : s[k] = Pruned[k] /\ k \in DOMAIN Pruned
        /\ Len(Pruned) \in Nat
    BY <1>1, <2>1
  <2> HIDE DEF s
  <2>4. PICK k \in 1..Len(s) : journal'[j] = s[k]
    <3>1. IsSuffix(journal', s)
      BY <2>1, <2>2, NewestSuffix
    <3>2. /\ j \in 1..Len(journal') /\ Len(s) \in Nat /\ Len(journal') \in Nat
          /\ Len(journal') <= Len(s)
          /\ journal'[j] = s[j + (Len(s) - Len(journal'))]
      BY <2>1, <3>1 DEF IsSuffix
    <3>3. j + (Len(s) - Len(journal')) \in 1..Len(s)
      BY <3>2
    <3> QED
      BY <3>2, <3>3
  <2>5. CASE k = Len(Pruned) + 1
    BY <1>5, <2>3, <2>4, <2>5
  <2>6. CASE k \in 1..Len(Pruned)
    BY <1>2, <2>3, <2>4, <2>6
  <2> QED
    BY <2>3, <2>4, <2>5, <2>6
<1>6. CASE Finish
  <2>1. journal' = [n \in DOMAIN Pruned |->
          IF Pruned[n].id = Top.id
          THEN [Pruned[n] EXCEPT !.status = IF Top.outcome = "ok" THEN "applied" ELSE "failed"]
          ELSE Pruned[n]]
    BY <1>6 DEF Finish
  <2>2. j \in DOMAIN Pruned /\ Pruned[j] \in Entry
    BY <1>1, <2>1, EntryIds
  <2>3. PICK i \in DOMAIN journal : Pruned[j] = journal[i]
    BY <1>2, <2>2
  <2>4. CASE Pruned[j].id # Top.id
    BY <2>1, <2>2, <2>3, <2>4
  <2>5. CASE Pruned[j].id = Top.id
    <3> DEFINE e == Pruned[j]
    <3>1. journal'[j] = [e EXCEPT !.status = IF Top.outcome = "ok" THEN "applied" ELSE "failed"]
      BY <2>1, <2>2, <2>5
    <3>2. /\ journal'[j].id = e.id /\ journal'[j].session = e.session
          /\ journal'[j].digest = e.digest
          /\ journal'[j].status = IF Top.outcome = "ok" THEN "applied" ELSE "failed"
      BY <2>2, <3>1 DEF Entry
    <3> QED
      BY <1>6, <2>3, <2>5, <3>2
  <2> QED
    BY <2>4, <2>5
<1>7. CASE journal' = <<>>
  BY <1>7
<1>8. \/ UNCHANGED journal \/ journal' = <<>> \/ journal' = Pruned \/ BeginRecorded \/ Finish
  BY DEF Next, vars, Call, BeginDuplicate, BeginConflict, Execute, Reject, Invoke,
         SaveFails, Tick, Commit, Crash
<1> QED
  BY <1>3, <1>4, <1>5, <1>6, <1>7, <1>8

\* A return leaves the calls under the innermost one, their records and tools.
LEMMA ReturnFrames ==
  ASSUME TypeOK, Nested, stack # <<>>, NEW kind, NEW outcome, Return(kind, outcome)
  PROVE  /\ \A n \in DOMAIN stack' :
              /\ n \in DOMAIN stack /\ n < Len(stack) /\ stack'[n].id = stack[n].id
              /\ stack'[n].session = stack[n].session /\ stack'[n].digest = stack[n].digest
         /\ stack' # <<>> => Len(stack') \in DOMAIN stack'
<1>1. /\ Under \in Seq(Frame) /\ Len(Under) = Len(stack) - 1 /\ stack \in Seq(Frame)
      /\ \A n \in 1..(Len(stack) - 1) : Under[n] = stack[n]
      /\ Len(stack) \in Nat \ {0} /\ DOMAIN stack = 1..Len(stack)
  BY UnderFacts, TopFacts DEF TypeOK
<1>2. CASE Under = <<>>
  BY <1>2 DEF Return
<1>3. CASE Under # <<>>
  <2> DEFINE m == Len(Under)
             f == Finishing(Under[m], outcome)
  <2>1. m \in Nat \ {0} /\ DOMAIN Under = 1..m /\ m = Len(stack) - 1 /\ Under[m] \in Frame
    BY <1>1, <1>3
  <2>2. f.id = Under[m].id /\ f.session = Under[m].session /\ f.digest = Under[m].digest
    BY <2>1 DEF Finishing, Frame
  <2>3. stack' = [Under EXCEPT ![m] = f]
    BY <1>3 DEF Return
  <2> HIDE DEF f
  <2>4. /\ DOMAIN stack' = 1..m /\ Len(stack') = m /\ stack'[m] = f
        /\ \A n \in 1..m : n # m => stack'[n] = Under[n]
    BY <1>1, <2>1, <2>3
  <2>5. ASSUME NEW n \in 1..m
        PROVE  /\ n \in DOMAIN stack /\ n < Len(stack) /\ stack'[n].id = stack[n].id
               /\ stack'[n].session = stack[n].session /\ stack'[n].digest = stack[n].digest
    <3>1. n \in 1..(Len(stack) - 1) /\ n \in DOMAIN stack /\ n < Len(stack) /\ Under[n] = stack[n]
      BY <1>1, <2>1
    <3>2. CASE n = m
      BY <2>2, <2>4, <3>1, <3>2
    <3>3. CASE n # m
      BY <2>4, <3>1, <3>3
    <3> QED
      BY <3>1, <3>2, <3>3
  <2> QED
    BY <2>1, <2>4, <2>5
<1> QED
  BY <1>2, <1>3

\* What a step makes of the calls in progress: a call has no record yet, or the
\* one it had, or the one that was just appended.
LEMMA FramesNext ==
  ASSUME IInv, [Next]_vars, NEW n \in DOMAIN stack'
  PROVE  \/ stack'[n].id = 0
         \/ /\ n \in DOMAIN stack /\ stack'[n].id = stack[n].id
            /\ stack'[n].session = stack[n].session /\ stack'[n].digest = stack[n].digest
         \/ /\ BeginRecorded /\ stack'[n].id = guards + 1
            /\ stack'[n].session = Top.session /\ stack'[n].digest = Top.digest
<1>1. TypeOK /\ Nested
  BY DEF IInv
<1>2. CASE UNCHANGED stack
  BY <1>2
<1>3. CASE \E s \in Sessions, k \in Keys \cup {NoKey}, inHeader \in BOOLEAN, b \in Bodies :
             Call(s, k, inHeader, b)
  <2>1. PICK f : stack' = <<f>> /\ f.id = 0
    BY <1>3 DEF Call
  <2>2. n = 1 /\ stack'[1] = f
    BY <2>1
  <2> QED
    BY <2>1, <2>2
<1>4. ASSUME NEW f \in Frame, TopBecomes(f), stack # <<>>
      PROVE  \/ n \in DOMAIN stack /\ n # Len(stack) /\ stack'[n] = stack[n]
             \/ n = Len(stack) /\ n \in DOMAIN stack /\ stack'[n] = f /\ stack[n] = Top
  BY <1>1, <1>4, TopBecomesType DEF Top
<1>5. CASE BeginRecorded
  <2> DEFINE f == [Top EXCEPT !.step = "run", !.id = guards']
  <2>1. /\ stack # <<>> /\ Top \in Frame /\ TopBecomes(f) /\ guards' = guards + 1
        /\ guards' \in Ids
    BY <1>1, <1>5, TopFacts, BoundsAssumption DEF BeginRecorded, Busy, TypeOK, Ids
  <2>2. f \in Frame /\ f.id = guards + 1 /\ f.session = Top.session /\ f.digest = Top.digest
    BY <2>1 DEF Frame
  <2> HIDE DEF f
  <2> QED
    BY <1>4, <1>5, <2>1, <2>2
<1>6. CASE Execute \/ Reject
  <2>1. PICK o \in {"ok", "not ok", "raised"} :
          TopBecomes([Top EXCEPT !.step = "finish", !.outcome = o])
    BY <1>6 DEF Execute, Reject
  <2> DEFINE f == [Top EXCEPT !.step = "finish", !.outcome = o]
  <2>2. stack # <<>> /\ Top \in Frame
    BY <1>1, <1>6, TopFacts DEF Execute, Reject, Busy
  <2>3. f \in Frame /\ f.id = Top.id /\ f.session = Top.session /\ f.digest = Top.digest
    BY <2>2 DEF Frame, Outcomes
  <2>4. TopBecomes(f)
    BY <2>1
  <2> HIDE DEF f
  <2> QED
    BY <1>4, <2>2, <2>3, <2>4
<1>7. CASE Invoke
  <2>1. PICK f : stack' = Append(stack, f) /\ f.id = 0
    <3>1. stack # <<>> /\ Top \in Frame
      BY <1>1, <1>7, TopFacts DEF Invoke, Busy
    <3> DEFINE f == [Top EXCEPT !.step = "begin", !.id = 0,
                                !.key = IF Top.header THEN Top.key ELSE NoKey,
                                !.digest = <<Wraps[Top.digest[1]], head>>]
    <3>2. stack' = Append(stack, f)
      BY <1>7 DEF Invoke
    <3>3. f.id = 0
      BY <3>1 DEF Frame
    <3> QED
      BY <3>2, <3>3
  <2>2. stack \in Seq(Frame)
    BY <1>1 DEF TypeOK
  <2>3. \/ n = Len(stack) + 1 /\ stack'[n] = f
        \/ n \in DOMAIN stack /\ stack'[n] = stack[n]
    BY <2>1, <2>2
  <2> QED
    BY <2>1, <2>3
<1>8. CASE BeginDuplicate \/ BeginConflict \/ Finish \/ SaveFails
  <2>1. stack # <<>> /\ \E kind, outcome : Return(kind, outcome)
    BY <1>8 DEF BeginDuplicate, BeginConflict, Finish, SaveFails, Busy
  <2> QED
    BY <1>1, <2>1, ReturnFrames
<1>9. CASE Crash
  BY <1>9 DEF Crash
<1> QED
  BY <1>2, <1>3, <1>5, <1>6, <1>7, <1>8, <1>9 DEF Next, vars, Tick, Commit

\* A mutation of this body will have run in the session and succeeded.
NextSucceeded(s, b) == \E r \in ran' : r.session = s /\ r.digest[1] = b /\ r.outcome = "ok"

\* No history of a run is lost.
LEMMA SuccessStays ==
  ASSUME [Next]_vars, NEW s, NEW b, Succeeded(s, b)
  PROVE  NextSucceeded(s, b)
<1>1. ran \subseteq ran'
  BY DEF Next, vars, Call, BeginRecorded, BeginDuplicate, BeginConflict, Execute, Reject, Invoke,
         Finish, SaveFails, Tick, Commit, Crash
<1> QED
  BY <1>1 DEF Succeeded, NextSucceeded

LEMMA FramesMatchStep ==
  ASSUME OkInv, [Next]_vars
  PROVE  FramesMatch'
<1>1. IInv /\ TypeOK /\ FramesMatch /\ guards \in Nat
  BY DEF OkInv, IInv, TypeOK
<1>2. \A i \in DOMAIN journal : journal[i].id \in Nat \ {0} /\ journal[i].id <= guards
  BY <1>1, RecordIds DEF IInv, Numbered
<1>3. \A n \in DOMAIN stack : stack[n].id \in Nat /\ stack[n].id <= guards
  BY <1>1, FrameIds DEF IInv, Nested
<1>4. /\ NewRecord.id = guards + 1 /\ NewRecord.session = Top.session
      /\ NewRecord.digest = Top.digest
  BY DEF NewRecord
<1> SUFFICES ASSUME NEW j \in DOMAIN journal', NEW n \in DOMAIN stack',
                    stack'[n].id = journal'[j].id
             PROVE  stack'[n].session = journal'[j].session /\ stack'[n].digest = journal'[j].digest
  BY DEF FramesMatch
<1>5. \/ \E i \in DOMAIN journal : /\ journal'[j].id = journal[i].id
                                   /\ journal'[j].session = journal[i].session
                                   /\ journal'[j].digest = journal[i].digest
      \/ BeginRecorded /\ journal'[j] = NewRecord
  BY <1>1, RecordsNext
<1>6. \/ stack'[n].id = 0
      \/ /\ n \in DOMAIN stack /\ stack'[n].id = stack[n].id
         /\ stack'[n].session = stack[n].session /\ stack'[n].digest = stack[n].digest
      \/ /\ BeginRecorded /\ stack'[n].id = guards + 1
         /\ stack'[n].session = Top.session /\ stack'[n].digest = Top.digest
  BY <1>1, FramesNext
<1>7. CASE \E i \in DOMAIN journal : /\ journal'[j].id = journal[i].id
                                     /\ journal'[j].session = journal[i].session
                                     /\ journal'[j].digest = journal[i].digest
  <2>1. PICK i \in DOMAIN journal : /\ journal'[j].id = journal[i].id
                                    /\ journal'[j].session = journal[i].session
                                    /\ journal'[j].digest = journal[i].digest
    BY <1>7
  <2>2. journal[i].id \in Nat \ {0} /\ journal[i].id <= guards
    BY <1>2
  <2>3. stack'[n].id # 0 /\ stack'[n].id # guards + 1
    BY <1>1, <2>1, <2>2
  <2>4. /\ n \in DOMAIN stack /\ stack[n].id = journal[i].id
        /\ stack'[n].session = stack[n].session /\ stack'[n].digest = stack[n].digest
    BY <1>6, <2>1, <2>3
  <2> QED
    BY <1>1, <2>1, <2>4 DEF FramesMatch
<1>8. CASE BeginRecorded /\ journal'[j] = NewRecord
  <2>1. stack'[n].id = guards + 1
    BY <1>4, <1>8
  <2>2. ~(n \in DOMAIN stack /\ stack'[n].id = stack[n].id)
    BY <1>1, <1>3, <2>1
  <2>3. stack'[n].session = Top.session /\ stack'[n].digest = Top.digest
    BY <1>1, <1>6, <2>1, <2>2
  <2> QED
    BY <1>4, <1>8, <2>3
<1> QED
  BY <1>5, <1>7, <1>8

LEMMA AppliedStep ==
  ASSUME OkInv, [Next]_vars
  PROVE  AppliedIsReal'
<1>1. IInv /\ TypeOK /\ FramesMatch /\ FinishIsReal /\ AppliedIsReal
  BY DEF OkInv, IInv
<1> SUFFICES ASSUME NEW j \in DOMAIN journal', journal'[j].status = "applied",
                    Wraps[journal'[j].digest[1]] = NoBody
             PROVE  NextSucceeded(journal'[j].session, journal'[j].digest[1])
  BY DEF AppliedIsReal, Succeeded, NextSucceeded
<1>2. Succeeded(journal'[j].session, journal'[j].digest[1])
  <2>1. CASE \E i \in DOMAIN journal : journal'[j] = journal[i]
    BY <1>1, <2>1 DEF AppliedIsReal
  <2>2. CASE journal'[j] = NewRecord
    BY <2>2 DEF NewRecord
  <2>3. ASSUME Finish, NEW i \in DOMAIN journal, journal[i].id = Top.id,
               journal'[j].session = journal[i].session, journal'[j].digest = journal[i].digest,
               Top.outcome = "ok"
        PROVE  Succeeded(journal'[j].session, journal'[j].digest[1])
    <3>1. Busy("finish") /\ stack # <<>> /\ Len(stack) \in DOMAIN stack /\ stack[Len(stack)] = Top
      BY <1>1, <2>3, TopFacts DEF Finish, Busy, Top
    <3>2. Top.session = journal[i].session /\ Top.digest = journal[i].digest
      BY <1>1, <2>3, <3>1 DEF FramesMatch
    <3> QED
      BY <1>1, <2>3, <3>1, <3>2 DEF FinishIsReal
  <2> QED
    BY <1>1, <2>1, <2>2, <2>3, RecordsNext
<1> QED
  BY <1>2, SuccessStays

LEMMA FinishesStep ==
  ASSUME OkInv, [Next]_vars
  PROVE  FinishIsReal'
<1>1. IInv /\ TypeOK /\ Nested /\ FinishIsReal
  BY DEF OkInv, IInv
<1> SUFFICES ASSUME Busy("finish")', Top'.outcome = "ok", Wraps[Top'.digest[1]] = NoBody
             PROVE  NextSucceeded(Top'.session, Top'.digest[1])
  BY DEF FinishIsReal, Succeeded, NextSucceeded
<1>2. stack' # <<>> /\ Top'.step = "finish" /\ Top' = stack'[Len(stack')]
  BY DEF Busy, Top
<1>3. CASE UNCHANGED stack
  <2>1. Top' = Top /\ Busy("finish")
    BY <1>2, <1>3 DEF Top, Busy
  <2>2. Succeeded(Top.session, Top.digest[1])
    BY <1>1, <2>1 DEF FinishIsReal
  <2> QED
    BY <2>1, <2>2, SuccessStays
<1>4. CASE Execute
  <2>1. PICK o \in {"ok", "not ok", "raised"} :
          /\ ran' = ran \cup {[id |-> Top.id, session |-> Top.session,
                                digest |-> Top.digest, outcome |-> o]}
          /\ TopBecomes([Top EXCEPT !.step = "finish", !.outcome = o])
    BY <1>4 DEF Execute
  <2> DEFINE f == [Top EXCEPT !.step = "finish", !.outcome = o]
             r == [id |-> Top.id, session |-> Top.session, digest |-> Top.digest, outcome |-> o]
  <2>2. stack # <<>> /\ Top \in Frame
    BY <1>1, <1>4, TopFacts DEF Execute, Busy
  <2>3. f \in Frame /\ f.session = Top.session /\ f.digest = Top.digest /\ f.outcome = o
    BY <2>2 DEF Frame, Outcomes
  <2>4. r \in ran' /\ r.session = Top.session /\ r.digest = Top.digest /\ r.outcome = o
    BY <2>1
  <2>5. TopBecomes(f)
    BY <2>1
  <2> HIDE DEF f, r
  <2>6. Top' = f
    BY <1>1, <2>2, <2>3, <2>5, TopBecomesType
  <2> QED
    BY <2>3, <2>4, <2>6 DEF NextSucceeded
<1>5. CASE Reject
  <2> DEFINE f == [Top EXCEPT !.step = "finish", !.outcome = "raised"]
  <2>1. stack # <<>> /\ Top \in Frame /\ TopBecomes(f)
    BY <1>1, <1>5, TopFacts DEF Reject, Busy
  <2>2. f \in Frame /\ f.outcome = "raised"
    BY <2>1 DEF Frame, Outcomes
  <2> HIDE DEF f
  <2>3. Top' = f
    BY <1>1, <2>1, <2>2, TopBecomesType
  <2> QED
    BY <2>2, <2>3
<1>6. CASE BeginRecorded
  <2> DEFINE f == [Top EXCEPT !.step = "run", !.id = guards']
  <2>1. stack # <<>> /\ Top \in Frame /\ TopBecomes(f) /\ guards' \in Ids
    BY <1>1, <1>6, TopFacts, BoundsAssumption DEF BeginRecorded, Busy, TypeOK, Ids
  <2>2. f \in Frame /\ f.step = "run"
    BY <2>1 DEF Frame
  <2> HIDE DEF f
  <2>3. Top' = f
    BY <1>1, <2>1, <2>2, TopBecomesType
  <2> QED
    BY <1>2, <2>2, <2>3
<1>7. CASE \E s \in Sessions, k \in Keys \cup {NoKey}, inHeader \in BOOLEAN, b \in Bodies :
             Call(s, k, inHeader, b)
  <2>1. PICK f : stack' = <<f>> /\ f.step = "begin"
    BY <1>7 DEF Call
  <2>2. Top' = f
    BY <1>2, <2>1
  <2> QED
    BY <1>2, <2>1, <2>2
<1>8. CASE Invoke
  <2>1. stack # <<>> /\ Top \in Frame /\ stack \in Seq(Frame)
    BY <1>1, <1>8, TopFacts DEF Invoke, Busy, TypeOK
  <2> DEFINE f == [Top EXCEPT !.step = "begin", !.id = 0,
                              !.key = IF Top.header THEN Top.key ELSE NoKey,
                              !.digest = <<Wraps[Top.digest[1]], head>>]
  <2>2. stack' = Append(stack, f)
    BY <1>8 DEF Invoke
  <2>3. f.step = "begin"
    BY <2>1 DEF Frame
  <2> HIDE DEF f
  <2>4. stack'[Len(stack')] = f
    BY <2>1, <2>2
  <2> QED
    BY <1>2, <2>3, <2>4
<1>9. CASE BeginDuplicate \/ BeginConflict \/ Finish \/ SaveFails
  <2>1. stack # <<>> /\ \E kind, outcome : Return(kind, outcome)
    BY <1>9 DEF BeginDuplicate, BeginConflict, Finish, SaveFails, Busy
  <2> DEFINE n == Len(stack')
  <2>2. /\ n \in DOMAIN stack /\ n < Len(stack) /\ stack'[n].digest = stack[n].digest
    BY <1>1, <1>2, <2>1, ReturnFrames
  <2>3. Wraps[stack[n].digest[1]] # NoBody
    BY <1>1, <2>2, Waiting
  <2> QED
    BY <1>2, <2>2, <2>3
<1>10. CASE Crash
  BY <1>2, <1>10 DEF Crash
<1> QED
  BY <1>3, <1>4, <1>5, <1>6, <1>7, <1>8, <1>9, <1>10 DEF Next, vars, Tick, Commit

\* Only a call that is repeated while its record is applied is answered with ok.
LEMMA AnswersStep ==
  ASSUME OkInv, [Next]_vars
  PROVE  PlainOkIsReal'
<1>1. IInv /\ TypeOK /\ AppliedIsReal /\ PlainOkIsReal
  BY DEF OkInv, IInv
<1> SUFFICES ASSUME answer'.kind = "duplicate", answer'.outcome = "ok",
                    Wraps[answer'.body] = NoBody
             PROVE  NextSucceeded(answer'.session, answer'.body)
  BY DEF PlainOkIsReal, Succeeded, NextSucceeded
<1>2. CASE UNCHANGED answer
  <2>1. Succeeded(answer.session, answer.body)
    BY <1>1, <1>2 DEF PlainOkIsReal
  <2> QED
    BY <1>2, <2>1, SuccessStays
<1>3. CASE BeginDuplicate
  <2> DEFINE e == Pruned[FirstHit(Top)]
  <2>1. /\ Hits(Top) # {} /\ ~Clashes(e, Top)
        /\ Return("duplicate", IF e.status = "applied" THEN "ok" ELSE "not ok")
    BY <1>3 DEF BeginDuplicate
  <2>2. FirstHit(Top) \in DOMAIN Pruned /\ Concerns(e, Top)
    BY <1>1, <2>1, FirstHitHits
  <2>3. PICK i \in DOMAIN journal : e = journal[i]
    BY <1>1, <2>2, PrunedInJournal
  <2> HIDE DEF e
  <2>4. e.session = Top.session /\ e.digest = Top.digest
    BY <2>1, <2>2 DEF Concerns
  <2>5. CASE Under = <<>>
    <3>1. answer' = Told("duplicate", IF e.status = "applied" THEN "ok" ELSE "not ok")
      BY <2>1, <2>5 DEF Return
    <3>2. e.status = "applied" /\ answer'.session = Top.session /\ answer'.body = Top.digest[1]
      BY <3>1 DEF Told
    <3>3. Succeeded(Top.session, Top.digest[1])
      BY <1>1, <2>3, <2>4, <3>2 DEF AppliedIsReal
    <3> QED
      BY <3>2, <3>3, SuccessStays
  <2>6. CASE Under # <<>>
    BY <1>2, <2>1, <2>6 DEF Return
  <2> QED
    BY <2>5, <2>6
<1>4. CASE BeginConflict \/ Finish \/ SaveFails
  <2>1. PICK outcome : Return("result", outcome)
    BY <1>4 DEF BeginConflict, Finish, SaveFails
  <2>2. CASE Under = <<>>
    BY <2>1, <2>2 DEF Return, Told
  <2> QED
    BY <1>2, <2>1, <2>2 DEF Return
<1>5. CASE \E s \in Sessions, k \in Keys \cup {NoKey}, inHeader \in BOOLEAN, b \in Bodies :
             Call(s, k, inHeader, b)
  BY <1>5 DEF Call, NoAnswer
<1> QED
  BY <1>2, <1>3, <1>4, <1>5
     DEF Next, vars, BeginRecorded, Execute, Reject, Invoke, Tick, Commit, Crash

LEMMA InitOkInv == Init => OkInv
<1> SUFFICES ASSUME Init PROVE OkInv
  OBVIOUS
<1>1. FramesMatch /\ FinishIsReal /\ AppliedIsReal /\ PlainOkIsReal
  BY DEF Init, FramesMatch, FinishIsReal, AppliedIsReal, PlainOkIsReal, Busy, NoAnswer
<1> QED
  BY <1>1, InitIInv DEF OkInv

\* _mutation_replay_guard_begin and _finish: the repetition of a plain call is
\* answered with ok only when the mutation ran in that session and succeeded,
\* whatever was pruned, lost, crashed or nested in between.
THEOREM OkStandsForSuccess == Spec => []PlainOkIsReal
<1>1. OkInv /\ [Next]_vars => OkInv'
  <2>1. OkInv => IInv
    BY DEF OkInv
  <2> QED
    BY <2>1, StepIInv, FramesMatchStep, AppliedStep, FinishesStep, AnswersStep DEF OkInv
<1>2. OkInv => PlainOkIsReal
  BY DEF OkInv
<1> QED
  BY <1>1, <1>2, InitOkInv, PTL DEF Spec
=============================================================================
