------------------------ MODULE TaskProgressProofs ------------------------
(***************************************************************************)
(* Theorems about TaskProgress for any sessions, requests and tasks, any   *)
(* bounds of the replay store and any number of faults.                    *)
(***************************************************************************)
EXTENDS TaskProgress, SubsequenceProofs

-----------------------------------------------------------------------------
\* Sequences: the newest of them, and the fresh ones.

\* The newest n: an end of the sequence.
LEMMA NewestIs ==
  ASSUME NEW S, NEW s \in Seq(S), NEW n \in Nat
  PROVE  /\ Newest(s, n) \in Seq(S) /\ Len(Newest(s, n)) <= n
         /\ \E k \in Nat : /\ Len(s) = Len(Newest(s, n)) + k
                           /\ \A i \in 1..Len(Newest(s, n)) : Newest(s, n)[i] = s[i + k]
                           /\ k # 0 => Len(Newest(s, n)) = n
<1> DEFINE k == IF Len(s) <= n THEN 0 ELSE Len(s) - n
           r == SubSeq(s, k + 1, Len(s))
<1>1. k \in 0..Len(s) /\ Len(s) \in Nat /\ Len(s) - k <= n /\ (k # 0 => Len(s) - k = n)
  OBVIOUS
<1>2. Newest(s, n) = r
  BY DEF Newest
<1> HIDE DEF k
<1>3. r \in Seq(S) /\ Len(r) = Len(s) - k /\ \A i \in 1..Len(r) : r[i] = s[i + k]
  BY <1>1
<1> HIDE DEF r
<1>4. /\ k \in Nat /\ Len(s) = Len(r) + k /\ Len(r) <= n /\ (k # 0 => Len(r) = n)
      /\ \A i \in 1..Len(r) : r[i] = s[i + k]
  BY <1>1, <1>3
<1> QED
  BY <1>2, <1>3, <1>4, Zenon

LEMMA NewestRange ==
  ASSUME NEW S, NEW s \in Seq(S), NEW n \in Nat
  PROVE  Range(Newest(s, n)) \subseteq Range(s)
<1> DEFINE r == Newest(s, n)
<1>1. r \in Seq(S) /\ \E k \in Nat : Len(s) = Len(r) + k /\ \A i \in 1..Len(r) : r[i] = s[i + k]
  BY NewestIs
<1> HIDE DEF r
<1>2. PICK k \in Nat : Len(s) = Len(r) + k /\ \A i \in 1..Len(r) : r[i] = s[i + k]
  BY <1>1
<1>3. DOMAIN r = 1..Len(r) /\ DOMAIN s = 1..Len(s) /\ Len(r) \in Nat
  BY <1>1
<1>4. \A i \in 1..Len(r) : i + k \in 1..Len(s)
  BY <1>2, <1>3
<1>5. \A i \in DOMAIN r : \E j \in DOMAIN s : s[j] = r[i]
  BY <1>2, <1>3, <1>4
<1> QED
  BY <1>5 DEF Range, r

LEMMA OnlyRange ==
  ASSUME NEW S, NEW s \in Seq(S), NEW keep
  PROVE  Only(s, keep) \in Seq(S) /\ Range(Only(s, keep)) = Range(s) \cap keep
<1> DEFINE r == Only(s, keep)
<1>1. /\ r \in Seq(S)
      /\ \A i \in DOMAIN r : r[i] \in keep /\ \E j \in DOMAIN s : s[j] = r[i]
      /\ \A j \in DOMAIN s : s[j] \in keep => \E i \in DOMAIN r : r[i] = s[j]
  BY OnlyElements
<1> HIDE DEF r
<1>2. \A x : x \in Range(r) <=> \E i \in DOMAIN r : r[i] = x
  BY DEF Range
<1>3. \A x : x \in Range(s) <=> \E i \in DOMAIN s : s[i] = x
  BY DEF Range
<1>4. Range(r) = Range(s) \cap keep
  BY <1>1, <1>2, <1>3
<1> QED
  BY <1>1, <1>4 DEF r

LEMMA RangeOf ==
  ASSUME NEW S, NEW s \in Seq(S)
  PROVE  /\ Range(s) \subseteq S /\ DOMAIN s = 1..Len(s) /\ Len(s) \in Nat
         /\ \A x : x \in Range(s) <=> \E i \in DOMAIN s : s[i] = x
<1>1. \A x : x \in Range(s) <=> \E i \in DOMAIN s : s[i] = x
  BY DEF Range
<1>2. DOMAIN s = 1..Len(s) /\ Len(s) \in Nat /\ \A i \in DOMAIN s : s[i] \in S
  OBVIOUS
<1> QED
  BY <1>1, <1>2

LEMMA AppendRange ==
  ASSUME NEW S, NEW s \in Seq(S), NEW e \in S
  PROVE  /\ Append(s, e) \in Seq(S) /\ Len(Append(s, e)) = Len(s) + 1
         /\ Range(Append(s, e)) = Range(s) \cup {e}
<1> DEFINE t == Append(s, e)
<1>1. /\ t \in Seq(S) /\ Len(t) = Len(s) + 1 /\ t[Len(s) + 1] = e /\ DOMAIN t = 1..(Len(s) + 1)
      /\ \A i \in 1..Len(s) : t[i] = s[i]
      /\ DOMAIN s = 1..Len(s) /\ Len(s) \in Nat
  OBVIOUS
<1> HIDE DEF t
<1>2. \A x : x \in Range(t) <=> \E i \in DOMAIN t : t[i] = x
  BY DEF Range
<1>3. \A x : x \in Range(s) <=> \E i \in DOMAIN s : s[i] = x
  BY DEF Range
<1>4. \A i \in DOMAIN t : i \in DOMAIN s \/ i = Len(s) + 1
  BY <1>1
<1>5. \A x : x \in Range(t) => x \in Range(s) \cup {e}
  BY <1>1, <1>2, <1>3, <1>4
<1>6. \A x : x \in Range(s) \cup {e} => x \in Range(t)
  BY <1>1, <1>2, <1>3
<1>7. Range(t) = Range(s) \cup {e}
  BY <1>5, <1>6
<1> QED
  BY <1>1, <1>7 DEF t

-----------------------------------------------------------------------------
\* The replay store forgets its oldest events first.

EventsAre(s) ==
    /\ s \in Seq(Event) /\ Ordered(s)
    /\ \A e \in Range(s) : e.at \in Nat /\ e.id \in Nat

\* r is what is left of s.
LeftOf(r, s) ==
    /\ EventsAre(r) /\ Range(r) \subseteq Range(s)
    /\ \A e \in Range(r), f \in Range(s) : e.id < f.id => f \in Range(r)

\* Of two events of an ordered sequence, the one of the larger id is the later one.
LEMMA OrderedIds ==
  ASSUME NEW s, EventsAre(s)
  PROVE  /\ \A i, j \in DOMAIN s : /\ s[i].id < s[j].id <=> i < j
                                   /\ s[i].id = s[j].id => i = j
         /\ \A e, f \in Range(s) : /\ e.id < f.id => e.at <= f.at
                                   /\ e.id = f.id => e = f
<1>1. /\ s \in Seq(Event) /\ DOMAIN s = 1..Len(s) /\ Len(s) \in Nat
      /\ \A i \in DOMAIN s : s[i].at \in Nat /\ s[i].id \in Nat
  BY DEF EventsAre, Range
<1>2. \A i, j \in DOMAIN s : i < j => s[i].id < s[j].id /\ s[i].at <= s[j].at
  BY DEF EventsAre, Ordered
<1>3. \A i, j \in DOMAIN s : /\ s[i].id < s[j].id <=> i < j
                             /\ s[i].id = s[j].id => i = j
  <2> SUFFICES ASSUME NEW i \in DOMAIN s, NEW j \in DOMAIN s
               PROVE  /\ s[i].id < s[j].id <=> i < j
                      /\ s[i].id = s[j].id => i = j
    OBVIOUS
  <2>1. i < j \/ i = j \/ j < i
    BY <1>1
  <2> QED
    BY <1>1, <1>2, <2>1
<1>4. \A e, f \in Range(s) : e.id < f.id => e.at <= f.at
  BY <1>2, <1>3 DEF Range
<1>5. \A e, f \in Range(s) : e.id = f.id => e = f
  BY <1>3 DEF Range
<1> QED
  BY <1>3, <1>4, <1>5

LEMMA LeftOfFresh ==
  ASSUME NEW s, EventsAre(s), now \in Nat, Retention \in Nat
  PROVE  LeftOf(Fresh(s), s) /\ \A e \in Range(s) : e.at = now => e \in Range(Fresh(s))
<1> DEFINE young == {e \in Range(s) : e.at >= now - Retention}
           r == Fresh(s)
           R == {pair \in Event \X Event : pair[1].id < pair[2].id /\ pair[1].at <= pair[2].at}
<1>1. s \in Seq(Event) /\ \A e \in Range(s) : e.at \in Nat /\ e.id \in Nat
  BY DEF EventsAre
<1>2. r = Only(s, young)
  BY DEF Fresh
<1> HIDE DEF young, r
<1>3. r \in Seq(Event) /\ Range(r) = Range(s) \cap young
  BY <1>1, <1>2, OnlyRange
<1>4. \A i, j \in DOMAIN s : i < j => <<s[i], s[j]>> \in R
  BY <1>1 DEF EventsAre, Ordered
<1> HIDE DEF R
<1>5. \A i, j \in DOMAIN r : i < j => <<r[i], r[j]>> \in R
  BY <1>1, <1>2, <1>4, OnlyIncreasing
<1>6. Ordered(r)
  BY <1>5 DEF Ordered, R
<1>7. \A e \in Range(r), f \in Range(s) : e.id < f.id => f \in Range(r)
  <2> SUFFICES ASSUME NEW e \in Range(r), NEW f \in Range(s), e.id < f.id  PROVE f \in young
    BY <1>3
  <2>1. e \in Range(s) /\ e.at >= now - Retention
    BY <1>3 DEF young
  <2>2. e.at <= f.at
    BY <2>1, OrderedIds
  <2> QED
    BY <1>1, <2>1, <2>2 DEF young
<1>8. \A e \in Range(s) : e.at = now => e \in Range(r)
  BY <1>3 DEF young
<1> QED
  BY <1>1, <1>3, <1>6, <1>7, <1>8 DEF LeftOf, EventsAre, r

LEMMA LeftOfNewest ==
  ASSUME NEW s, EventsAre(s), NEW n \in Nat \ {0}
  PROVE  /\ LeftOf(Newest(s, n), s)
         /\ \A e \in Range(s) : (\A f \in Range(s) : f.id <= e.id) => e \in Range(Newest(s, n))
<1> DEFINE r == Newest(s, n)
<1>1. s \in Seq(Event) /\ \A e \in Range(s) : e.at \in Nat /\ e.id \in Nat
  BY DEF EventsAre
<1>2. /\ r \in Seq(Event) /\ Range(r) \subseteq Range(s)
      /\ \E k \in Nat : /\ Len(s) = Len(r) + k /\ \A i \in 1..Len(r) : r[i] = s[i + k]
                        /\ k # 0 => Len(r) = n
  BY <1>1, NewestIs, NewestRange
<1> HIDE DEF r
<1>3. PICK k \in Nat : /\ Len(s) = Len(r) + k /\ \A i \in 1..Len(r) : r[i] = s[i + k]
                       /\ k # 0 => Len(r) = n
  BY <1>2
<1>4. DOMAIN r = 1..Len(r) /\ DOMAIN s = 1..Len(s) /\ Len(r) \in Nat
  BY <1>1, <1>2
<1> DEFINE m == Len(r)
<1>11. m \in Nat /\ DOMAIN r = 1..m /\ DOMAIN s = 1..(m + k) /\ Len(s) = m + k /\ (k # 0 => m = n)
  BY <1>3, <1>4
<1> HIDE DEF m
<1>5. \A i \in DOMAIN r : i + k \in DOMAIN s /\ r[i] = s[i + k]
  <2>1. \A i \in 1..m : i + k \in 1..(m + k)
    BY <1>11
  <2> QED
    BY <1>3, <1>11, <2>1 DEF m
<1>6. Ordered(r)
  <2> SUFFICES ASSUME NEW i \in DOMAIN r, NEW j \in DOMAIN r, i < j
               PROVE  r[i].id < r[j].id /\ r[i].at <= r[j].at
    BY DEF Ordered
  <2>1. i + k < j + k
    BY <1>11
  <2> QED
    BY <1>5, <2>1 DEF EventsAre, Ordered
<1>7. \A j \in DOMAIN s : j > k => j - k \in DOMAIN r /\ r[j - k] = s[j]
  <2> SUFFICES ASSUME NEW j \in DOMAIN s, j > k  PROVE j - k \in DOMAIN r /\ r[j - k] = s[j]
    OBVIOUS
  <2>1. j - k \in DOMAIN r /\ (j - k) + k = j
    BY <1>11
  <2> QED
    BY <1>5, <2>1
<1>8. \A x : (x \in Range(r) <=> \E i \in DOMAIN r : r[i] = x) /\ (x \in Range(s) <=> \E i \in DOMAIN s : s[i] = x)
  BY DEF Range
<1>9. \A e \in Range(r), f \in Range(s) : e.id < f.id => f \in Range(r)
  <2> SUFFICES ASSUME NEW e \in Range(r), NEW f \in Range(s), e.id < f.id  PROVE f \in Range(r)
    OBVIOUS
  <2>1. PICK i \in DOMAIN r : r[i] = e
    BY <1>8
  <2>2. PICK j \in DOMAIN s : s[j] = f
    BY <1>8
  <2>3. i + k \in DOMAIN s /\ s[i + k].id < s[j].id
    BY <1>5, <2>1, <2>2
  <2>4. i + k < j
    BY <2>3, OrderedIds
  <2>5. j > k
    BY <1>11, <2>4
  <2> QED
    BY <1>7, <1>8, <2>2, <2>5
<1>10. ASSUME NEW e \in Range(s), \A f \in Range(s) : f.id <= e.id  PROVE e \in Range(r)
  <2>1. PICK j \in DOMAIN s : s[j] = e
    BY <1>8
  <2>2. Len(s) \in DOMAIN s
    BY <1>4, <2>1
  <2>3. ~(j < Len(s))
    <3>1. s[Len(s)] \in Range(s)
      BY <1>8, <2>2
    <3>2. s[Len(s)].id <= e.id /\ s[Len(s)].id \in Nat /\ e.id \in Nat
      BY <1>1, <1>10, <3>1
    <3> QED
      BY <2>1, <2>2, <3>2, OrderedIds
  <2>4. j = Len(s) /\ j > k
    BY <1>11, <2>1, <2>3
  <2> QED
    BY <1>7, <1>8, <2>1, <2>4
<1> QED
  BY <1>1, <1>2, <1>6, <1>9, <1>10 DEF LeftOf, EventsAre, r

LEMMA LeftOfKept ==
  ASSUME NEW s, EventsAre(s), now \in Nat
  PROVE  /\ LeftOf(KeptEvents(s), s) /\ Len(KeptEvents(s)) <= MaxEvents
         /\ \A e \in Range(s) : e.at = now /\ (\A f \in Range(s) : f.id <= e.id)
                                  => e \in Range(KeptEvents(s))
<1>0. Retention \in Nat /\ MaxEvents \in Nat \ {0}
  BY BoundsAssumption
<1>1. /\ LeftOf(Fresh(s), s)
      /\ \A e \in Range(s) : e.at = now => e \in Range(Fresh(s))
  BY <1>0, LeftOfFresh
<1>2. EventsAre(Fresh(s)) /\ Fresh(s) \in Seq(Event)
  BY <1>1 DEF LeftOf, EventsAre
<1>3. /\ LeftOf(KeptEvents(s), Fresh(s))
      /\ \A e \in Range(Fresh(s)) : (\A f \in Range(Fresh(s)) : f.id <= e.id) => e \in Range(KeptEvents(s))
  BY <1>0, <1>2, LeftOfNewest DEF KeptEvents
<1>4. Len(KeptEvents(s)) <= MaxEvents
  BY <1>0, <1>2, NewestIs DEF KeptEvents
<1> QED
  BY <1>1, <1>3, <1>4 DEF LeftOf

-----------------------------------------------------------------------------
\* Types.

LEMMA CallsAre ==
  ASSUME NEW c \in Calls
  PROVE  c[1] \in Sessions /\ c[2] \in Requests /\ c = <<c[1], c[2]>> /\ c # None
BY NamesAssumption DEF Calls

LEMMA Pairs == \A s \in Sessions, q \in Requests : <<s, q>> \in Calls /\ <<s, q>>[1] = s /\ <<s, q>>[2] = q
BY DEF Calls

\* What the types say of sequences.
LEMMA SeqTypes ==
  ASSUME TypeOK
  PROVE  /\ Len(log) \in Nat /\ DOMAIN log = 1..Len(log)
         /\ \A i \in DOMAIN log : log[i] \in Message /\ log[i].call \in Calls
         /\ \A e \in Range(events) : e \in Event
         /\ \A m \in Range(maps) : m \in Mapping /\ <<m.session, m.request>> \in Calls
         /\ \A s \in Sessions : /\ wire[s] \in Seq(Message) /\ DOMAIN wire[s] = 1..Len(wire[s])
                                /\ Len(wire[s]) \in Nat
                                /\ \A i \in DOMAIN wire[s] : wire[s][i] \in Message /\ wire[s][i].call \in Calls
         /\ \A c \in Calls : /\ seen[c] \in Seq(DOMAIN log) /\ DOMAIN seen[c] = 1..Len(seen[c])
                             /\ Len(seen[c]) \in Nat /\ Range(seen[c]) \subseteq DOMAIN log
                             /\ \A i \in DOMAIN seen[c] : seen[c][i] \in DOMAIN log
<1>1. /\ log \in Seq(Message) /\ events \in Seq(Event) /\ maps \in Seq(Mapping)
      /\ \A s \in Sessions : wire[s] \in Seq(Message)
      /\ \A c \in Calls : seen[c] \in Seq(DOMAIN log)
  BY DEF TypeOK
<1>2. \A msg \in Message : msg.call \in Calls
  BY DEF Message
<1>3. \A m \in Mapping : <<m.session, m.request>> \in Calls
  BY DEF Mapping, Calls
<1>4. Len(log) \in Nat /\ DOMAIN log = 1..Len(log) /\ \A i \in DOMAIN log : log[i] \in Message
  BY <1>1
<1>5. /\ \A e \in Range(events) : e \in Event
      /\ \A m \in Range(maps) : m \in Mapping
  BY <1>1, RangeOf
<1>6. \A s \in Sessions : /\ DOMAIN wire[s] = 1..Len(wire[s]) /\ Len(wire[s]) \in Nat
                          /\ \A i \in DOMAIN wire[s] : wire[s][i] \in Message
  BY <1>1
<1>7. ASSUME NEW c \in Calls
      PROVE  /\ DOMAIN seen[c] = 1..Len(seen[c]) /\ Len(seen[c]) \in Nat
             /\ Range(seen[c]) \subseteq DOMAIN log
             /\ \A i \in DOMAIN seen[c] : seen[c][i] \in DOMAIN log
  <2>1. seen[c] \in Seq(DOMAIN log)
    BY <1>1
  <2>2. /\ Range(seen[c]) \subseteq DOMAIN log /\ DOMAIN seen[c] = 1..Len(seen[c])
        /\ Len(seen[c]) \in Nat
    BY <2>1, RangeOf
  <2> QED
    BY <2>1, <2>2
<1> QED
  BY <1>1, <1>2, <1>3, <1>4, <1>5, <1>6, <1>7

LEMMA EventsFit == ASSUME TypeOK, Store PROVE EventsAre(events)
<1>1. events \in Seq(Event) /\ Ordered(events) /\ Range(events) \subseteq Event
  BY RangeOf DEF TypeOK, Store
<1>2. \A e \in Event : e.at \in Nat /\ e.id \in Nat
  BY BoundsAssumption DEF Event
<1> QED
  BY <1>1, <1>2 DEF EventsAre

-----------------------------------------------------------------------------
\* Mappings.

LEMMA NewestMaps ==
  ASSUME NEW ms \in Seq(Mapping)
  PROVE  /\ Newest(Fresh(ms), MaxMappings) \in Seq(Mapping)
         /\ Len(Newest(Fresh(ms), MaxMappings)) <= MaxMappings
         /\ Range(Newest(Fresh(ms), MaxMappings)) \subseteq Range(ms)
<1>0. MaxMappings \in Nat
  BY BoundsAssumption
<1>1. Fresh(ms) \in Seq(Mapping) /\ Range(Fresh(ms)) \subseteq Range(ms)
  <2> DEFINE young == {e \in Range(ms) : e.at >= now - Retention}
  <2>1. Fresh(ms) = Only(ms, young)
    BY DEF Fresh
  <2> HIDE DEF young
  <2> QED
    BY <2>1, OnlyRange
<1> QED
  BY <1>0, <1>1, NewestIs, NewestRange

LEMMA KeptMapsAre ==
  ASSUME TypeOK
  PROVE  /\ KeptMaps \in Seq(Mapping) /\ Len(KeptMaps) <= MaxMappings
         /\ Range(KeptMaps) \subseteq Range(maps)
<1>1. maps \in Seq(Mapping)
  BY DEF TypeOK
<1> QED
  BY <1>1, NewestMaps DEF KeptMaps

LEMMA RemapIs ==
  ASSUME NEW ms \in Seq(Mapping), NEW m \in Mapping
  PROVE  /\ Remap(ms, m) \in Seq(Mapping) /\ Len(Remap(ms, m)) <= Len(ms) + 1
         /\ Range(Remap(ms, m)) = {x \in Range(ms) : x.request # m.request} \cup {m}
<1> DEFINE others == {x \in Range(ms) : x.request # m.request}
           r == Only(ms, others)
<1>1. Remap(ms, m) = Append(r, m)
  BY DEF Remap
<1>2. others = Range(ms) \cap others
  OBVIOUS
<1> HIDE DEF others
<1>3. r \in Seq(Mapping) /\ Range(r) = others /\ Len(r) <= Len(ms)
  BY <1>2, OnlyRange, OnlyShorter
<1> HIDE DEF r
<1>4. /\ Append(r, m) \in Seq(Mapping) /\ Len(Append(r, m)) = Len(r) + 1
      /\ Range(Append(r, m)) = Range(r) \cup {m}
  BY <1>3, AppendRange
<1>5. Len(r) \in Nat /\ Len(ms) \in Nat
  BY <1>3
<1> QED
  BY <1>1, <1>3, <1>4, <1>5 DEF others

LEMMA MappedIs ==
  \A ms, q : /\ \A m : m \in Mapped(ms, q) <=> m \in Range(ms) /\ m.request = q
BY DEF Mapped

-----------------------------------------------------------------------------
\* What storing a message does to the store.

\* An event as it is after the events of its stream have joined a task, or not.
Joined(e, f) ==
    /\ f.id = e.id /\ f.session = e.session /\ f.stream = e.stream /\ f.at = e.at
    /\ \/ f.task = e.task
       \/ f.task # None /\ asks[<<e.session, e.stream>>] = f.task

LEMMA AppendedEvent ==
  ASSUME NEW s, EventsAre(s), NEW e \in Event, e.at \in Nat,
         \A f \in Range(s) : f.id < e.id /\ f.at <= e.at
  PROVE  EventsAre(Append(s, e)) /\ Range(Append(s, e)) = Range(s) \cup {e}
<1> DEFINE t == Append(s, e)
<1>1. s \in Seq(Event) /\ Ordered(s) /\ \A f \in Range(s) : f.at \in Nat /\ f.id \in Nat
  BY DEF EventsAre
<1>2. t \in Seq(Event) /\ Range(t) = Range(s) \cup {e}
  BY <1>1, AppendRange
<1>3. /\ DOMAIN t = 1..(Len(s) + 1) /\ t[Len(s) + 1] = e /\ DOMAIN s = 1..Len(s) /\ Len(s) \in Nat
      /\ \A i \in 1..Len(s) : t[i] = s[i]
  BY <1>1
<1> HIDE DEF t
<1>4. \A i \in DOMAIN s : s[i] \in Range(s)
  BY DEF Range
<1>5. Ordered(t)
  <2> SUFFICES ASSUME NEW i \in DOMAIN t, NEW j \in DOMAIN t, i < j
               PROVE  t[i].id < t[j].id /\ t[i].at <= t[j].at
    BY DEF Ordered
  <2>1. i \in DOMAIN s /\ t[i] = s[i]
    BY <1>3
  <2>2. CASE j \in DOMAIN s
    BY <1>1, <1>3, <2>1, <2>2 DEF Ordered
  <2>3. CASE j = Len(s) + 1
    BY <1>3, <1>4, <2>1, <2>3
  <2> QED
    BY <1>3, <2>2, <2>3
<1>6. \A f \in Range(t) : f.at \in Nat /\ f.id \in Nat
  BY <1>1, <1>2 DEF Event
<1> QED
  BY <1>2, <1>5, <1>6 DEF EventsAre, t

LEMMA AdoptedIs ==
  ASSUME NEW s, EventsAre(s), NEW session \in Sessions, NEW q \in Requests, NEW t \in Tasks,
         asks[<<session, q>>] = t
  PROVE  /\ EventsAre(Adopted(s, session, q, t))
         /\ \A f \in Range(Adopted(s, session, q, t)) :
               /\ \E e \in Range(s) : Joined(e, f)
               /\ f.session = session /\ f.stream = q => f.task # None
         /\ \A e \in Range(s) : \E f \in Range(Adopted(s, session, q, t)) : Joined(e, f)
<1> DEFINE r == Adopted(s, session, q, t)
           join(e) == IF e.stream = q /\ e.session = session /\ e.task = None
                      THEN [e EXCEPT !.task = t] ELSE e
<1>1. /\ s \in Seq(Event) /\ Ordered(s) /\ \A f \in Range(s) : f.at \in Nat /\ f.id \in Nat
      /\ t # None
  BY NamesAssumption DEF EventsAre
<1>2. r = [i \in DOMAIN s |-> join(s[i])]
  BY DEF Adopted
<1>3. /\ DOMAIN s = 1..Len(s) /\ Len(s) \in Nat
      /\ \A i \in DOMAIN s : s[i] \in Event /\ s[i] \in Range(s)
  BY <1>1 DEF Range
<1>4. ASSUME NEW e \in Event
      PROVE  /\ join(e) \in Event /\ Joined(e, join(e))
             /\ join(e).id = e.id /\ join(e).at = e.at
             /\ join(e).session = session /\ join(e).stream = q => join(e).task # None
  <2>1. CASE e.stream = q /\ e.session = session /\ e.task = None
    <3>1. /\ join(e) = [id |-> e.id, session |-> e.session, stream |-> e.stream, task |-> t, at |-> e.at]
          /\ e.id \in Nat /\ e.session \in Sessions /\ e.stream \in Requests /\ e.at \in 0..MaxFaults
      BY <2>1 DEF Event
    <3> HIDE DEF join
    <3> QED
      BY <1>1, <2>1, <3>1 DEF Event, Joined
  <2>2. CASE ~(e.stream = q /\ e.session = session /\ e.task = None)
    <3>1. join(e) = e
      BY <2>2
    <3> HIDE DEF join
    <3> QED
      BY <2>2, <3>1 DEF Joined
  <2> QED
    BY <2>1, <2>2
<1> HIDE DEF r, join
<1>5. /\ DOMAIN r = DOMAIN s /\ r \in [1..Len(s) -> Event]
      /\ \A i \in DOMAIN s : r[i] = join(s[i])
  BY <1>2, <1>3, <1>4
<1>6. r \in Seq(Event)
  BY <1>3, <1>5, SeqDef, Zenon
<1>7. Ordered(r)
  BY <1>1, <1>3, <1>4, <1>5 DEF Ordered
<1>8. \A x : (x \in Range(r) <=> \E i \in DOMAIN r : r[i] = x) /\ (x \in Range(s) <=> \E i \in DOMAIN s : s[i] = x)
  BY DEF Range
<1>9. ASSUME NEW f \in Range(r)
      PROVE  /\ \E e \in Range(s) : Joined(e, f)
             /\ f.session = session /\ f.stream = q => f.task # None
             /\ f.at \in Nat /\ f.id \in Nat
  <2>1. PICK i \in DOMAIN s : f = join(s[i])
    BY <1>5, <1>8
  <2> QED
    BY <1>1, <1>3, <1>4, <2>1
<1>10. ASSUME NEW e \in Range(s)  PROVE \E f \in Range(r) : Joined(e, f)
  <2>1. PICK i \in DOMAIN s : e = s[i]
    BY <1>8
  <2>2. r[i] = join(e) /\ r[i] \in Range(r)
    BY <1>5, <1>8, <2>1
  <2> QED
    BY <1>3, <1>4, <2>1, <2>2
<1> QED
  BY <1>6, <1>7, <1>9, <1>10 DEF EventsAre, r

\* The event of the message routed now, and the event of an older one.
IsNew(f, msg) ==
    /\ f.id = Len(log) + 1 /\ f.stream = msg.call[2] /\ f.at = now
    /\ msg.kind = "priming" => f.session = msg.call[1] /\ f.task = None
    /\ msg.kind # "priming" => f.task # None /\ asks[<<f.session, f.stream>>] = f.task

LEMMA StoredIs ==
  ASSUME TypeOK, Owners, Store, NEW msg \in Message
  PROVE  LET r == Stored(msg)
         IN /\ EventsAre(r) /\ Len(r) <= MaxEvents /\ r \in Seq(Event)
            /\ \A f \in Range(r) : \/ IsNew(f, msg)
                                   \/ \E e \in Range(events) : Joined(e, f)
            /\ \A f \in Range(r), e \in Range(events) :
                  f.id < e.id => \E g \in Range(r) : Joined(e, g)
            /\ msg.kind = "priming" \/ Mapped(KeptMaps, msg.call[2]) # {}
                  => \E f \in Range(r) : IsNew(f, msg)
            /\ \A f, g \in Range(r) :
                  msg.kind # "priming" /\ IsNew(f, msg) /\ g.session = f.session /\ g.stream = f.stream
                     => g.task # None
<1> DEFINE n == Len(log) + 1
           q == msg.call[2]
           r == Stored(msg)
           ms == Mapped(KeptMaps, q)
           new(session, t) == [id |-> n, session |-> session, stream |-> q, task |-> t, at |-> now]
<1>0. /\ msg.call \in Calls /\ msg.call[1] \in Sessions /\ q \in Requests
      /\ now \in 0..MaxFaults /\ now \in Nat /\ n \in Nat
      /\ None \notin Tasks
  <2>1. msg.call \in Calls
    BY DEF Message
  <2> QED
    BY <2>1, CallsAre, SeqTypes, NamesAssumption DEF TypeOK
<1>1. EventsAre(events) /\ Len(events) <= MaxEvents
  BY EventsFit DEF TypeOK
<1>2. \A e \in Range(events) : e.id \in Nat /\ e.id < n /\ e.at <= now /\ e.at \in Nat
  <2>1. \A e \in Range(events) : e.at <= now /\ e.id \in DOMAIN log
    BY DEF Store
  <2>2. \A e \in Range(events) : e.id \in Nat /\ e.at \in Nat
    BY <1>1 DEF EventsAre
  <2>3. DOMAIN log = 1..Len(log) /\ Len(log) \in Nat
    BY SeqTypes
  <2> QED
    BY <2>1, <2>2, <2>3
<1>3. ASSUME NEW s, EventsAre(s), NEW session \in Sessions, NEW t \in Tasks \cup {None},
             \A e \in Range(events) : \E f \in Range(s) : Joined(e, f),
             \A f \in Range(s) : \E e \in Range(events) : Joined(e, f),
             IsNew(new(session, t), msg),
             r = KeptEvents(Append(s, new(session, t)))
      PROVE  /\ EventsAre(r) /\ Len(r) <= MaxEvents
             /\ \A f \in Range(r) : f \in Range(s) \/ f = new(session, t)
             /\ \A f \in Range(r) : \/ IsNew(f, msg)
                                    \/ \E e \in Range(events) : Joined(e, f)
             /\ \A f \in Range(r), e \in Range(events) :
                   f.id < e.id => \E g \in Range(r) : Joined(e, g)
             /\ \E f \in Range(r) : IsNew(f, msg)
  <2> DEFINE e0 == new(session, t)
             all == Append(s, e0)
  <2>1. e0 \in Event /\ e0.id = n /\ e0.at = now
    BY <1>0 DEF Event
  <2> HIDE DEF e0, n
  <2>2. \A f \in Range(s) : f.id < e0.id /\ f.at <= e0.at /\ f.id \in Nat
    BY <1>2, <1>3, <2>1 DEF Joined
  <2>3. EventsAre(all) /\ Range(all) = Range(s) \cup {e0}
    BY <1>0, <1>3, <2>1, <2>2, AppendedEvent
  <2>4. r = KeptEvents(all)
    BY <1>3 DEF e0
  <2> HIDE DEF all, r
  <2>5. /\ LeftOf(r, all) /\ Len(r) <= MaxEvents
        /\ \A e \in Range(all) : e.at = now /\ (\A f \in Range(all) : f.id <= e.id) => e \in Range(r)
    BY <1>0, <2>3, <2>4, LeftOfKept
  <2>6. e0 \in Range(r)
    BY <1>0, <2>1, <2>2, <2>3, <2>5
  <2>7. \A f \in Range(r) : f \in Range(s) \/ f = e0
    BY <2>3, <2>5 DEF LeftOf
  <2>8. ASSUME NEW f \in Range(r), NEW e \in Range(events), f.id < e.id
        PROVE  \E g \in Range(r) : Joined(e, g)
    <3>1. PICK g \in Range(s) : Joined(e, g)
      BY <1>3
    <3>2. f.id < g.id
      BY <2>8, <3>1 DEF Joined
    <3> QED
      BY <2>3, <2>5, <3>1, <3>2 DEF LeftOf
  <2>9. IsNew(e0, msg)
    BY <1>3 DEF e0
  <2> QED
    BY <1>3, <2>5, <2>6, <2>7, <2>8, <2>9 DEF LeftOf, e0
<1>4. CASE msg.kind = "priming"
  <2> DEFINE session == msg.call[1]
  <2>1. r = KeptEvents(Append(events, new(session, None)))
    BY <1>4 DEF Stored
  <2>2. \A e : Joined(e, e)
    BY DEF Joined
  <2>3. IsNew(new(session, None), msg)
    BY <1>4 DEF IsNew
  <2> HIDE DEF r, new
  <2>4. /\ EventsAre(r) /\ Len(r) <= MaxEvents
        /\ \A f \in Range(r) : \/ IsNew(f, msg)
                               \/ \E e \in Range(events) : Joined(e, f)
        /\ \A f \in Range(r), e \in Range(events) : f.id < e.id => \E g \in Range(r) : Joined(e, g)
        /\ \E f \in Range(r) : IsNew(f, msg)
    BY <1>0, <1>1, <1>3, <2>1, <2>2, <2>3
  <2> QED
    BY <1>4, <2>4 DEF EventsAre, r
<1>5. CASE msg.kind # "priming" /\ ms = {}
  <2>1. r = events
    BY <1>5 DEF Stored
  <2>2. \A e : Joined(e, e)
    BY DEF Joined
  <2>3. \A f \in Range(events) : ~IsNew(f, msg)
    BY <1>2 DEF IsNew
  <2> HIDE DEF r
  <2>4. /\ EventsAre(r) /\ Len(r) <= MaxEvents
        /\ \A f \in Range(r) : \E e \in Range(events) : Joined(e, f)
        /\ \A f \in Range(r), e \in Range(events) : f.id < e.id => \E g \in Range(r) : Joined(e, g)
        /\ \A f \in Range(r) : ~IsNew(f, msg)
    BY <1>1, <2>1, <2>2, <2>3
  <2> QED
    BY <1>5, <2>4 DEF EventsAre, r
<1>6. CASE msg.kind # "priming" /\ ms # {}
  <2> DEFINE m == CHOOSE m \in ms : TRUE
             s == Adopted(events, m.session, q, m.task)
  <2>1. m \in ms
    BY <1>6
  <2>2. r = KeptEvents(Append(s, new(m.session, m.task)))
    BY <1>6 DEF Stored
  <2> HIDE DEF m
  <2>3. m \in Range(maps) /\ m.request = q
    BY <2>1, KeptMapsAre DEF Mapped
  <2>4. m \in Mapping /\ m.session \in Sessions /\ m.task \in Tasks /\ asks[<<m.session, q>>] = m.task
    BY <2>3, SeqTypes DEF Mapping, Owners
  <2>5. /\ EventsAre(s)
        /\ \A f \in Range(s) : /\ \E e \in Range(events) : Joined(e, f)
                               /\ f.session = m.session /\ f.stream = q => f.task # None
        /\ \A e \in Range(events) : \E f \in Range(s) : Joined(e, f)
    BY <1>0, <1>1, <2>4, AdoptedIs
  <2>6. /\ IsNew(new(m.session, m.task), msg)
        /\ new(m.session, m.task).task # None
        /\ new(m.session, m.task).session = m.session
    BY <1>0, <1>6, <2>4 DEF IsNew
  <2> HIDE DEF s, r, new
  <2>7. /\ EventsAre(r) /\ Len(r) <= MaxEvents
        /\ \A f \in Range(r) : f \in Range(s) \/ f = new(m.session, m.task)
        /\ \A f \in Range(r) : \/ IsNew(f, msg)
                               \/ \E e \in Range(events) : Joined(e, f)
        /\ \A f \in Range(r), e \in Range(events) : f.id < e.id => \E g \in Range(r) : Joined(e, g)
        /\ \E f \in Range(r) : IsNew(f, msg)
    BY <1>3, <2>2, <2>4, <2>5, <2>6
  <2>8. ASSUME NEW f \in Range(r), NEW g \in Range(r), IsNew(f, msg), g.session = f.session,
               g.stream = f.stream
        PROVE  g.task # None
    <3>1. f = new(m.session, m.task)
      <4>1. f \notin Range(s)
        <5>1. \A h \in Range(s) : h.id < n
          BY <1>2, <2>5 DEF Joined
        <5> QED
          BY <1>0, <2>8, <5>1 DEF IsNew
      <4> QED
        BY <2>7, <4>1
    <3>2. g.session = m.session /\ g.stream = q
      BY <2>6, <2>8, <3>1 DEF IsNew
    <3> QED
      BY <2>5, <2>6, <2>7, <3>2
  <2> QED
    BY <1>6, <2>7, <2>8 DEF EventsAre, r
<1> QED
  BY <1>4, <1>5, <1>6

-----------------------------------------------------------------------------
\* A message is routed.

\* The ids of the calls' messages before and after.
LEMMA OfIs ==
  ASSUME TypeOK, NEW msg \in Message, log' = Append(log, msg)
  PROVE  /\ Len(log') = Len(log) + 1 /\ DOMAIN log' = DOMAIN log \cup {Len(log) + 1}
         /\ Len(log) + 1 \notin DOMAIN log /\ log'[Len(log) + 1] = msg
         /\ \A i \in DOMAIN log : log'[i] = log[i] /\ i < Len(log) + 1
         /\ log' \in Seq(Message)
         /\ \A d : Of(d)' = IF d = msg.call THEN Of(d) \cup {Len(log) + 1} ELSE Of(d)
<1>1. log \in Seq(Message)
  BY DEF TypeOK
<1>2. /\ Len(log') = Len(log) + 1 /\ DOMAIN log' = DOMAIN log \cup {Len(log) + 1}
      /\ Len(log) + 1 \notin DOMAIN log /\ log'[Len(log) + 1] = msg
      /\ \A i \in DOMAIN log : log'[i] = log[i] /\ i < Len(log) + 1
      /\ log' \in Seq(Message)
  BY <1>1
<1>3. ASSUME NEW d PROVE Of(d)' = IF d = msg.call THEN Of(d) \cup {Len(log) + 1} ELSE Of(d)
  <2>1. Of(d)' = {i \in DOMAIN log' : log'[i].call = d}
    BY DEF Of
  <2> QED
    BY <1>2, <2>1 DEF Of
<1> QED
  BY <1>2, <1>3

Routing(msg, connected) ==
    /\ Route(msg, connected) /\ UNCHANGED <<now, asks, loop, resuming, replay>>
    /\ \A d \in Calls : call[d] # "unused" => call'[d] # "unused"
    /\ call'[msg.call] # "unused"
    /\ msg.kind = "priming" <=> call[msg.call] = "unused"
    /\ open' \subseteq connected /\ connected \subseteq open \cup {msg.call}
    /\ call[msg.call] = "unused" \/ connected \subseteq open

LEMMA SharedStays ==
  ASSUME \A d \in Calls : call[d] # "unused" => call'[d] # "unused", NEW c \in Calls, ~Shared(c)'
  PROVE  ~Shared(c)
BY DEF Shared

\* A call that nobody has made has had no messages.
LEMMA UnusedOf ==
  ASSUME TypeOK, Traffic, NEW c \in Calls, call[c] = "unused"
  PROVE  Of(c) = {}
BY DEF Traffic, Of

LEMMA RoutingStore ==
  ASSUME IInv, NEW msg \in Message, NEW connected, Routing(msg, connected)
  PROVE  Store' /\ events' \in Seq(Event) /\ Len(events') <= MaxEvents
<1> DEFINE n == Len(log) + 1
<1>0. TypeOK /\ Owners /\ Store /\ Traffic
  BY DEF IInv
<1>1. /\ log' = Append(log, msg) /\ events' = Stored(msg)
      /\ UNCHANGED <<now, asks, loop>> /\ (\A d \in Calls : call[d] # "unused" => call'[d] # "unused")
      /\ call'[msg.call] # "unused" /\ (msg.kind = "priming" <=> call[msg.call] = "unused")
  BY DEF Routing, Route
<1>2. /\ DOMAIN log' = DOMAIN log \cup {n} /\ log'[n] = msg /\ n \notin DOMAIN log
      /\ \A i \in DOMAIN log : log'[i] = log[i] /\ i < n
  BY <1>0, <1>1, OfIs
<1>3. msg.call \in Calls /\ msg.call[1] \in Sessions /\ msg.call[2] \in Requests
      /\ <<msg.call[1], msg.call[2]>> = msg.call
  <2>1. msg.call \in Calls
    BY DEF Message
  <2> QED
    BY <2>1, CallsAre
<1>4. /\ EventsAre(events') /\ Len(events') <= MaxEvents /\ events' \in Seq(Event)
      /\ \A f \in Range(events') : \/ IsNew(f, msg)
                                   \/ \E e \in Range(events) : Joined(e, f)
      /\ \A f, g \in Range(events') :
            msg.kind # "priming" /\ IsNew(f, msg) /\ g.session = f.session /\ g.stream = f.stream
               => g.task # None
  BY <1>0, <1>1, StoredIs
<1>5. \A e \in Range(events) :
          /\ e.at <= now /\ e.id \in DOMAIN log /\ log[e.id].call[2] = e.stream
          /\ call[<<e.session, e.stream>>] # "unused" /\ <<e.session, e.stream>> \in Calls
          /\ e.task # None => asks[<<e.session, e.stream>>] = e.task
          /\ log[e.id].kind # "priming" => e.task # None
  <2>1. \A e \in Range(events) : e.session \in Sessions /\ e.stream \in Requests
    BY <1>0, SeqTypes DEF Event
  <2> QED
    BY <1>0, <2>1, Pairs DEF Store
<1>6. now \in Nat
  BY <1>0 DEF TypeOK
<1>7. ASSUME NEW f \in Range(events')
      PROVE  /\ f.at <= now' /\ f.id \in DOMAIN log' /\ log'[f.id].call[2] = f.stream
             /\ call'[<<f.session, f.stream>>] # "unused"
             /\ f.task # None => asks'[<<f.session, f.stream>>] = f.task
             /\ log'[f.id].kind # "priming" => f.task # None
  <2>1. CASE IsNew(f, msg)
    <3>1. f.id = n /\ f.stream = msg.call[2] /\ f.at = now
      BY <2>1 DEF IsNew
    <3>2. CASE msg.kind = "priming"
      <4>1. f.session = msg.call[1] /\ f.task = None
        BY <2>1, <3>2 DEF IsNew
      <4> QED
        BY <1>1, <1>2, <1>3, <1>6, <3>1, <3>2, <4>1
    <3>3. CASE msg.kind # "priming"
      <4>1. f.task # None /\ asks[<<f.session, f.stream>>] = f.task
        BY <2>1, <3>3 DEF IsNew
      <4>2. f.session \in Sessions /\ f.stream \in Requests
        <5>1. f \in Event
          BY <1>4, RangeOf
        <5> QED
          BY <5>1 DEF Event
      <4>3. <<f.session, f.stream>> \in Calls
        BY <4>2, Pairs
      <4>4. call[<<f.session, f.stream>>] # "unused"
        BY <1>0, <4>1, <4>3 DEF Owners
      <4> QED
        BY <1>1, <1>2, <1>6, <3>1, <4>1, <4>3, <4>4
    <3> QED
      BY <3>2, <3>3
  <2>2. CASE \E e \in Range(events) : Joined(e, f)
    <3>1. PICK e \in Range(events) : Joined(e, f)
      BY <2>2
    <3>2. /\ f.id = e.id /\ f.session = e.session /\ f.stream = e.stream /\ f.at = e.at
          /\ \/ f.task = e.task
             \/ f.task # None /\ asks[<<e.session, e.stream>>] = f.task
      BY <3>1 DEF Joined
    <3>3. log'[f.id] = log[e.id] /\ e.id \in DOMAIN log
      BY <1>2, <1>5, <3>2
    <3> QED
      BY <1>1, <1>2, <1>5, <3>2, <3>3
  <2> QED
    BY <1>4, <2>1, <2>2
<1>8. ASSUME NEW e \in Range(events'), NEW f \in Range(events'),
             e.id < f.id, e.session = f.session, e.stream = f.stream
      PROVE  e.task # None
  <2>1. \A g \in Range(events') : (\E h \in Range(events) : Joined(h, g)) => g.id < n
    BY <1>2, <1>5 DEF Joined
  <2>2. ~IsNew(e, msg)
    <3>1. f.id <= n /\ f.id \in Nat /\ n \in Nat
      <4>1. f.id \in Nat /\ n \in Nat
        BY <1>0, <1>4, SeqTypes DEF EventsAre
      <4>2. CASE IsNew(f, msg)
        BY <4>1, <4>2 DEF IsNew
      <4>3. CASE \E h \in Range(events) : Joined(h, f)
        BY <2>1, <4>1, <4>3
      <4> QED
        BY <1>4, <4>2, <4>3
    <3> QED
      BY <1>8, <3>1 DEF IsNew
  <2>3. PICK e0 \in Range(events) : Joined(e0, e)
    BY <1>4, <2>2
  <2>4. CASE IsNew(f, msg) /\ msg.kind = "priming"
    <3>1. f.session = msg.call[1] /\ f.stream = msg.call[2]
      BY <2>4 DEF IsNew
    <3>2. <<e0.session, e0.stream>> = msg.call
      BY <1>3, <1>8, <2>3, <3>1 DEF Joined
    <3> QED
      BY <1>1, <1>5, <2>4, <3>2
  <2>5. CASE IsNew(f, msg) /\ msg.kind # "priming"
    BY <1>4, <1>8, <2>5
  <2>6. CASE \E f0 \in Range(events) : Joined(f0, f)
    <3>1. PICK f0 \in Range(events) : Joined(f0, f)
      BY <2>6
    <3>2. e0.task # None
      BY <1>0, <1>8, <2>3, <3>1 DEF Store, Joined
    <3> QED
      BY <2>3, <3>2 DEF Joined
  <2> QED
    BY <1>4, <2>4, <2>5, <2>6
<1>9. Store'
  BY <1>4, <1>7, <1>8 DEF Store, EventsAre
<1> QED
  BY <1>4, <1>9

LEMMA RoutingComplete ==
  ASSUME IInv, NEW msg \in Message, NEW connected, Routing(msg, connected)
  PROVE  Complete'
<1> DEFINE n == Len(log) + 1
           c == msg.call
<1>0. TypeOK /\ Owners /\ Store /\ Traffic /\ Complete
  BY DEF IInv
<1>1. /\ log' = Append(log, msg) /\ events' = Stored(msg)
      /\ maps' = IF msg.kind = "priming" THEN maps ELSE KeptMaps
      /\ \A d \in Calls : call[d] # "unused" => call'[d] # "unused"
      /\ msg.kind = "priming" <=> call[c] = "unused"
  BY DEF Routing, Route
<1>2. /\ n \notin DOMAIN log /\ log'[n] = msg
      /\ \A i \in DOMAIN log : log'[i] = log[i] /\ i < n
      /\ \A d : Of(d)' = IF d = c THEN Of(d) \cup {n} ELSE Of(d)
  BY <1>0, <1>1, OfIs
<1>3. \A d : Of(d) \subseteq DOMAIN log
  BY DEF Of
<1>4. \A q : Mapped(maps', q) # {} => Mapped(maps, q) # {}
  BY <1>0, <1>1, KeptMapsAre DEF Mapped
<1>5. /\ \A f \in Range(events') : \/ IsNew(f, msg)
                                   \/ \E e \in Range(events) : Joined(e, f)
      /\ \A f \in Range(events'), e \in Range(events) :
            f.id < e.id => \E g \in Range(events') : Joined(e, g)
      /\ msg.kind = "priming" \/ Mapped(KeptMaps, c[2]) # {} => \E f \in Range(events') : IsNew(f, msg)
  BY <1>0, <1>1, StoredIs
<1>6. c \in Calls
  BY DEF Message
<1> HIDE DEF c
<1>7. SUFFICES ASSUME NEW d \in Calls, ~Shared(d)',
                      Mapped(maps', d[2]) # {} \/ \A i \in Of(d)' : log'[i].kind = "priming",
                      NEW i \in Of(d)', NEW f \in Range(events'), f.id < i
               PROVE  \E g \in Range(events') : g.id = i
  BY DEF Complete
<1>8. CASE i = n
  <2>1. d = c
    BY <1>2, <1>3, <1>8
  <2>2. msg.kind = "priming" \/ Mapped(KeptMaps, c[2]) # {}
    <3>1. CASE msg.kind = "priming"
      BY <3>1
    <3>2. CASE msg.kind # "priming"
      <4>1. ~(\A j \in Of(d)' : log'[j].kind = "priming")
        BY <1>2, <1>8, <3>2
      <4>2. maps' = KeptMaps
        BY <1>1, <3>2
      <4> QED
        BY <1>7, <2>1, <4>1, <4>2
    <3> QED
      BY <3>1, <3>2
  <2> QED
    BY <1>5, <1>8, <2>2 DEF IsNew
<1>9. CASE i # n
  <2>1. i \in Of(d) /\ i \in DOMAIN log /\ i < n
    BY <1>2, <1>3, <1>9
  <2>2. ~Shared(d)
    BY <1>1, <1>7, SharedStays
  <2>3. Mapped(maps, d[2]) # {} \/ \A j \in Of(d) : log[j].kind = "priming"
    <3>1. CASE Mapped(maps', d[2]) # {}
      BY <1>4, <3>1
    <3>2. CASE \A j \in Of(d)' : log'[j].kind = "priming"
      BY <1>2, <1>3, <3>2
    <3> QED
      BY <1>7, <3>1, <3>2
  <2>4. PICK e \in Range(events) : Joined(e, f)
    <3>1. ~IsNew(f, msg)
      <4>1. n \in Nat /\ i \in Nat
        BY <1>0, <2>1, SeqTypes
      <4> QED
        BY <1>7, <2>1, <4>1 DEF IsNew
    <3> QED
      BY <1>5, <3>1
  <2>5. PICK e1 \in Range(events) : e1.id = i
    BY <1>0, <1>7, <2>1, <2>2, <2>3, <2>4 DEF Complete, Joined
  <2>6. PICK g \in Range(events') : Joined(e1, g)
    BY <1>5, <1>7, <2>5
  <2> QED
    BY <2>5, <2>6 DEF Joined
<1> QED
  BY <1>8, <1>9

\* A number beyond those of an ascending sequence may follow it.
LEMMA AppendAscends ==
  ASSUME NEW s \in Seq(Nat), NEW n \in Nat, \A k \in Range(s) : k < n,
         \A i, j \in DOMAIN s : i < j => s[i] < s[j]
  PROVE  \A i, j \in DOMAIN Append(s, n) : i < j => Append(s, n)[i] < Append(s, n)[j]
<1> DEFINE r == Append(s, n)
<1>1. /\ DOMAIN r = 1..(Len(s) + 1) /\ r[Len(s) + 1] = n
      /\ DOMAIN s = 1..Len(s) /\ Len(s) \in Nat
      /\ \A i \in 1..Len(s) : r[i] = s[i]
  OBVIOUS
<1>2. \A i \in 1..Len(s) : s[i] \in Range(s)
  BY <1>1 DEF Range
<1> HIDE DEF r
<1> SUFFICES ASSUME NEW i \in DOMAIN r, NEW j \in DOMAIN r, i < j
             PROVE  r[i] < r[j]
  BY DEF r
<1>3. i \in 1..Len(s)
  BY <1>1
<1>4. CASE j \in 1..Len(s)
  BY <1>1, <1>3, <1>4
<1>5. CASE j = Len(s) + 1
  BY <1>1, <1>2, <1>3, <1>5
<1> QED
  BY <1>1, <1>4, <1>5

LEMMA RoutingReceived ==
  ASSUME IInv, NEW msg \in Message, NEW connected, Routing(msg, connected)
  PROVE  /\ Connections' /\ Received' /\ Resumes'
         /\ seen' \in [Calls -> Seq(DOMAIN log')] /\ late' \subseteq DOMAIN log'
         /\ replay' \in [Calls -> Seq(DOMAIN log')]
<1> DEFINE n == Len(log) + 1
           c == msg.call
<1>0. TypeOK /\ Traffic /\ Connections /\ Received /\ Resumes
  BY DEF IInv
<1>1. /\ log' = Append(log, msg)
      /\ seen' = IF c \in connected THEN [seen EXCEPT ![c] = Append(@, n)] ELSE seen
      /\ late' = IF c \in resuming THEN late \cup {n} ELSE late
      /\ resuming' = resuming /\ replay' = replay
      /\ \A d \in Calls : call[d] # "unused" => call'[d] # "unused"
      /\ call'[c] # "unused"
      /\ open' \subseteq connected /\ connected \subseteq open \cup {c}
      /\ call[c] = "unused" \/ connected \subseteq open
  BY DEF Routing, Route
<1>2. /\ n \notin DOMAIN log /\ DOMAIN log' = DOMAIN log \cup {n}
      /\ \A i \in DOMAIN log : i < n
      /\ \A d : Of(d)' = IF d = c THEN Of(d) \cup {n} ELSE Of(d)
  BY <1>0, <1>1, OfIs
<1>3. \A d : Of(d) \subseteq DOMAIN log
  BY DEF Of
<1>4. c \in Calls
  BY DEF Message
<1>5. n \in Nat /\ DOMAIN log \subseteq Nat
  BY <1>0, SeqTypes
<1>6. /\ seen \in [Calls -> Seq(DOMAIN log)] /\ replay \in [Calls -> Seq(DOMAIN log)]
      /\ late \subseteq DOMAIN log
  BY <1>0 DEF TypeOK
<1> HIDE DEF n, c
<1>7. ASSUME NEW d \in Calls
      PROVE  /\ seen'[d] = IF d = c /\ c \in connected THEN Append(seen[d], n) ELSE seen[d]
             /\ seen'[d] \in Seq(DOMAIN log')
             /\ Range(seen'[d]) = Range(seen[d]) \cup (IF d = c /\ c \in connected THEN {n} ELSE {})
  <2>1. seen'[d] = IF d = c /\ c \in connected THEN Append(seen[d], n) ELSE seen[d]
    BY <1>1, <1>4, <1>6
  <2>2. seen[d] \in Seq(DOMAIN log')
    BY <1>2, <1>6
  <2>3. /\ Append(seen[d], n) \in Seq(DOMAIN log')
        /\ Range(Append(seen[d], n)) = Range(seen[d]) \cup {n}
    BY <1>2, <2>2, AppendRange
  <2> QED
    BY <2>1, <2>2, <2>3
<1>8. /\ seen' \in [Calls -> Seq(DOMAIN log')] /\ replay' \in [Calls -> Seq(DOMAIN log')]
      /\ late' \subseteq DOMAIN log'
  <2>1. \A d \in Calls : seen'[d] \in Seq(DOMAIN log')
    BY <1>7
  <2>2. seen' = [d \in Calls |-> seen'[d]]
    BY <1>1, <1>6
  <2>3. seen' \in [Calls -> Seq(DOMAIN log')]
    BY <2>1, <2>2, Zenon
  <2>4. late' \subseteq DOMAIN log'
    BY <1>1, <1>2, <1>6
  <2>5. replay' \in [Calls -> Seq(DOMAIN log')]
    BY <1>1, <1>2, <1>6
  <2> QED
    BY <2>3, <2>4, <2>5
<1>9. ASSUME NEW d \in Calls, ~Shared(d)'
      PROVE  /\ Range(seen'[d]) \subseteq Of(d)'
             /\ \A i, j \in DOMAIN seen'[d] : i < j => seen'[d][i] < seen'[d][j]
             /\ \A i \in Of(d)', k \in Range(seen'[d]) : i < k => i \in Range(seen'[d]) \cup late'
             /\ d \in open' => Of(d)' \subseteq Range(seen'[d]) \cup late'
  <2>1. /\ Range(seen[d]) \subseteq Of(d)
        /\ \A i, j \in DOMAIN seen[d] : i < j => seen[d][i] < seen[d][j]
        /\ \A i \in Of(d), k \in Range(seen[d]) : i < k => i \in Range(seen[d]) \cup late
        /\ d \in open => Of(d) \subseteq Range(seen[d]) \cup late
    BY <1>0, <1>1, <1>9, SharedStays DEF Received
  <2>2. \A k \in Range(seen[d]) : k \in Nat /\ k < n
    BY <1>2, <1>3, <1>5, <2>1
  <2>3. late \subseteq late'
    BY <1>1
  <2>4. CASE d # c
    <3>1. seen'[d] = seen[d] /\ Of(d)' = Of(d)
      BY <1>2, <1>7, <2>4
    <3>2. d \in open' => d \in open
      BY <1>1, <2>4
    <3> QED
      BY <2>1, <2>3, <3>1, <3>2
  <2>5. CASE d = c /\ c \notin connected
    <3>1. seen'[d] = seen[d] /\ Of(d)' = Of(d) \cup {n} /\ d \notin open'
      BY <1>1, <1>2, <1>7, <2>5
    <3> QED
      BY <1>5, <2>1, <2>2, <2>3, <3>1
  <2>6. CASE d = c /\ c \in connected
    <3>1. seen'[d] = Append(seen[d], n) /\ Of(d)' = Of(d) \cup {n} /\ Range(seen'[d]) = Range(seen[d]) \cup {n}
      BY <1>2, <1>7, <2>6
    <3>2. Of(d) \subseteq Range(seen[d]) \cup late
      <4>1. CASE call[c] = "unused"
        BY <1>0, <1>4, <2>6, <4>1, UnusedOf
      <4>2. CASE connected \subseteq open
        BY <2>1, <2>6, <4>2
      <4> QED
        BY <1>1, <4>1, <4>2
    <3>3. \A i, j \in DOMAIN seen'[d] : i < j => seen'[d][i] < seen'[d][j]
      <4>1. seen[d] \in Seq(DOMAIN log)
        BY <1>6
      <4>2. seen[d] \in Seq(Nat) /\ n \in Nat /\ \A k \in Range(seen[d]) : k < n
        BY <1>5, <2>2, <4>1
      <4> QED
        BY <2>1, <3>1, <4>2, AppendAscends
    <3> QED
      BY <2>1, <2>3, <3>1, <3>2, <3>3
  <2> QED
    BY <2>4, <2>5, <2>6
<1>10. \A d \in Calls : call'[d] = "unused" => d # c /\ call[d] = "unused"
  BY <1>1
<1>11. Connections'
  <2>1. open' \cap resuming' = {}
    BY <1>0, <1>1, <1>4 DEF Connections
  <2>2. \A d \in Calls : call'[d] = "unused" => seen'[d] = <<>> /\ d \notin resuming'
    BY <1>0, <1>1, <1>7, <1>10 DEF Connections
  <2> QED
    BY <2>1, <2>2 DEF Connections
<1>12. ASSUME NEW d \in resuming', ~Shared(d)', d \in Calls
       PROVE  /\ Range(replay'[d]) \subseteq Of(d)'
              /\ \A i, j \in DOMAIN replay'[d] : i < j => replay'[d][i] < replay'[d][j]
              /\ \A k \in Range(seen'[d]), i \in Range(replay'[d]) : k < i
              /\ Of(d)' \subseteq Range(seen'[d]) \cup Range(replay'[d]) \cup late'
  <2>1. /\ Range(replay[d]) \subseteq Of(d)
        /\ \A i, j \in DOMAIN replay[d] : i < j => replay[d][i] < replay[d][j]
        /\ \A k \in Range(seen[d]), i \in Range(replay[d]) : k < i
        /\ Of(d) \subseteq Range(seen[d]) \cup Range(replay[d]) \cup late
    BY <1>0, <1>1, <1>12, SharedStays DEF Resumes
  <2>2. d = c => c \notin connected
    BY <1>0, <1>1, <1>12 DEF Connections
  <2>3. seen'[d] = seen[d] /\ replay'[d] = replay[d] /\ late \subseteq late'
    BY <1>1, <1>7, <1>12, <2>2
  <2>4. Of(d) \subseteq Of(d)' /\ Of(d)' \subseteq Of(d) \cup late'
    BY <1>1, <1>2, <1>12
  <2> QED
    BY <2>1, <2>3, <2>4
<1>13. resuming' \subseteq Calls
  BY <1>0, <1>1 DEF TypeOK
<1> QED
  BY <1>8, <1>9, <1>11, <1>12, <1>13 DEF Received, Resumes

-----------------------------------------------------------------------------
\* Steps that route nothing.

\* The store, and what the clients have, change only when something is routed
\* or a client is replayed.
LEMMA QuietStream ==
  ASSUME IInv, UNCHANGED <<log, events, seen, late>>, open' \subseteq open,
         resuming' \subseteq resuming, \A c \in resuming' : replay'[c] = replay[c],
         now' \in Nat, now' >= now,
         \A d \in Calls : call[d] # "unused" => call'[d] # "unused",
         \A d \in Calls : asks[d] # None => asks'[d] = asks[d],
         \A c \in Calls : ~Shared(c)' /\ Mapped(maps', c[2]) # {} =>
            Mapped(maps, c[2]) # {} \/ \A i \in Of(c) : log[i].kind = "priming"
  PROVE  Store' /\ Complete' /\ Connections' /\ Received' /\ Resumes'
<1>0. TypeOK /\ Store /\ Complete /\ Connections /\ Received /\ Resumes
  BY DEF IInv
<1>1. \A c \in Calls : ~Shared(c)' => ~Shared(c)
  BY SharedStays
<1>2. \A c : Of(c)' = Of(c)
  BY DEF Of
<1>3. Store'
  <2>1. \A e \in Range(events) : <<e.session, e.stream>> \in Calls /\ e.at \in Nat
    <3>1. \A e \in Range(events) : e.session \in Sessions /\ e.stream \in Requests /\ e.at \in Nat
      BY <1>0, SeqTypes, BoundsAssumption DEF Event
    <3> QED
      BY <3>1, Pairs
  <2>2. Ordered(events)'
    BY <1>0 DEF Store, Ordered
  <2>3. now \in Nat /\ None \notin Tasks /\ \A e \in Range(events) : e.task \in Tasks \cup {None}
    BY <1>0, SeqTypes, NamesAssumption DEF TypeOK, Event
  <2>4. ASSUME NEW e \in Range(events)
        PROVE  /\ e.at <= now' /\ e.id \in DOMAIN log' /\ log'[e.id].call[2] = e.stream
               /\ call'[<<e.session, e.stream>>] # "unused"
               /\ e.task # None => asks'[<<e.session, e.stream>>] = e.task
               /\ log'[e.id].kind # "priming" => e.task # None
    <3>1. /\ e.at <= now /\ e.id \in DOMAIN log /\ log[e.id].call[2] = e.stream
          /\ call[<<e.session, e.stream>>] # "unused"
          /\ e.task # None => asks[<<e.session, e.stream>>] = e.task
          /\ log[e.id].kind # "priming" => e.task # None
      BY <1>0 DEF Store
    <3>2. e.at <= now'
      BY <2>1, <2>3, <3>1
    <3> QED
      BY <2>1, <3>1, <3>2
  <2>5. \A e, f \in Range(events) :
          e.id < f.id /\ e.session = f.session /\ e.stream = f.stream => e.task # None
    BY <1>0 DEF Store
  <2> QED
    BY <2>2, <2>4, <2>5 DEF Store
<1>4. Complete'
  <2> SUFFICES ASSUME NEW c \in Calls, ~Shared(c)',
                      Mapped(maps', c[2]) # {} \/ \A i \in Of(c)' : log'[i].kind = "priming",
                      NEW i \in Of(c)', NEW e \in Range(events'), e.id < i
               PROVE  \E f \in Range(events') : f.id = i
    BY DEF Complete
  <2>1. ~Shared(c) /\ i \in Of(c) /\ e \in Range(events)
    BY <1>1, <1>2
  <2>2. Mapped(maps, c[2]) # {} \/ \A j \in Of(c) : log[j].kind = "priming"
    BY <1>2
  <2> QED
    BY <1>0, <2>1, <2>2 DEF Complete
<1>5. Received'
  <2> SUFFICES ASSUME NEW c \in Calls, ~Shared(c)'
               PROVE  /\ Range(seen[c]) \subseteq Of(c)
                      /\ \A i, j \in DOMAIN seen[c] : i < j => seen[c][i] < seen[c][j]
                      /\ \A i \in Of(c), k \in Range(seen[c]) : i < k => i \in Range(seen[c]) \cup late
                      /\ c \in open' => Of(c) \subseteq Range(seen[c]) \cup late
    BY <1>2 DEF Received
  <2> QED
    BY <1>0, <1>1 DEF Received
<1>6. Connections'
  BY <1>0 DEF Connections
<1>7. Resumes'
  <2>1. resuming \subseteq Calls
    BY <1>0 DEF TypeOK
  <2> SUFFICES ASSUME NEW c \in resuming', ~Shared(c)'
               PROVE  /\ Range(replay[c]) \subseteq Of(c)
                      /\ \A i, j \in DOMAIN replay[c] : i < j => replay[c][i] < replay[c][j]
                      /\ \A k \in Range(seen[c]), i \in Range(replay[c]) : k < i
                      /\ Of(c) \subseteq Range(seen[c]) \cup Range(replay[c]) \cup late
    BY <1>2 DEF Resumes
  <2> QED
    BY <1>0, <1>1, <2>1 DEF Resumes
<1> QED
  BY <1>3, <1>4, <1>5, <1>6, <1>7

\* Nobody is sent anything new.
LEMMA QuietRising ==
  ASSUME IInv, UNCHANGED <<log, wire, last, asks>>, cancels' = 0 => cancels = 0,
         \A p \in Threads : job'[p].step = "send" => job'[p] = job[p]
  PROVE  Rising'
<1>0. Rising
  BY DEF IInv
<1>1. ASSUME NEW c \in Calls, asks'[c] # None, Sole(asks[c])'  PROVE Climbs(c)'
  <2>1. Sole(asks[c])
    BY <1>1 DEF Sole
  <2>2. Climbs(c)
    BY <1>0, <1>1, <2>1 DEF Rising
  <2> QED
    BY <2>2 DEF Climbs, Rises, Mine
<1> QED
  BY <1>1 DEF Rising

\* A message that tells no progress is sent to a call.
LEMMA ReplyRising ==
  ASSUME IInv, UNCHANGED <<log, last, asks, job>>, cancels' = 0 => cancels = 0,
         NEW b \in Calls, NEW msg \in Message, msg.kind # "progress",
         wire' = [wire EXCEPT ![b[1]] = Append(@, msg)]
  PROVE  Rising'
<1>0. Rising /\ TypeOK
  BY DEF IInv
<1>1. ASSUME NEW c \in Calls, asks'[c] # None, Sole(asks[c])'  PROVE Climbs(c)'
  <2>1. Sole(asks[c])
    BY <1>1 DEF Sole
  <2>2. Climbs(c)
    BY <1>0, <1>1, <2>1 DEF Rising
  <2>3. c[1] \in Sessions /\ b[1] \in Sessions
    BY CallsAre
  <2> DEFINE w == wire[c[1]]
             v == wire'[c[1]]
  <2>4. w \in Seq(Message) /\ (v = w \/ v = Append(w, msg))
    BY <1>0, <2>3 DEF TypeOK
  <2>5. /\ DOMAIN w \subseteq DOMAIN v /\ \A i \in DOMAIN w : v[i] = w[i]
        /\ \A i \in DOMAIN v : i \in DOMAIN w \/ v[i] = msg
    BY <2>4
  <2>6. \A i \in DOMAIN v : Mine(c, v[i]) => i \in DOMAIN w /\ v[i] = w[i] /\ Mine(c, w[i])
    BY <2>5 DEF Mine
  <2>7. /\ Rises(c)
        /\ \A i, j \in DOMAIN w : i < j /\ Mine(c, w[i]) /\ Mine(c, w[j]) => w[i].value <= w[j].value
        /\ \A i \in DOMAIN log, j \in DOMAIN w :
              Mine(c, log[i]) /\ Mine(c, w[j]) => log[i].value <= w[j].value
        /\ \A i \in DOMAIN log : Mine(c, log[i]) => log[i].value <= last[c]
        /\ \A i \in DOMAIN w : Mine(c, w[i]) => w[i].value <= last[c]
        /\ \A p \in Threads : job[p].step = "send" /\ job[p].task = asks[c] => last[c] <= job[p].value
    BY <2>2 DEF Climbs
  <2> HIDE DEF v, w
  <2>8. /\ Rises(c)'
        /\ \A i, j \in DOMAIN v : i < j /\ Mine(c, v[i]) /\ Mine(c, v[j]) => v[i].value <= v[j].value
        /\ \A i \in DOMAIN log', j \in DOMAIN v :
              Mine(c, log'[i]) /\ Mine(c, v[j]) => log'[i].value <= v[j].value
        /\ \A i \in DOMAIN log' : Mine(c, log'[i]) => log'[i].value <= last'[c]
        /\ \A i \in DOMAIN v : Mine(c, v[i]) => v[i].value <= last'[c]
        /\ \A p \in Threads : job'[p].step = "send" /\ job'[p].task = asks'[c] => last'[c] <= job'[p].value
    BY <2>6, <2>7 DEF Rises
  <2> QED
    BY <2>8 DEF Climbs, v, Mine
<1> QED
  BY <1>1 DEF Rising

\* A stream is primed.
LEMMA PrimingRising ==
  ASSUME IInv, UNCHANGED <<last, asks, job, wire, cancels>>,
         NEW msg \in Message, msg.kind # "progress", log' = Append(log, msg)
  PROVE  Rising'
<1>0. Rising /\ TypeOK
  BY DEF IInv
<1>1. ASSUME NEW c \in Calls, asks'[c] # None, Sole(asks[c])'  PROVE Climbs(c)'
  <2>1. Sole(asks[c])
    BY <1>1 DEF Sole
  <2>2. Climbs(c)
    BY <1>0, <1>1, <2>1 DEF Rising
  <2>3. /\ DOMAIN log' = DOMAIN log \cup {Len(log) + 1} /\ log'[Len(log) + 1] = msg
        /\ \A i \in DOMAIN log : log'[i] = log[i]
    BY <1>0, OfIs
  <2>4. \A i \in DOMAIN log' : Mine(c, log'[i]) => i \in DOMAIN log /\ log'[i] = log[i] /\ Mine(c, log[i])
    BY <2>3 DEF Mine
  <2>5. /\ Rises(c)'
        /\ \A i \in DOMAIN log', j \in DOMAIN wire[c[1]] :
              Mine(c, log'[i]) /\ Mine(c, wire[c[1]][j]) => log'[i].value <= wire[c[1]][j].value
        /\ \A i \in DOMAIN log' : Mine(c, log'[i]) => log'[i].value <= last[c]
    BY <2>2, <2>4 DEF Climbs, Rises, Mine
  <2> QED
    BY <2>2, <2>5 DEF Climbs, Mine
<1> QED
  BY <1>1 DEF Rising

LEMMA HeadTail ==
  ASSUME NEW S, NEW s \in Seq(S), s # <<>>
  PROVE  /\ Head(s) = s[1] /\ Head(s) \in S /\ 1 \in DOMAIN s /\ Tail(s) \in Seq(S)
         /\ \A i \in DOMAIN Tail(s) : i + 1 \in DOMAIN s /\ i + 1 > 1 /\ Tail(s)[i] = s[i + 1] /\ i \in Nat
  OBVIOUS

\* The next message of a session is routed.
LEMMA DeliverRising ==
  ASSUME IInv, UNCHANGED <<last, asks, job, cancels>>, NEW s \in Sessions, wire[s] # <<>>,
         log' = Append(log, Head(wire[s])), wire' = [wire EXCEPT ![s] = Tail(@)]
  PROVE  Rising'
<1>0. Rising /\ TypeOK /\ Traffic
  BY DEF IInv
<1>1. ASSUME NEW c \in Calls, asks'[c] # None, Sole(asks[c])'  PROVE Climbs(c)'
  <2>1. Sole(asks[c])
    BY <1>1 DEF Sole
  <2>2. Climbs(c)
    BY <1>0, <1>1, <2>1 DEF Rising
  <2>3. c[1] \in Sessions /\ wire[c[1]] \in Seq(Message) /\ wire[s] \in Seq(Message)
    BY <1>0, CallsAre DEF TypeOK
  <2> DEFINE msg == Head(wire[s])
             w == wire[c[1]]
             v == wire'[c[1]]
             n == Len(log) + 1
  <2>4. msg \in Message /\ msg = wire[s][1] /\ 1 \in DOMAIN wire[s]
    BY <2>3, HeadTail
  <2>5. /\ DOMAIN log' = DOMAIN log \cup {n} /\ log'[n] = msg
        /\ \A i \in DOMAIN log : log'[i] = log[i] /\ i < n
        /\ n \in Nat /\ DOMAIN log \subseteq Nat
    BY <1>0, <2>4, OfIs, SeqTypes
  <2>7. /\ \A i, j \in DOMAIN log :
              i < j /\ Mine(c, log[i]) /\ Mine(c, log[j]) => log[i].value <= log[j].value
        /\ \A i, j \in DOMAIN w : i < j /\ Mine(c, w[i]) /\ Mine(c, w[j]) => w[i].value <= w[j].value
        /\ \A i \in DOMAIN log, j \in DOMAIN w :
              Mine(c, log[i]) /\ Mine(c, w[j]) => log[i].value <= w[j].value
        /\ \A i \in DOMAIN log : Mine(c, log[i]) => log[i].value <= last[c]
        /\ \A i \in DOMAIN w : Mine(c, w[i]) => w[i].value <= last[c]
        /\ \A p \in Threads : job[p].step = "send" /\ job[p].task = asks[c] => last[c] <= job[p].value
    BY <2>2 DEF Climbs, Rises
  <2>8. CASE c[1] # s
    <3>1. v = w
      BY <1>0, <2>3, <2>8 DEF TypeOK
    <3>2. ~Mine(c, msg)
      BY <1>0, <2>4, <2>8 DEF Traffic, Mine
    <3> HIDE DEF msg, w, v, n
    <3>3. \A i \in DOMAIN log' : Mine(c, log'[i]) => i \in DOMAIN log /\ log'[i] = log[i]
      BY <2>5, <3>2
    <3>4. /\ \A i, j \in DOMAIN log' :
                i < j /\ Mine(c, log'[i]) /\ Mine(c, log'[j]) => log'[i].value <= log'[j].value
          /\ \A i \in DOMAIN log', j \in DOMAIN v :
                Mine(c, log'[i]) /\ Mine(c, v[j]) => log'[i].value <= v[j].value
          /\ \A i \in DOMAIN log' : Mine(c, log'[i]) => log'[i].value <= last[c]
      BY <2>7, <3>1, <3>3
    <3>5. /\ \A i, j \in DOMAIN v : i < j /\ Mine(c, v[i]) /\ Mine(c, v[j]) => v[i].value <= v[j].value
          /\ \A i \in DOMAIN v : Mine(c, v[i]) => v[i].value <= last[c]
      BY <2>7, <3>1
    <3> QED
      BY <2>7, <3>4, <3>5 DEF Climbs, Rises, Mine, v
  <2>9. CASE c[1] = s
    <3>1. /\ v = Tail(w) /\ msg = w[1] /\ 1 \in DOMAIN w
          /\ \A i \in DOMAIN v : i + 1 \in DOMAIN w /\ i + 1 > 1 /\ v[i] = w[i + 1] /\ i \in Nat
      <4>1. v = Tail(w) /\ msg = Head(w) /\ w # <<>>
        BY <1>0, <2>3, <2>9 DEF TypeOK
      <4> HIDE DEF v, msg, w
      <4> QED
        BY <2>3, <4>1, HeadTail DEF w
    <3> HIDE DEF msg, w, v, n
    <3>2. \A i \in DOMAIN log' : (i \in DOMAIN log /\ log'[i] = log[i]) \/ (i = n /\ log'[i] = w[1])
      BY <2>5, <3>1
    <3>3. \A i, j \in DOMAIN log' :
             i < j /\ Mine(c, log'[i]) /\ Mine(c, log'[j]) => log'[i].value <= log'[j].value
      <4> SUFFICES ASSUME NEW i \in DOMAIN log', NEW j \in DOMAIN log', i < j, Mine(c, log'[i]), Mine(c, log'[j])
                   PROVE  log'[i].value <= log'[j].value
        OBVIOUS
      <4>1. i \in DOMAIN log /\ log'[i] = log[i]
        BY <2>5, <3>2
      <4>2. CASE j \in DOMAIN log /\ log'[j] = log[j]
        BY <2>7, <4>1, <4>2
      <4>3. CASE j = n /\ log'[j] = w[1]
        BY <2>7, <3>1, <4>1, <4>3
      <4> QED
        BY <3>2, <4>2, <4>3
    <3>4. \A i, j \in DOMAIN v : i < j /\ Mine(c, v[i]) /\ Mine(c, v[j]) => v[i].value <= v[j].value
      <4> SUFFICES ASSUME NEW i \in DOMAIN v, NEW j \in DOMAIN v, i < j, Mine(c, v[i]), Mine(c, v[j])
                   PROVE  v[i].value <= v[j].value
        OBVIOUS
      <4>1. i + 1 < j + 1 /\ i + 1 \in DOMAIN w /\ j + 1 \in DOMAIN w
        BY <3>1
      <4> QED
        BY <2>7, <3>1, <4>1
    <3>5. \A i \in DOMAIN log', j \in DOMAIN v :
             Mine(c, log'[i]) /\ Mine(c, v[j]) => log'[i].value <= v[j].value
      <4> SUFFICES ASSUME NEW i \in DOMAIN log', NEW j \in DOMAIN v, Mine(c, log'[i]), Mine(c, v[j])
                   PROVE  log'[i].value <= v[j].value
        OBVIOUS
      <4>1. j + 1 \in DOMAIN w /\ 1 < j + 1 /\ v[j] = w[j + 1]
        BY <3>1
      <4> QED
        BY <2>7, <3>1, <3>2, <4>1
    <3>6. /\ \A i \in DOMAIN log' : Mine(c, log'[i]) => log'[i].value <= last[c]
          /\ \A i \in DOMAIN v : Mine(c, v[i]) => v[i].value <= last[c]
      BY <2>7, <3>1, <3>2
    <3> QED
      BY <2>7, <3>3, <3>4, <3>5, <3>6 DEF Climbs, Rises, Mine, v
  <2> QED
    BY <2>8, <2>9
<1> QED
  BY <1>1 DEF Rising

\* A task that one call started, and nobody cancelled, has one thread reporting on it.
LEMMA OneReporter ==
  ASSUME IInv, NEW p \in Threads, NEW q \in Threads, job[p].step # "none", job[q].step # "none",
         job[p].task = job[q].task, Sole(job[p].task)
  PROVE  p = q
<1>0. Reporters /\ Owners /\ Loop \notin Tasks
  BY NamesAssumption DEF IInv
<1>1. /\ p = Loop \/ (job[p].task = p /\ run[p] \in {"running", "final"})
      /\ q = Loop \/ (job[q].task = q /\ run[q] \in {"running", "final"})
      /\ job[p].task \in Tasks
  BY <1>0 DEF Reporters
<1>2. ASSUME NEW r \in Threads, NEW t \in Tasks, job[Loop].step # "none", job[Loop].task = t, run[t] # "none", Sole(t)
      PROVE  FALSE
  <2>1. loop.step = "submit" /\ loop.task = t
    BY <1>0, <1>2 DEF Reporters, Threads, Sole
  <2>2. loop.call \in Calls /\ asks[loop.call] = t
    BY <1>0, <2>1 DEF Owners
  <2>3. \E c \in Calls : asks[c] = t /\ c # loop.call
    BY <1>0, <1>2, <2>1 DEF Reporters
  <2> QED
    BY <1>2, <2>2, <2>3 DEF Sole
<1>3. CASE p = Loop /\ q # Loop
  BY <1>1, <1>2, <1>3
<1>4. CASE q = Loop /\ p # Loop
  BY <1>1, <1>2, <1>4
<1> QED
  BY <1>1, <1>3, <1>4

\* A call's progress is sent: it is not below what was sent before.
LEMMA SendRising ==
  ASSUME IInv, NEW p \in Threads, Send(p)
  PROVE  Rising'
<1>0. Rising /\ TypeOK /\ Reporters
  BY DEF IInv
<1> DEFINE b == job[p].call
           x == job[p].value
           msg == [call |-> b, kind |-> "progress", value |-> x]
<1>1. /\ job[p].step = "send" /\ last' = [last EXCEPT ![b] = x]
      /\ wire' = [wire EXCEPT ![b[1]] = Append(@, msg)]
      /\ job' = [job EXCEPT ![p] = IF job[p].final THEN [@ EXCEPT !.step = "clean"] ELSE NoJob]
      /\ UNCHANGED <<log, asks, cancels>>
  BY DEF Send, stream, tasks
<1>2. job \in [Threads -> Job] /\ job[p] \in Job /\ x \in -1..100
  BY <1>0 DEF TypeOK, Job
<1>3. b \in Calls /\ b[1] \in Sessions /\ asks[b] = job[p].task /\ job[p].task \in Tasks
  BY <1>0, <1>1, CallsAre DEF Reporters
<1>4. msg \in Message
  BY <1>2, <1>3 DEF Message
<1>5. job'[p].step # "send" /\ \A q \in Threads : q # p => job'[q] = job[q]
  BY <1>1, <1>2 DEF NoJob, Job
<1>6. last \in [Calls -> -1..100]
  BY <1>0 DEF TypeOK
<1>7. last'[b] = x /\ \A c \in Calls : c # b => last'[c] = last[c]
  BY <1>1, <1>3, <1>6
<1> HIDE DEF b, x
<1>8. ASSUME NEW c \in Calls, asks'[c] # None, Sole(asks[c])'  PROVE Climbs(c)'
  <2>1. Sole(asks[c]) /\ asks[c] # None
    BY <1>1, <1>8 DEF Sole
  <2>2. Climbs(c)
    BY <1>0, <1>8, <2>1 DEF Rising
  <2> DEFINE w == wire[c[1]]
             v == wire'[c[1]]
  <2>3. w \in Seq(Message) /\ (v = w \/ v = Append(w, msg)) /\ (v = w \/ c[1] = b[1])
    <3>1. c[1] \in Sessions
      BY CallsAre
    <3> HIDE DEF msg
    <3> QED
      BY <1>0, <1>1, <1>3, <3>1 DEF TypeOK
  <2> DEFINE m == Len(w)
  <2>4. /\ DOMAIN w = 1..m /\ m \in Nat
        /\ \A i \in DOMAIN v : (i \in DOMAIN w /\ v[i] = w[i]) \/ (i = m + 1 /\ v[i] = msg)
    BY <2>3
  <2> HIDE DEF m
  <2>5. /\ \A i, j \in DOMAIN log :
              i < j /\ Mine(c, log[i]) /\ Mine(c, log[j]) => log[i].value <= log[j].value
        /\ \A i, j \in DOMAIN w : i < j /\ Mine(c, w[i]) /\ Mine(c, w[j]) => w[i].value <= w[j].value
        /\ \A i \in DOMAIN log, j \in DOMAIN w :
              Mine(c, log[i]) /\ Mine(c, w[j]) => log[i].value <= w[j].value
        /\ \A i \in DOMAIN log : Mine(c, log[i]) => log[i].value <= last[c]
        /\ \A i \in DOMAIN w : Mine(c, w[i]) => w[i].value <= last[c]
        /\ \A q \in Threads : job[q].step = "send" /\ job[q].task = asks[c] => last[c] <= job[q].value
    BY <2>2 DEF Climbs, Rises
  <2>6. \A q \in Threads : job'[q].step = "send" /\ job'[q].task = asks[c] => last'[c] <= job'[q].value
    <3> SUFFICES ASSUME NEW q \in Threads, job'[q].step = "send", job'[q].task = asks[c]
                 PROVE  last'[c] <= job'[q].value
      OBVIOUS
    <3>1. q # p /\ job'[q] = job[q]
      BY <1>5
    <3>2. CASE c = b
      <4>1. job[q].task = job[p].task /\ Sole(job[p].task)
        BY <1>3, <2>1, <3>1, <3>2
      <4> QED
        BY <1>1, <3>1, <4>1, OneReporter
    <3>3. CASE c # b
      BY <1>7, <2>5, <3>1, <3>3
    <3> QED
      BY <3>2, <3>3
  <2>7. CASE c # b
    <3>1. ~Mine(c, msg)
      BY <2>7 DEF Mine
    <3> HIDE DEF msg, v, w
    <3>2. \A i \in DOMAIN v : Mine(c, v[i]) => i \in DOMAIN w /\ v[i] = w[i]
      BY <2>4, <3>1
    <3>3. /\ \A i, j \in DOMAIN v : i < j /\ Mine(c, v[i]) /\ Mine(c, v[j]) => v[i].value <= v[j].value
          /\ \A i \in DOMAIN log', j \in DOMAIN v :
                Mine(c, log'[i]) /\ Mine(c, v[j]) => log'[i].value <= v[j].value
          /\ \A i \in DOMAIN log' : Mine(c, log'[i]) => log'[i].value <= last'[c]
          /\ \A i \in DOMAIN v : Mine(c, v[i]) => v[i].value <= last'[c]
      BY <1>1, <1>7, <2>5, <2>7, <3>2
    <3> QED
      BY <1>1, <2>5, <2>6, <3>3 DEF Climbs, Rises, Mine, v
  <2>8. CASE c = b
    <3>1. last[c] <= x /\ last'[c] = x /\ msg.value = x
      BY <1>1, <1>3, <1>7, <2>5, <2>8 DEF x
    <3>2. /\ \A i \in DOMAIN log : log[i].value \in Int
          /\ \A i \in DOMAIN w : w[i].value \in Int
          /\ last[c] \in Int /\ x \in Int
      <4>1. \A i \in DOMAIN log : log[i] \in Message
        BY <1>0, SeqTypes
      <4>2. \A i \in DOMAIN w : w[i] \in Message
        BY <2>3
      <4>3. \A z \in Message : z.value \in Int
        BY DEF Message
      <4> QED
        BY <1>2, <1>6, <4>1, <4>2, <4>3
    <3> HIDE DEF msg, v, w
    <3>3. /\ \A i \in DOMAIN log' : Mine(c, log'[i]) => log'[i].value <= x
          /\ \A i \in DOMAIN w : Mine(c, w[i]) => w[i].value <= x
          /\ \A i \in DOMAIN v : Mine(c, v[i]) => v[i].value <= x
      BY <1>1, <2>4, <2>5, <3>1, <3>2
    <3>4. \A i, j \in DOMAIN v : i < j /\ Mine(c, v[i]) /\ Mine(c, v[j]) => v[i].value <= v[j].value
      <4> SUFFICES ASSUME NEW i \in DOMAIN v, NEW j \in DOMAIN v, i < j, Mine(c, v[i]), Mine(c, v[j])
                   PROVE  v[i].value <= v[j].value
        OBVIOUS
      <4>1. CASE j = m + 1 /\ v[j] = msg
        BY <3>1, <3>3, <4>1
      <4>2. CASE j \in DOMAIN w /\ v[j] = w[j]
        <5>1. i \in DOMAIN w /\ v[i] = w[i]
          BY <2>4, <4>2
        <5> QED
          BY <2>5, <4>2, <5>1
      <4> QED
        BY <2>4, <4>1, <4>2
    <3>5. \A i \in DOMAIN log', j \in DOMAIN v :
             Mine(c, log'[i]) /\ Mine(c, v[j]) => log'[i].value <= v[j].value
      BY <1>1, <2>4, <2>5, <3>1, <3>3
    <3> QED
      BY <1>1, <2>5, <2>6, <3>1, <3>3, <3>4, <3>5 DEF Climbs, Rises, Mine, v
  <2> QED
    BY <2>7, <2>8
<1> QED
  BY <1>8 DEF Rising

-----------------------------------------------------------------------------
\* The steps of a notification.

\* What a thread with a notification is at.
LEMMA AtWork ==
  ASSUME IInv, NEW p \in Threads, job[p].step # "none"
  PROVE  /\ job \in [Threads -> Job] /\ job[p] \in Job /\ job[p].task \in Tasks
         /\ job[p].value \in -1..100
         /\ \E c \in Calls : asks[c] = job[p].task
         /\ p = Loop \/ (job[p].task = p /\ run[p] \in {"running", "final"})
         /\ p = Loop /\ cancels = 0 => loop.step = "submit" /\ job[p].task = loop.task
         /\ job[p].step = "send" =>
               job[p].call \in Calls /\ asks[job[p].call] = job[p].task /\ ~Waiting(job[p].call)
<1>1. job \in [Threads -> Job] /\ job[p] \in Job
  BY DEF IInv, TypeOK
<1>2. job[p].value \in -1..100
  BY <1>1 DEF Job
<1> QED
  BY <1>1, <1>2 DEF IInv, Reporters

\* The notifications of the other threads are as before.
LEMMA OtherJobs ==
  ASSUME TypeOK, NEW p \in Threads, NEW j \in Job, job' = [job EXCEPT ![p] = j]
  PROVE  job' \in [Threads -> Job] /\ job'[p] = j /\ \A q \in Threads : q # p => job'[q] = job[q]
BY DEF TypeOK

LEMMA NoJobIs == NoJob \in Job /\ NoJob.step = "none"
BY DEF NoJob, Job

\* Which messages a call has had, when nothing is routed.
LEMMA TrafficKept ==
  ASSUME TypeOK, Traffic, log' = log,
         \A d \in Calls :
            /\ call[d] # "unused" => call'[d] # "unused"
            /\ call'[d] = "posted" \/ Waiting(d)' => call[d] = "posted" \/ Waiting(d)
            /\ call[d] \in {"handled", "answered"} /\ ~Waiting(d) =>
                  call'[d] \in {"handled", "answered"} /\ ~Waiting(d)',
         \A s \in Sessions : \/ wire'[s] = wire[s]
                             \/ \E msg \in Message :
                                   /\ wire'[s] = Append(wire[s], msg)
                                   /\ msg.call[1] = s /\ msg.kind # "priming" /\ ~Waiting(msg.call)'
                                   /\ call'[msg.call] \in {"handled", "answered"}
  PROVE  Traffic'
<1>1. \A i \in DOMAIN log : log[i].call \in Calls
  BY SeqTypes
<1>2. \A i \in DOMAIN log :
          /\ call'[log[i].call] # "unused"
          /\ call'[log[i].call] = "posted" \/ Waiting(log[i].call)' => log[i].kind = "priming"
  BY <1>1 DEF Traffic
<1>3. \A i, j \in DOMAIN log : log[j].call = log[i].call /\ log[j].kind = "priming" => j <= i
  BY DEF Traffic
<1> DEFINE Fits(s, msg) == /\ msg.call[1] = s /\ msg.kind # "priming"
                           /\ ~(loop'.step = "register" /\ loop'.call = msg.call)
                           /\ call'[msg.call] \in {"handled", "answered"}
<1>4. ASSUME NEW s \in Sessions, NEW i \in DOMAIN wire'[s]
      PROVE  Fits(s, wire'[s][i])
  <2>1. /\ wire[s] \in Seq(Message) /\ \A j \in DOMAIN wire[s] : wire[s][j].call \in Calls
    BY SeqTypes
  <2>2. \A j \in DOMAIN wire[s] : Fits(s, wire[s][j])
    <3> SUFFICES ASSUME NEW j \in DOMAIN wire[s]  PROVE Fits(s, wire[s][j])
      OBVIOUS
    <3>1. PICK msg : msg = wire[s][j]
      OBVIOUS
    <3>2. /\ msg.call \in Calls /\ msg.call[1] = s /\ msg.kind # "priming" /\ ~Waiting(msg.call)
          /\ call[msg.call] \in {"handled", "answered"}
      BY <2>1, <3>1 DEF Traffic
    <3>3. call'[msg.call] \in {"handled", "answered"} /\ ~Waiting(msg.call)'
      BY <3>2
    <3> QED
      BY <3>1, <3>2, <3>3 DEF Waiting
  <2>3. CASE wire'[s] = wire[s]
    BY <1>4, <2>2, <2>3
  <2>4. ASSUME NEW msg \in Message, wire'[s] = Append(wire[s], msg), Fits(s, msg)
        PROVE  Fits(s, wire'[s][i])
    <3>1. (i \in DOMAIN wire[s] /\ wire'[s][i] = wire[s][i]) \/ wire'[s][i] = msg
      BY <1>4, <2>1, <2>4
    <3> QED
      BY <2>2, <2>4, <3>1
  <2> QED
    BY <2>3, <2>4 DEF Waiting
<1> QED
  BY <1>2, <1>3, <1>4 DEF Traffic, Waiting

LEMMA ReadStep ==
  ASSUME IInv, NEW p \in Threads, Read(p)
  PROVE  IInv'
<1> DEFINE t == job[p].task
           c == bridges[t]
           high == IF job[p].value < last[c] THEN last[c] ELSE job[p].value
           sent == [job[p] EXCEPT !.step = "send", !.call = c, !.value = high]
<1>0. TypeOK /\ Owners /\ Reporters /\ Traffic /\ Rising
  BY DEF IInv
<1>1. /\ job[p].step = "read"
      /\ UNCHANGED <<now, log, events, open, resuming, replay, seen, late, drops, maps, bridges, last, percent, run, asks,
                     cancels, loop, call, wire>>
      /\ \/ c # None /\ job' = [job EXCEPT ![p] = sent]
         \/ job' = [job EXCEPT ![p] = NoJob]
  <2>1. job \in [Threads -> Job]
    BY <1>0 DEF TypeOK
  <2>2. [job EXCEPT ![p].step = "send", ![p].call = c, ![p].value = high] = [job EXCEPT ![p] = sent]
    BY <2>1
  <2> QED
    BY <2>2 DEF Read, stream, bridge, tasks
<1>2. /\ job[p] \in Job /\ t \in Tasks /\ job[p].value \in -1..100
      /\ \E d \in Calls : asks[d] = t
      /\ p = Loop \/ (t = p /\ run[p] \in {"running", "final"})
      /\ p = Loop /\ cancels = 0 => loop.step = "submit" /\ t = loop.task
  BY <1>1, AtWork
<1>3. c # None => c \in Calls /\ asks[c] = t /\ ~Waiting(c)
  BY <1>0, <1>2 DEF TypeOK, Owners
<1>4. c # None => high \in -1..100 /\ last[c] <= high /\ last[c] \in -1..100
  <2> HIDE DEF c, t
  <2>1. last \in [Calls -> -1..100]
    BY <1>0 DEF TypeOK
  <2> SUFFICES ASSUME c # None  PROVE high \in -1..100 /\ last[c] <= high /\ last[c] \in -1..100
    OBVIOUS
  <2>2. last[c] \in -1..100 /\ job[p].value \in -1..100
    BY <1>2, <1>3, <2>1
  <2>3. \A x, y \in -1..100 : /\ (IF x < y THEN y ELSE x) \in -1..100
                              /\ y <= (IF x < y THEN y ELSE x)
    OBVIOUS
  <2> QED
    BY <2>2, <2>3
<1>5. /\ sent.step = "send" /\ sent.task = t /\ sent.call = c /\ sent.value = high
      /\ c # None => sent \in Job
  BY <1>2, <1>3, <1>4 DEF Job
<1> HIDE DEF sent, high, c, t
<1>6. /\ job' \in [Threads -> Job] /\ \A q \in Threads : q # p => job'[q] = job[q]
      /\ (c # None /\ job'[p] = sent) \/ job'[p].step = "none"
  <2>1. CASE c # None /\ job' = [job EXCEPT ![p] = sent]
    BY <1>0, <1>5, <2>1, OtherJobs
  <2>2. CASE job' = [job EXCEPT ![p] = NoJob]
    BY <1>0, <2>2, OtherJobs, NoJobIs
  <2> QED
    BY <1>1, <2>1, <2>2
<1>7. TypeOK'
  BY <1>0, <1>1, <1>6 DEF TypeOK
<1>8. Owners' /\ Traffic'
  BY <1>0, <1>1 DEF Owners, Traffic, Waiting
<1>9. Reporters'
  <2>1. \A q \in Threads : job'[q].step # "none" =>
          /\ job'[q].task \in Tasks /\ \E d \in Calls : asks[d] = job'[q].task
          /\ q = Loop \/ (job'[q].task = q /\ run[q] \in {"running", "final"})
          /\ q = Loop /\ cancels = 0 => loop.step = "submit" /\ job'[q].task = loop.task
          /\ job'[q].step = "send" =>
                job'[q].call \in Calls /\ asks[job'[q].call] = job'[q].task /\ ~Waiting(job'[q].call)
    BY <1>0, <1>2, <1>3, <1>5, <1>6 DEF Reporters
  <2> QED
    BY <1>0, <1>1, <2>1 DEF Reporters, Waiting
<1>10. Store' /\ Complete' /\ Connections' /\ Received' /\ Resumes'
  BY <1>0, <1>1, QuietStream DEF TypeOK, Mapped
<1>11. Rising'
  <2> SUFFICES ASSUME NEW d \in Calls, asks[d] # None, Sole(asks[d])  PROVE Climbs(d)'
    BY <1>1 DEF Rising, Sole
  <2>1. Climbs(d)
    BY <1>0 DEF Rising
  <2>2. \A q \in Threads : job'[q].step = "send" /\ job'[q].task = asks[d] => last[d] <= job'[q].value
    <3> SUFFICES ASSUME NEW q \in Threads, job'[q].step = "send", job'[q].task = asks[d]
                 PROVE  last[d] <= job'[q].value
      OBVIOUS
    <3>1. CASE q # p
      BY <1>6, <2>1, <3>1 DEF Climbs
    <3>2. CASE q = p
      <4>1. c # None /\ c = d
        BY <1>3, <1>5, <1>6, <3>2 DEF Sole
      <4> QED
        BY <1>4, <1>5, <1>6, <3>2, <4>1
    <3> QED
      BY <3>1, <3>2
  <2> QED
    BY <1>1, <2>1, <2>2 DEF Climbs, Rises, Mine
<1> QED
  BY <1>7, <1>8, <1>9, <1>10, <1>11 DEF IInv

LEMMA SendStep ==
  ASSUME IInv, NEW p \in Threads, Send(p)
  PROVE  IInv'
<1> DEFINE t == job[p].task
           c == job[p].call
           msg == [call |-> c, kind |-> "progress", value |-> job[p].value]
           left == IF job[p].final THEN [job[p] EXCEPT !.step = "clean"] ELSE NoJob
<1>0. TypeOK /\ Owners /\ Reporters /\ Traffic
  BY DEF IInv
<1>1. /\ job[p].step = "send"
      /\ UNCHANGED <<now, log, events, open, resuming, replay, seen, late, drops, maps, bridges, percent, run, asks,
                     cancels, loop, call>>
      /\ last' = [last EXCEPT ![c] = job[p].value]
      /\ wire' = [wire EXCEPT ![c[1]] = Append(@, msg)]
      /\ job' = [job EXCEPT ![p] = left]
  BY DEF Send, stream, tasks
<1>2. /\ job[p] \in Job /\ t \in Tasks /\ job[p].value \in -1..100
      /\ c \in Calls /\ asks[c] = t /\ ~Waiting(c)
      /\ p = Loop \/ (t = p /\ run[p] \in {"running", "final"})
      /\ p = Loop /\ cancels = 0 => loop.step = "submit" /\ t = loop.task
  BY <1>1, AtWork
<1>3. msg \in Message /\ msg.call = c /\ msg.kind = "progress"
  BY <1>2 DEF Message
<1>4. /\ left \in Job /\ left.step # "send"
      /\ left.step # "none" => left.task = t
  BY <1>2, NoJobIs DEF Job
<1>5. c[1] \in Sessions /\ t # None /\ call[c] \in {"handled", "answered"}
  <2>1. call[c] \in {"unused", "posted", "handled", "answered"} /\ t # None
    BY <1>0, <1>2, NamesAssumption DEF TypeOK
  <2> QED
    BY <1>0, <1>2, <2>1, CallsAre DEF Owners
<1>6. last' \in [Calls -> -1..100]
  <2>1. last \in [Calls -> -1..100]
    BY <1>0 DEF TypeOK
  <2> QED
    BY <1>1, <1>2, <2>1
<1> HIDE DEF msg, left, c, t
<1>7. job' \in [Threads -> Job] /\ job'[p] = left /\ \A q \in Threads : q # p => job'[q] = job[q]
  BY <1>0, <1>1, <1>4, OtherJobs
<1>8. wire' \in [Sessions -> Seq(Message)]
      /\ \A s \in Sessions : wire'[s] = wire[s] \/ (s = c[1] /\ wire'[s] = Append(wire[s], msg))
  <2>1. wire \in [Sessions -> Seq(Message)]
    BY <1>0 DEF TypeOK
  <2>2. Append(wire[c[1]], msg) \in Seq(Message)
    BY <1>3, <1>5, <2>1
  <2> QED
    BY <1>1, <2>1, <2>2
<1>9. TypeOK'
  BY <1>0, <1>1, <1>6, <1>7, <1>8 DEF TypeOK
<1>10. Owners'
  BY <1>0, <1>1 DEF Owners, Waiting
<1>11. Traffic'
  <2>1. \A s \in Sessions : \/ wire'[s] = wire[s]
                            \/ \E m \in Message :
                                   /\ wire'[s] = Append(wire[s], m)
                                   /\ m.call[1] = s /\ m.kind # "priming" /\ ~Waiting(m.call)'
                                   /\ call'[m.call] \in {"handled", "answered"}
    BY <1>1, <1>2, <1>3, <1>5, <1>8 DEF Waiting
  <2> QED
    BY <1>0, <1>1, <2>1, TrafficKept DEF Waiting
<1>12. Reporters'
  <2>1. \A q \in Threads : job'[q].step # "none" =>
          /\ job'[q].task \in Tasks /\ \E d \in Calls : asks[d] = job'[q].task
          /\ q = Loop \/ (job'[q].task = q /\ run[q] \in {"running", "final"})
          /\ q = Loop /\ cancels = 0 => loop.step = "submit" /\ job'[q].task = loop.task
          /\ job'[q].step = "send" =>
                job'[q].call \in Calls /\ asks[job'[q].call] = job'[q].task /\ ~Waiting(job'[q].call)
    BY <1>0, <1>2, <1>4, <1>7 DEF Reporters
  <2> QED
    BY <1>0, <1>1, <2>1 DEF Reporters, Waiting
<1>13. Store' /\ Complete' /\ Connections' /\ Received' /\ Resumes'
  BY <1>0, <1>1, QuietStream DEF TypeOK, Mapped
<1>14. Rising'
  BY SendRising
<1> QED
  BY <1>9, <1>10, <1>11, <1>12, <1>13, <1>14 DEF IInv

\* The mappings are refreshed, or some of them are dropped.
LEMMA Refreshed ==
  ASSUME TypeOK, NEW t, NEW q, \E m \in Mapped(maps, q) : m.task = t,
         maps' = LET m == CHOOSE m \in Mapped(maps, q) : TRUE
                 IN Newest(Fresh(Remap(maps, [m EXCEPT !.at = now])), MaxMappings)
  PROVE  /\ maps' \in Seq(Mapping) /\ Len(maps') <= MaxMappings
         /\ \A m \in Range(maps') : \E o \in Range(maps) :
               m.request = o.request /\ m.task = o.task /\ m.session = o.session
<1> DEFINE m == CHOOSE m \in Mapped(maps, q) : TRUE
           r == [m EXCEPT !.at = now]
<1>1. m \in Range(maps)
  BY DEF Mapped
<1>2. m \in Mapping /\ now \in 0..MaxFaults /\ maps \in Seq(Mapping)
  BY <1>1, SeqTypes DEF TypeOK
<1>3. maps' = Newest(Fresh(Remap(maps, r)), MaxMappings)
  OBVIOUS
<1> HIDE DEF m
<1>4. r \in Mapping /\ r.request = m.request /\ r.task = m.task /\ r.session = m.session
  BY <1>2 DEF Mapping
<1> HIDE DEF r
<1>5. /\ Remap(maps, r) \in Seq(Mapping)
      /\ Range(Remap(maps, r)) = {x \in Range(maps) : x.request # r.request} \cup {r}
  BY <1>2, <1>4, RemapIs
<1>6. /\ maps' \in Seq(Mapping) /\ Len(maps') <= MaxMappings
      /\ Range(maps') \subseteq Range(Remap(maps, r))
  BY <1>3, <1>5, NewestMaps
<1>7. \A x \in Range(Remap(maps, r)) : x \in Range(maps) \/ x = r
  BY <1>5
<1> QED
  BY <1>1, <1>4, <1>6, <1>7

LEMMA CleanStep ==
  ASSUME IInv, NEW p \in Threads, Clean(p)
  PROVE  IInv'
<1> DEFINE t == job[p].task
           c == bridges[t]
<1>0. TypeOK /\ Owners /\ Reporters /\ Traffic /\ Rising
  BY DEF IInv
<1>1. /\ job[p].step = "clean"
      /\ UNCHANGED <<now, log, events, open, resuming, replay, seen, late, drops, last, percent, run, asks,
                     cancels, loop, call, wire>>
      /\ bridges' = [bridges EXCEPT ![t] = None]
      /\ job' = [job EXCEPT ![p] = NoJob]
  BY DEF Clean, stream, tasks
<1>2. /\ maps' \in Seq(Mapping) /\ Len(maps') <= MaxMappings + 1
      /\ \A m \in Range(maps') : \E o \in Range(maps) :
            m.request = o.request /\ m.task = o.task /\ m.session = o.session
  <2>0. MaxMappings \in Nat
    BY BoundsAssumption
  <2>1. CASE c # None /\ \E m \in Mapped(maps, c[2]) : m.task = t
    <3>1. /\ \E m \in Mapped(maps, c[2]) : m.task = t
          /\ maps' = LET m == CHOOSE m \in Mapped(maps, c[2]) : TRUE
                     IN Newest(Fresh(Remap(maps, [m EXCEPT !.at = now])), MaxMappings)
      BY <2>1 DEF Clean
    <3> HIDE DEF c, t
    <3>2. /\ maps' \in Seq(Mapping) /\ Len(maps') <= MaxMappings
          /\ \A m \in Range(maps') : \E o \in Range(maps) :
                m.request = o.request /\ m.task = o.task /\ m.session = o.session
      BY <1>0, <3>1, Refreshed
    <3> QED
      BY <2>0, <3>2
  <2>2. CASE ~(c # None /\ \E m \in Mapped(maps, c[2]) : m.task = t)
    <3>1. maps' = maps
      BY <2>2 DEF Clean
    <3> QED
      BY <1>0, <3>1 DEF TypeOK
  <2> QED
    BY <2>1, <2>2
<1>3. t \in Tasks
  BY <1>1, AtWork
<1> HIDE DEF c, t
<1>4. /\ job' \in [Threads -> Job] /\ job'[p].step = "none"
      /\ \A q \in Threads : q # p => job'[q] = job[q]
  BY <1>0, <1>1, NoJobIs, OtherJobs
<1>5. bridges' \in [Tasks -> Calls \cup {None}] /\ \A u \in Tasks : bridges'[u] # None => bridges'[u] = bridges[u]
  BY <1>0, <1>1, <1>3 DEF TypeOK
<1>6. TypeOK'
  BY <1>0, <1>1, <1>2, <1>4, <1>5 DEF TypeOK
<1>7. Owners'
  <2>1. \A m \in Range(maps') :
           asks[<<m.session, m.request>>] = m.task /\ ~Waiting(<<m.session, m.request>>)
    <3> SUFFICES ASSUME NEW m \in Range(maps')
                 PROVE  asks[<<m.session, m.request>>] = m.task /\ ~Waiting(<<m.session, m.request>>)
      OBVIOUS
    <3>1. PICK o \in Range(maps) : m.request = o.request /\ m.task = o.task /\ m.session = o.session
      BY <1>2
    <3>2. asks[<<o.session, o.request>>] = o.task /\ ~Waiting(<<o.session, o.request>>)
      BY <1>0 DEF Owners
    <3> QED
      BY <3>1, <3>2
  <2>2. \A u \in Tasks : bridges'[u] # None => asks[bridges'[u]] = u /\ ~Waiting(bridges'[u])
    BY <1>0, <1>5 DEF Owners
  <2> QED
    BY <1>0, <1>1, <2>1, <2>2 DEF Owners, Waiting
<1>8. Traffic'
  BY <1>0, <1>1 DEF Traffic, Waiting
<1>9. Reporters'
  BY <1>0, <1>1, <1>4 DEF Reporters, Waiting
<1>10. \A q : Mapped(maps', q) # {} => Mapped(maps, q) # {}
  BY <1>2 DEF Mapped
<1>11. Store' /\ Complete' /\ Connections' /\ Received' /\ Resumes'
  <2>1. now \in Nat /\ now' = now /\ now' >= now
    BY <1>0, <1>1 DEF TypeOK
  <2>2. \A d \in Calls : Mapped(maps', d[2]) # {} => Mapped(maps, d[2]) # {}
    BY <1>10
  <2> QED
    BY <1>1, <2>1, <2>2, QuietStream
<1>12. Rising'
  BY <1>1, <1>4, QuietRising
<1> QED
  BY <1>6, <1>7, <1>8, <1>9, <1>11, <1>12 DEF IInv

-----------------------------------------------------------------------------
\* The executor thread of a task.

LEMMA EmitIs ==
  ASSUME TypeOK, NEW p \in Threads, NEW t \in Tasks, NEW value \in -1..100, NEW forced \in BOOLEAN,
         Emit(p, t, value, forced)
  PROVE  /\ job' \in [Threads -> Job] /\ job'[p].step = "read" /\ job'[p].task = t
         /\ \A q \in Threads : q # p => job'[q] = job[q]
<1> DEFINE j == [step |-> "read", task |-> t, call |-> None, value |-> value,
                 forced |-> forced, final |-> value = 100]
<1>1. j \in Job /\ j.step = "read" /\ j.task = t /\ job' = [job EXCEPT ![p] = j]
  BY DEF Job, Emit
<1> HIDE DEF j
<1> QED
  BY <1>1, OtherJobs

LEMMA TaskThreads == Tasks \subseteq Threads /\ Loop \in Threads /\ Loop \notin Tasks
BY NamesAssumption DEF Threads

\* The thread of task t works on, in state x of the run, and may report y.
LEMMA ExecutorStep ==
  ASSUME IInv, NEW t \in Tasks, NEW x \in {"running", "final", "done"},
         run[t] \in {"queued", "running", "final"}, Free(t),
         run' = [run EXCEPT ![t] = x], percent' \in [Tasks -> Percents \cup {-1}],
         \A u \in Tasks : percent'[u] = percent[u] \/ (u = t /\ percent'[u] # -1),
         \/ x # "done" /\ \E value \in -1..100, forced \in BOOLEAN : Emit(t, t, value, forced)
         \/ job' = job,
         UNCHANGED <<now, stream, maps, bridge, asks, cancels, loop, call, wire>>
  PROVE  IInv'
<1>0. TypeOK /\ Owners /\ Reporters /\ Traffic
  BY DEF IInv
<1>1. UNCHANGED <<now, log, events, open, resuming, replay, seen, late, drops, maps, bridges, last, asks, cancels, loop, call, wire>>
  BY DEF stream, bridge
<1>2. t \in Threads /\ t # Loop
  BY TaskThreads
<1>3. /\ job' \in [Threads -> Job] /\ \A q \in Threads : q # t => job'[q] = job[q]
      /\ job'[t].step = "none" \/ (x # "done" /\ job'[t].step = "read" /\ job'[t].task = t)
  <2>1. CASE x # "done" /\ \E value \in -1..100, forced \in BOOLEAN : Emit(t, t, value, forced)
    BY <1>0, <1>2, <2>1, EmitIs
  <2>2. CASE job' = job
    BY <1>0, <2>2 DEF TypeOK, Free
  <2> QED
    BY <2>1, <2>2
<1>4. run' \in [Tasks -> {"none", "queued", "running", "final", "done", "dropped"}]
      /\ run'[t] = x /\ \A u \in Tasks : u # t => run'[u] = run[u]
  BY <1>0 DEF TypeOK
<1>5. \E c \in Calls : asks[c] = t /\ ~(loop.step \in {"register", "submit"} /\ loop.call = c)
  BY <1>0 DEF Reporters
<1>6. TypeOK'
  BY <1>0, <1>1, <1>3, <1>4 DEF TypeOK
<1>7. Owners'
  <2>1. \A u \in Tasks : percent'[u] # -1 <=> \E c \in Calls : asks[c] = u
    BY <1>0, <1>5 DEF Owners
  <2>2. loop.step # "none" => loop.task \in Tasks /\ percent'[loop.task] # -1
    BY <1>0 DEF Owners
  <2> QED
    BY <1>0, <1>1, <2>1, <2>2 DEF Owners, Waiting
<1>8. Traffic'
  BY <1>0, <1>1 DEF Traffic, Waiting
<1>9. Reporters'
  <2>1. \A p \in Threads : job'[p].step # "none" =>
          /\ job'[p].task \in Tasks /\ \E c \in Calls : asks[c] = job'[p].task
          /\ p = Loop \/ (job'[p].task = p /\ run'[p] \in {"running", "final"})
          /\ p = Loop /\ cancels = 0 => loop.step = "submit" /\ job'[p].task = loop.task
          /\ job'[p].step = "send" =>
                job'[p].call \in Calls /\ asks[job'[p].call] = job'[p].task /\ ~Waiting(job'[p].call)
    <3> SUFFICES ASSUME NEW p \in Threads, job'[p].step # "none"
                 PROVE  /\ job'[p].task \in Tasks /\ \E c \in Calls : asks[c] = job'[p].task
                        /\ p = Loop \/ (job'[p].task = p /\ run'[p] \in {"running", "final"})
                        /\ p = Loop /\ cancels = 0 => loop.step = "submit" /\ job'[p].task = loop.task
                        /\ job'[p].step = "send" =>
                              job'[p].call \in Calls /\ asks[job'[p].call] = job'[p].task
                              /\ ~Waiting(job'[p].call)
      OBVIOUS
    <3>1. CASE p = t
      BY <1>2, <1>3, <1>4, <1>5, <3>1
    <3>2. CASE p # t
      <4>1. p \in Tasks \/ p = Loop
        BY DEF Threads
      <4> QED
        BY <1>0, <1>3, <1>4, <3>2, <4>1 DEF Reporters
    <3> QED
      BY <3>1, <3>2
  <2>2. \A u \in Tasks : run'[u] # "none" =>
          \E c \in Calls : asks[c] = u /\ ~(loop.step \in {"register", "submit"} /\ loop.call = c)
    BY <1>0, <1>4, <1>5 DEF Reporters
  <2> QED
    BY <1>1, <2>1, <2>2 DEF Reporters, Waiting
<1>10. Store' /\ Complete' /\ Connections' /\ Received' /\ Resumes'
  BY <1>0, <1>1, QuietStream DEF TypeOK, Mapped
<1>11. Rising'
  BY <1>1, <1>3, QuietRising
<1> QED
  BY <1>6, <1>7, <1>8, <1>9, <1>10, <1>11 DEF IInv

LEMMA ThreadStep ==
  ASSUME IInv, NEW t \in Tasks, Begin(t) \/ Finish(t) \/ Retire(t)
  PROVE  IInv'
<1>0. percent \in [Tasks -> Percents \cup {-1}] /\ 25 \in Percents /\ 100 \in Percents
  BY DEF IInv, TypeOK, Percents
<1>1. CASE Begin(t)
  <2>1. run[t] = "queued" /\ Free(t) /\ run' = [run EXCEPT ![t] = "running"]
        /\ percent' = [percent EXCEPT ![t] = 25] /\ Emit(t, t, 25, FALSE)
        /\ UNCHANGED <<now, stream, maps, bridge, asks, cancels, loop, call, wire>>
    BY <1>1 DEF Begin
  <2>2. /\ percent' \in [Tasks -> Percents \cup {-1}]
        /\ \A u \in Tasks : percent'[u] = percent[u] \/ (u = t /\ percent'[u] # -1)
    BY <1>0, <2>1
  <2>3. \E value \in -1..100, forced \in BOOLEAN : Emit(t, t, value, forced)
    <3>1. 25 \in -1..100
      OBVIOUS
    <3> QED
      BY <2>1, <3>1
  <2> QED
    BY <2>1, <2>2, <2>3, ExecutorStep
<1>2. CASE Finish(t)
  <2>1. run[t] = "running" /\ Free(t) /\ run' = [run EXCEPT ![t] = "final"]
        /\ percent' = [percent EXCEPT ![t] = 100] /\ Emit(t, t, 100, TRUE)
        /\ UNCHANGED <<now, stream, maps, bridge, asks, cancels, loop, call, wire>>
    BY <1>2 DEF Finish
  <2>2. /\ percent' \in [Tasks -> Percents \cup {-1}]
        /\ \A u \in Tasks : percent'[u] = percent[u] \/ (u = t /\ percent'[u] # -1)
    BY <1>0, <2>1
  <2>3. \E value \in -1..100, forced \in BOOLEAN : Emit(t, t, value, forced)
    <3>1. 100 \in -1..100
      OBVIOUS
    <3> QED
      BY <2>1, <3>1
  <2> QED
    BY <2>1, <2>2, <2>3, ExecutorStep
<1>3. CASE Retire(t)
  <2>1. run[t] = "final" /\ Free(t) /\ run' = [run EXCEPT ![t] = "done"]
        /\ percent' = percent /\ job' = job
        /\ UNCHANGED <<now, stream, maps, bridge, asks, cancels, loop, call, wire>>
    BY <1>3 DEF Retire
  <2> QED
    BY <1>0, <2>1, ExecutorStep
<1> QED
  BY <1>1, <1>2, <1>3

-----------------------------------------------------------------------------
\* The event loop's requests.

\* A message is put on the wire.
LEMMA WireIs ==
  ASSUME TypeOK, NEW c \in Calls, NEW msg \in Message, msg.call = c,
         wire' = [wire EXCEPT ![c[1]] = Append(@, msg)]
  PROVE  /\ wire' \in [Sessions -> Seq(Message)]
         /\ \A s \in Sessions : wire'[s] = wire[s] \/ (s = c[1] /\ wire'[s] = Append(wire[s], msg))
<1>1. wire \in [Sessions -> Seq(Message)] /\ c[1] \in Sessions
  BY CallsAre DEF TypeOK
<1>2. Append(wire[c[1]], msg) \in Seq(Message)
  BY <1>1
<1> QED
  BY <1>1, <1>2

LEMMA ReplyIs ==
  ASSUME NEW c \in Calls
  PROVE  LET msg == [call |-> c, kind |-> "reply", value |-> 0]
         IN msg \in Message /\ msg.call = c /\ msg.kind = "reply"
BY DEF Message

\* A call that is answered, now or once its run is submitted.
LEMMA CallIs ==
  ASSUME TypeOK, NEW c \in Calls, NEW x \in {"unused", "posted", "handled", "answered"},
         call' = [call EXCEPT ![c] = x]
  PROVE  /\ call' \in [Calls -> {"unused", "posted", "handled", "answered"}]
         /\ call'[c] = x /\ \A d \in Calls : d # c => call'[d] = call[d]
BY DEF TypeOK

LEMMA NoLoopJob ==
  ASSUME IInv, Free(Loop), NEW q \in Threads, job[q].step # "none"
  PROVE  q \in Tasks /\ job[q].task = q /\ run[q] \in {"running", "final"}
BY DEF IInv, Reporters, Free, Threads

LEMMA ToolStep ==
  ASSUME IInv, NEW c \in Calls, Tool(c)
  PROVE  IInv'
<1> DEFINE msg == [call |-> c, kind |-> "reply", value |-> 0]
<1>0. TypeOK /\ Owners /\ Reporters /\ Traffic
  BY DEF IInv
<1>1. /\ LoopAt("none") /\ call[c] = "posted"
      /\ wire' = [wire EXCEPT ![c[1]] = Append(@, msg)]
      /\ call' = [call EXCEPT ![c] = "handled"]
      /\ UNCHANGED <<now, log, events, open, resuming, replay, seen, late, drops, maps, bridges, last, percent, run,
                     asks, cancels, job, loop>>
  BY DEF Tool, stream, bridge, tasks
<1>2. msg \in Message /\ msg.call = c /\ msg.kind = "reply"
  BY ReplyIs
<1> HIDE DEF msg
<1>3. /\ wire' \in [Sessions -> Seq(Message)]
      /\ \A s \in Sessions : wire'[s] = wire[s] \/ (s = c[1] /\ wire'[s] = Append(wire[s], msg))
  BY <1>0, <1>1, <1>2, WireIs
<1>4. /\ call' \in [Calls -> {"unused", "posted", "handled", "answered"}]
      /\ call'[c] = "handled" /\ \A d \in Calls : d # c => call'[d] = call[d]
  BY <1>0, <1>1, CallIs
<1>5. ~Waiting(c) /\ ~Waiting(c)'
  BY <1>1 DEF LoopAt, Waiting
<1>6. TypeOK'
  BY <1>0, <1>1, <1>3, <1>4 DEF TypeOK
<1>7. Owners'
  <2>1. \A d \in Calls : call'[d] \in {"unused", "posted"} => asks[d] = None
    BY <1>0, <1>4 DEF Owners
  <2> QED
    BY <1>0, <1>1, <2>1 DEF Owners, Waiting
<1>8. Traffic'
  <2>1. \A s \in Sessions : \/ wire'[s] = wire[s]
                            \/ \E m \in Message :
                                   /\ wire'[s] = Append(wire[s], m)
                                   /\ m.call[1] = s /\ m.kind # "priming" /\ ~Waiting(m.call)'
                                   /\ call'[m.call] \in {"handled", "answered"}
    BY <1>2, <1>3, <1>4, <1>5
  <2>2. \A d \in Calls : Waiting(d)' <=> Waiting(d)
    BY <1>1 DEF Waiting
  <2> QED
    BY <1>0, <1>1, <1>4, <2>1, <2>2, TrafficKept
<1>9. Reporters'
  BY <1>0, <1>1 DEF Reporters, Waiting
<1>10. Store' /\ Complete' /\ Connections' /\ Received' /\ Resumes'
  BY <1>0, <1>1, <1>4, QuietStream DEF TypeOK, Mapped
<1>11. Rising'
  <2>1. msg.kind # "progress"
    BY <1>2
  <2> QED
    BY <1>1, <1>2, <2>1, ReplyRising
<1> QED
  BY <1>6, <1>7, <1>8, <1>9, <1>10, <1>11 DEF IInv

\* The record that a new call reads, or writes, is its task's.
LEMMA StartStep ==
  ASSUME IInv, NEW c \in Calls, NEW t \in Tasks, Start(c, t)
  PROVE  IInv'
<1>0. TypeOK /\ Owners /\ Reporters /\ Traffic /\ Rising /\ t # None
  BY NamesAssumption DEF IInv
<1>1. /\ loop.step = "none" /\ Free(Loop) /\ call[c] = "posted"
      /\ percent' = [percent EXCEPT ![t] = IF @ = -1 THEN 0 ELSE @]
      /\ loop' = [step |-> "register", call |-> c, task |-> t, value |-> percent'[t]]
      /\ call' = [call EXCEPT ![c] = "handled"]
      /\ asks' = [asks EXCEPT ![c] = t]
      /\ UNCHANGED <<now, log, events, open, resuming, replay, seen, late, drops, maps, bridges, last, run, cancels, job, wire>>
  BY DEF Start, LoopAt, stream, bridge
<1>2. asks[c] = None
  BY <1>0, <1>1 DEF Owners
<1>3. /\ call' \in [Calls -> {"unused", "posted", "handled", "answered"}]
      /\ call'[c] = "handled" /\ \A d \in Calls : d # c => call'[d] = call[d]
  BY <1>0, <1>1, CallIs
<1>4. /\ asks' \in [Calls -> Tasks \cup {None}] /\ asks'[c] = t
      /\ \A d \in Calls : d # c => asks'[d] = asks[d]
      /\ \A d \in Calls : asks[d] # None => d # c /\ asks'[d] = asks[d]
  BY <1>0, <1>1, <1>2 DEF TypeOK
<1>5. /\ percent' \in [Tasks -> Percents \cup {-1}] /\ percent'[t] \in Percents
      /\ percent'[t] # -1 /\ \A u \in Tasks : u # t => percent'[u] = percent[u]
  <2>1. percent \in [Tasks -> Percents \cup {-1}] /\ Percents = {0, 25, 100}
    BY <1>0 DEF TypeOK, Percents
  <2>2. percent[t] \in {0, 25, 100} \/ percent[t] = -1
    BY <2>1
  <2>3. percent'[t] = IF percent[t] = -1 THEN 0 ELSE percent[t]
    BY <1>1, <2>1
  <2>4. percent'[t] \in {0, 25, 100} /\ percent'[t] # -1
    BY <2>2, <2>3
  <2>5. (IF percent[t] = -1 THEN 0 ELSE percent[t]) \in Percents
    BY <2>1, <2>3, <2>4
  <2> QED
    BY <1>1, <2>1, <2>3, <2>4, <2>5
<1>6. /\ loop' \in Op /\ loop'.step = "register" /\ loop'.call = c /\ loop'.task = t
      /\ \A d : ~Waiting(d) /\ (d # c => ~Waiting(d)')
  BY <1>1, <1>5 DEF Op, Waiting
<1>7. TypeOK'
  BY <1>0, <1>1, <1>3, <1>4, <1>5, <1>6 DEF TypeOK
<1>8. Owners'
  <2>1. \A d \in Calls : call'[d] \in {"unused", "posted"} => asks'[d] = None
    BY <1>0, <1>3, <1>4 DEF Owners
  <2>2. \A u \in Tasks : percent'[u] # -1 <=> \E d \in Calls : asks'[d] = u
    <3> SUFFICES ASSUME NEW u \in Tasks  PROVE percent'[u] # -1 <=> \E d \in Calls : asks'[d] = u
      OBVIOUS
    <3>1. CASE u = t
      BY <1>4, <1>5, <3>1
    <3>2. CASE u # t
      <4>1. u # None /\ (percent[u] # -1 <=> \E d \in Calls : asks[d] = u)
        BY <1>0, NamesAssumption DEF Owners
      <4> QED
        BY <1>2, <1>4, <1>5, <3>2, <4>1
    <3> QED
      BY <3>1, <3>2
  <2>3. \A u \in Tasks : bridges[u] # None => asks'[bridges[u]] = u /\ bridges[u] # c
    <3>1. \A u \in Tasks : bridges[u] # None => bridges[u] \in Calls /\ asks[bridges[u]] = u /\ u # None
      BY <1>0, NamesAssumption DEF Owners, TypeOK
    <3> QED
      BY <1>2, <1>4, <3>1
  <2>4. \A m \in Range(maps) :
           asks'[<<m.session, m.request>>] = m.task /\ <<m.session, m.request>> # c
    <3> SUFFICES ASSUME NEW m \in Range(maps)
                 PROVE  asks'[<<m.session, m.request>>] = m.task /\ <<m.session, m.request>> # c
      OBVIOUS
    <3>1. m \in Mapping /\ <<m.session, m.request>> \in Calls /\ asks[<<m.session, m.request>>] = m.task
      BY <1>0, SeqTypes DEF Owners
    <3>2. m.task # None
      BY <3>1, NamesAssumption DEF Mapping
    <3> QED
      BY <1>4, <3>1, <3>2
  <2>5. loop'.task \in Tasks /\ percent'[loop'.task] # -1 /\ loop'.call \in Calls /\ asks'[loop'.call] = loop'.task
    BY <1>4, <1>5, <1>6
  <2> QED
    BY <1>1, <1>6, <2>1, <2>2, <2>3, <2>4, <2>5 DEF Owners, Waiting
<1>9. Traffic'
  <2>1. \A d \in Calls : Waiting(d)' <=> d = c
    BY <1>6 DEF Waiting
  <2> QED
    BY <1>0, <1>1, <1>3, <1>6, <2>1, TrafficKept
<1>10. Reporters'
  <2>1. ASSUME NEW p \in Threads, job[p].step # "none"
        PROVE  /\ p # Loop /\ job[p].task \in Tasks /\ \E d \in Calls : asks'[d] = job[p].task
               /\ job[p].task = p /\ run[p] \in {"running", "final"}
               /\ job[p].step = "send" =>
                    job[p].call \in Calls /\ asks'[job[p].call] = job[p].task /\ job[p].call # c
    <3>1. /\ p # Loop /\ job[p].task \in Tasks /\ \E d \in Calls : asks[d] = job[p].task
          /\ job[p].task = p /\ run[p] \in {"running", "final"}
          /\ job[p].step = "send" => job[p].call \in Calls /\ asks[job[p].call] = job[p].task
      BY <1>0, <1>1, <2>1, NoLoopJob, TaskThreads DEF Reporters
    <3>2. job[p].task # None
      BY <3>1, NamesAssumption
    <3> QED
      BY <1>4, <3>1, <3>2
  <2>2. \A u \in Tasks : run[u] # "none" => \E d \in Calls : asks'[d] = u /\ d # c
    <3> SUFFICES ASSUME NEW u \in Tasks, run[u] # "none"  PROVE \E d \in Calls : asks'[d] = u /\ d # c
      OBVIOUS
    <3>1. u # None /\ \E d \in Calls : asks[d] = u
      BY <1>0, NamesAssumption DEF Reporters
    <3> QED
      BY <1>4, <3>1
  <2> QED
    BY <1>1, <1>6, <2>1, <2>2 DEF Reporters, Waiting
<1>11. Store' /\ Complete' /\ Connections' /\ Received' /\ Resumes'
  BY <1>0, <1>1, <1>3, <1>4, QuietStream DEF TypeOK, Mapped
<1>12. Rising'
  <2> SUFFICES ASSUME NEW d \in Calls, asks'[d] # None, Sole(asks[d])'  PROVE Climbs(d)'
    BY DEF Rising
  <2>1. cancels = 0 /\ \A a, b \in Calls : asks'[a] = asks'[d] /\ asks'[b] = asks'[d] => a = b
    BY <1>1 DEF Sole
  <2>2. CASE d # c
    <3>1. asks'[d] = asks[d]
      BY <1>4, <2>2
    <3>2. \A a \in Calls : asks[a] = asks[d] => asks'[a] = asks'[d]
      BY <1>4, <3>1
    <3>3. Sole(asks[d])
      BY <2>1, <3>2 DEF Sole
    <3>4. Climbs(d)
      BY <1>0, <3>1, <3>3 DEF Rising
    <3> QED
      BY <1>1, <3>1, <3>4 DEF Climbs, Rises, Mine
  <2>3. CASE d = c
    <3>1. \A i \in DOMAIN log : ~Mine(c, log[i])
      BY <1>0, <1>1 DEF Traffic, Mine
    <3>2. \A i \in DOMAIN wire[c[1]] : ~Mine(c, wire[c[1]][i])
      <4>1. c[1] \in Sessions
        BY CallsAre
      <4> QED
        BY <1>0, <1>1, <4>1 DEF Traffic, Mine
    <3>3. \A p \in Threads : ~(job[p].step = "send" /\ job[p].task = t)
      <4> SUFFICES ASSUME NEW p \in Threads, job[p].step = "send", job[p].task = t  PROVE FALSE
        OBVIOUS
      <4>1. job[p].call \in Calls /\ asks[job[p].call] = t
        BY <1>0 DEF Reporters
      <4> QED
        BY <1>0, <1>4, <2>1, <2>3, <4>1
    <3> QED
      BY <1>1, <1>4, <2>3, <3>1, <3>2, <3>3 DEF Climbs, Rises, Mine
  <2> QED
    BY <2>2, <2>3
<1> QED
  BY <1>7, <1>8, <1>9, <1>10, <1>11, <1>12 DEF IInv

\* The call gets the bridge of its task and a fresh count, and is mapped to the task.
LEMMA RegisterStep ==
  ASSUME IInv, Register
  PROVE  IInv'
<1> DEFINE c == loop.call
           t == loop.task
           m == [request |-> c[2], task |-> t, session |-> c[1], at |-> now]
<1>0. TypeOK /\ Owners /\ Reporters /\ Traffic /\ Rising
  BY DEF IInv
<1>1. /\ loop.step = "register" /\ Free(Loop)
      /\ bridges' = [bridges EXCEPT ![t] = c] /\ last' = [last EXCEPT ![c] = -1]
      /\ maps' = Remap(KeptMaps, m)
      /\ Emit(Loop, t, loop.value, TRUE)
      /\ loop' = [loop EXCEPT !.step = "submit"]
      /\ UNCHANGED <<now, log, events, open, resuming, replay, seen, late, drops, percent, run, asks, cancels, call, wire>>
  BY DEF Register, LoopAt, stream, tasks
<1>2. c \in Calls /\ t \in Tasks /\ asks[c] = t /\ percent[t] # -1 /\ t # None
  BY <1>0, <1>1, NamesAssumption DEF Owners
<1>3. c[1] \in Sessions /\ c[2] \in Requests /\ c = <<c[1], c[2]>> /\ c # None
  BY <1>2, CallsAre
<1>4. m \in Mapping
  BY <1>0, <1>2, <1>3 DEF Mapping, TypeOK
<1>5. call[c] \notin {"unused", "posted"}
  BY <1>0, <1>2 DEF Owners
<1>6. loop.value \in -1..100 /\ loop \in Op
  BY <1>0 DEF TypeOK, Op, Percents
<1>7. /\ job' \in [Threads -> Job] /\ job'[Loop].step = "read" /\ job'[Loop].task = t
      /\ \A q \in Threads : q # Loop => job'[q] = job[q]
  BY <1>0, <1>1, <1>2, <1>6, EmitIs, TaskThreads
<1> HIDE DEF c, t, m
<1>8. /\ maps' \in Seq(Mapping) /\ Len(maps') <= MaxMappings + 1
      /\ \A x \in Range(maps') : x \in Range(maps) \/ x = m
  <2>1. KeptMaps \in Seq(Mapping) /\ Len(KeptMaps) <= MaxMappings /\ Range(KeptMaps) \subseteq Range(maps)
    BY <1>0, KeptMapsAre
  <2>2. /\ maps' \in Seq(Mapping) /\ Len(maps') <= Len(KeptMaps) + 1
        /\ Range(maps') = {x \in Range(KeptMaps) : x.request # m.request} \cup {m}
    BY <1>1, <1>4, <2>1, RemapIs
  <2>3. MaxMappings \in Nat /\ Len(KeptMaps) \in Nat /\ Len(maps') \in Nat
    BY <2>1, <2>2, BoundsAssumption
  <2> QED
    BY <2>1, <2>2, <2>3
<1>9. loop' \in Op /\ loop'.step = "submit" /\ loop'.call = c /\ loop'.task = t
  BY <1>1, <1>6 DEF Op, c, t
<1>10. \A d : ~Waiting(d)' /\ (Waiting(d) <=> d = c)
  BY <1>1, <1>9 DEF Waiting, c
<1>11. /\ bridges' \in [Tasks -> Calls \cup {None}] /\ bridges'[t] = c
       /\ \A u \in Tasks : u # t => bridges'[u] = bridges[u]
  BY <1>0, <1>1, <1>2 DEF TypeOK
<1>12. /\ last' \in [Calls -> -1..100] /\ last'[c] = -1
       /\ \A d \in Calls : d # c => last'[d] = last[d]
  <2>1. last \in [Calls -> -1..100] /\ -1 \in -1..100
    BY <1>0 DEF TypeOK
  <2> QED
    BY <1>1, <1>2, <2>1
<1>13. TypeOK'
  BY <1>0, <1>1, <1>7, <1>8, <1>9, <1>11, <1>12 DEF TypeOK
<1>14. Owners'
  <2>1. \A x \in Range(maps') : asks[<<x.session, x.request>>] = x.task
    <3>1. asks[<<m.session, m.request>>] = m.task
      BY <1>2, <1>3 DEF m
    <3> QED
      BY <1>0, <1>8, <3>1 DEF Owners
  <2>2. \A u \in Tasks : bridges'[u] # None => asks[bridges'[u]] = u
    BY <1>0, <1>2, <1>11 DEF Owners
  <2> QED
    BY <1>0, <1>1, <1>2, <1>9, <1>10, <2>1, <2>2 DEF Owners
<1>15. Traffic'
  BY <1>0, <1>1, <1>10, TrafficKept
<1>16. Reporters'
  <2>1. ASSUME NEW p \in Threads, job'[p].step # "none"
        PROVE  /\ job'[p].task \in Tasks /\ \E d \in Calls : asks[d] = job'[p].task
               /\ p = Loop \/ (job'[p].task = p /\ run[p] \in {"running", "final"})
               /\ p = Loop => job'[p].task = t
               /\ job'[p].step = "send" =>
                    job'[p].call \in Calls /\ asks[job'[p].call] = job'[p].task
    <3>1. CASE p = Loop
      BY <1>2, <1>7, <3>1
    <3>2. CASE p # Loop
      BY <1>0, <1>7, <2>1, <3>2 DEF Reporters
    <3> QED
      BY <3>1, <3>2
  <2>2. \A u \in Tasks : run[u] # "none" =>
          \E d \in Calls : asks[d] = u /\ ~(loop'.step \in {"register", "submit"} /\ loop'.call = d)
    BY <1>0, <1>1, <1>9 DEF Reporters, c
  <2> QED
    BY <1>1, <1>9, <1>10, <2>1, <2>2 DEF Reporters
<1>17. Store' /\ Complete' /\ Connections' /\ Received' /\ Resumes'
  <2>1. now \in Nat /\ now' = now /\ now' >= now
    BY <1>0, <1>1 DEF TypeOK
  <2>2. ASSUME NEW d \in Calls, ~Shared(d)', Mapped(maps', d[2]) # {}
        PROVE  Mapped(maps, d[2]) # {} \/ \A i \in Of(d) : log[i].kind = "priming"
    <3>1. CASE d[2] # c[2]
      BY <1>8, <2>2, <3>1 DEF Mapped, m
    <3>2. CASE d[2] = c[2]
      <4>1. d = c
        BY <1>1, <1>2, <1>5, <2>2, <3>2 DEF Shared
      <4>2. Waiting(c)
        BY <1>10
      <4> QED
        BY <1>0, <4>1, <4>2 DEF Traffic, Of
    <3> QED
      BY <3>1, <3>2
  <2> QED
    BY <1>1, <2>1, <2>2, QuietStream
<1>18. Rising'
  <2> SUFFICES ASSUME NEW d \in Calls, asks[d] # None, Sole(asks[d])  PROVE Climbs(d)'
    BY <1>1 DEF Rising, Sole
  <2>1. Climbs(d)
    BY <1>0 DEF Rising
  <2>2. CASE d # c
    <3>1. \A p \in Threads : job'[p].step = "send" /\ job'[p].task = asks[d] => last'[d] <= job'[p].value
      BY <1>7, <1>12, <2>1, <2>2 DEF Climbs
    <3>2. last'[d] = last[d]
      BY <1>12, <2>2
    <3> QED
      BY <1>1, <2>1, <3>1, <3>2 DEF Climbs, Rises, Mine
  <2>3. CASE d = c
    <3>0. Waiting(c)
      BY <1>10
    <3>1. \A i \in DOMAIN log : ~Mine(c, log[i])
      BY <1>0, <3>0 DEF Traffic, Mine
    <3>2. \A i \in DOMAIN wire[c[1]] : ~Mine(c, wire[c[1]][i])
      BY <1>0, <1>3, <3>0 DEF Traffic, Mine
    <3>3. \A p \in Threads : job'[p].step = "send" => -1 <= job'[p].value
      <4>1. \A p \in Threads : job'[p].value \in -1..100
        BY <1>7 DEF Job
      <4> QED
        BY <4>1
    <3> QED
      BY <1>1, <1>12, <2>3, <3>1, <3>2, <3>3 DEF Climbs, Rises, Mine
  <2> QED
    BY <2>2, <2>3
<1> QED
  BY <1>13, <1>14, <1>15, <1>16, <1>17, <1>18 DEF IInv

\* The run is submitted and the call answered.
LEMMA SubmitStep ==
  ASSUME IInv, Submit
  PROVE  IInv'
<1> DEFINE c == loop.call
           t == loop.task
           msg == [call |-> c, kind |-> "reply", value |-> 0]
<1>0. TypeOK /\ Owners /\ Reporters /\ Traffic
  BY DEF IInv
<1>1. /\ loop.step = "submit" /\ Free(Loop)
      /\ run' = [run EXCEPT ![t] = IF @ = "none" THEN "queued" ELSE @]
      /\ wire' = [wire EXCEPT ![c[1]] = Append(@, msg)]
      /\ loop' = NoOp
      /\ UNCHANGED <<now, log, events, open, resuming, replay, seen, late, drops, maps, bridges, last, percent,
                     asks, cancels, job, call>>
  BY DEF Submit, LoopAt, stream, bridge
<1>2. c \in Calls /\ t \in Tasks /\ asks[c] = t /\ t # None
  BY <1>0, <1>1, NamesAssumption DEF Owners
<1>3. msg \in Message /\ msg.call = c /\ msg.kind = "reply"
  BY <1>2, ReplyIs
<1>4. call[c] \in {"handled", "answered"}
  BY <1>0, <1>2 DEF Owners, TypeOK
<1> HIDE DEF c, t, msg
<1>5. /\ wire' \in [Sessions -> Seq(Message)]
      /\ \A s \in Sessions : wire'[s] = wire[s] \/ (s = c[1] /\ wire'[s] = Append(wire[s], msg))
  BY <1>0, <1>1, <1>2, <1>3, WireIs
<1>6. loop' \in Op /\ loop'.step = "none" /\ \A d : ~Waiting(d) /\ ~Waiting(d)'
  BY <1>1 DEF NoOp, Op, Percents, Waiting
<1>7. /\ run' \in [Tasks -> {"none", "queued", "running", "final", "done", "dropped"}]
      /\ \A u \in Tasks : run'[u] = run[u] \/ (u = t /\ run[u] = "none" /\ run'[u] = "queued")
  BY <1>0, <1>1 DEF TypeOK
<1>8. TypeOK'
  BY <1>0, <1>1, <1>5, <1>6, <1>7 DEF TypeOK
<1>9. Owners'
  BY <1>0, <1>1, <1>6 DEF Owners
<1>10. Traffic'
  <2>1. \A s \in Sessions : \/ wire'[s] = wire[s]
                            \/ \E m \in Message :
                                   /\ wire'[s] = Append(wire[s], m)
                                   /\ m.call[1] = s /\ m.kind # "priming" /\ ~Waiting(m.call)'
                                   /\ call'[m.call] \in {"handled", "answered"}
    BY <1>1, <1>3, <1>4, <1>5, <1>6
  <2> QED
    BY <1>0, <1>1, <1>6, <2>1, TrafficKept
<1>11. Reporters'
  <2>1. ASSUME NEW p \in Threads, job[p].step # "none"
        PROVE  /\ job[p].task \in Tasks /\ \E d \in Calls : asks[d] = job[p].task
               /\ p # Loop /\ job[p].task = p /\ run'[p] \in {"running", "final"}
               /\ job[p].step = "send" => job[p].call \in Calls /\ asks[job[p].call] = job[p].task
    <3>1. p \in Tasks /\ job[p].task = p /\ run[p] \in {"running", "final"}
      BY <1>1, <2>1, NoLoopJob
    <3>2. run'[p] = run[p] /\ p # Loop
      BY <1>7, <3>1, TaskThreads
    <3> QED
      BY <1>0, <2>1, <3>1, <3>2 DEF Reporters
  <2>2. \A u \in Tasks : run'[u] # "none" => \E d \in Calls : asks[d] = u
    BY <1>0, <1>2, <1>7 DEF Reporters
  <2> QED
    BY <1>1, <1>6, <2>1, <2>2 DEF Reporters
<1>12. Store' /\ Complete' /\ Connections' /\ Received' /\ Resumes'
  BY <1>0, <1>1, QuietStream DEF TypeOK, Mapped
<1>13. Rising'
  <2>1. msg.kind # "progress"
    BY <1>3
  <2> QED
    BY <1>1, <1>2, <1>3, <2>1, ReplyRising
<1> QED
  BY <1>8, <1>9, <1>10, <1>11, <1>12, <1>13 DEF IInv

-----------------------------------------------------------------------------
\* Cancellations.

LEMMA CancelStep ==
  ASSUME IInv, NEW q \in Requests, Cancel(q)
  PROVE  IInv'
<1>0. TypeOK /\ Owners /\ Reporters /\ Traffic /\ MaxFaults \in Nat
  BY BoundsAssumption DEF IInv
<1>1. PICK m \in Mapped(maps, q) :
        /\ percent[m.task] < 100
        /\ loop' = [step |-> "cancel", call |-> None, task |-> m.task, value |-> percent[m.task]]
        /\ run' = [run EXCEPT ![m.task] = IF @ = "queued" THEN "dropped" ELSE @]
  BY DEF Cancel
<1>2. /\ loop.step = "none" /\ Free(Loop) /\ cancels' = cancels + 1 /\ Faults + 2 <= MaxFaults
      /\ UNCHANGED <<now, log, events, open, resuming, replay, seen, late, drops, maps, bridges, last, percent, asks, job, call, wire>>
  BY DEF Cancel, LoopAt, stream, bridge
<1> DEFINE t == m.task
<1>3. t \in Tasks /\ percent[t] # -1
  <2>1. m \in Range(maps)
    BY DEF Mapped
  <2>2. m \in Mapping /\ <<m.session, m.request>> \in Calls /\ asks[<<m.session, m.request>>] = m.task
    BY <1>0, <2>1, SeqTypes DEF Owners
  <2>3. m.task \in Tasks
    BY <2>2 DEF Mapping
  <2> QED
    BY <1>0, <2>2, <2>3 DEF Owners
<1>4. percent[t] \in Percents
  BY <1>0, <1>3 DEF TypeOK
<1> HIDE DEF t
<1>5. loop' \in Op /\ loop'.step = "cancel" /\ loop'.task = t /\ \A d : ~Waiting(d) /\ ~Waiting(d)'
  BY <1>1, <1>2, <1>3, <1>4 DEF Op, Waiting, t
<1>6. cancels' \in 0..MaxFaults /\ cancels' > 0
  <2>1. cancels \in 0..MaxFaults /\ now \in 0..MaxFaults /\ drops \in 0..MaxFaults /\ now + 2 * cancels + drops + 2 <= MaxFaults
    BY <1>0, <1>2 DEF TypeOK, Faults
  <2> QED
    BY <1>0, <1>2, <2>1
<1>7. /\ run' \in [Tasks -> {"none", "queued", "running", "final", "done", "dropped"}]
      /\ \A u \in Tasks : run'[u] = run[u] \/ (run[u] = "queued" /\ run'[u] = "dropped")
  BY <1>0, <1>1 DEF TypeOK, t
<1>8. TypeOK'
  BY <1>0, <1>2, <1>5, <1>6, <1>7 DEF TypeOK
<1>9. Owners'
  BY <1>0, <1>2, <1>3, <1>5, <1>6 DEF Owners
<1>10. Traffic'
  BY <1>0, <1>2, <1>5, TrafficKept
<1>11. Reporters'
  <2>1. ASSUME NEW p \in Threads, job[p].step # "none"
        PROVE  /\ job[p].task \in Tasks /\ \E d \in Calls : asks[d] = job[p].task
               /\ p # Loop /\ job[p].task = p /\ run'[p] \in {"running", "final"}
               /\ job[p].step = "send" => job[p].call \in Calls /\ asks[job[p].call] = job[p].task
    <3>1. p \in Tasks /\ job[p].task = p /\ run[p] \in {"running", "final"}
      BY <1>2, <2>1, NoLoopJob
    <3>2. run'[p] = run[p] /\ p # Loop
      BY <1>7, <3>1, TaskThreads
    <3> QED
      BY <1>0, <2>1, <3>1, <3>2 DEF Reporters
  <2>2. \A u \in Tasks : run'[u] # "none" => \E d \in Calls : asks[d] = u
    BY <1>0, <1>7 DEF Reporters
  <2> QED
    BY <1>2, <1>5, <2>1, <2>2 DEF Reporters
<1>12. Store' /\ Complete' /\ Connections' /\ Received' /\ Resumes'
  BY <1>0, <1>2, QuietStream DEF TypeOK, Mapped
<1>13. Rising'
  BY <1>2, <1>6, QuietRising
<1> QED
  BY <1>8, <1>9, <1>10, <1>11, <1>12, <1>13 DEF IInv

\* The loop writes the record of a cancelled task, and may report it.
LEMMA CancelOn ==
  ASSUME IInv, loop.step \in {"cancel", "settle"}, Free(Loop),
         loop' \in Op, loop'.step \in {"settle", "none"}, loop'.step = "none" \/ loop'.task = loop.task,
         percent' \in [Tasks -> Percents \cup {-1}],
         \A u \in Tasks : percent'[u] = percent[u] \/ (u = loop.task /\ percent'[u] # -1),
         run' \in [Tasks -> {"none", "queued", "running", "final", "done", "dropped"}],
         \A u \in Tasks : run'[u] = run[u] \/ run[u] \in {"done", "dropped"},
         \/ \E value \in -1..100 : Emit(Loop, loop.task, value, TRUE)
         \/ job' = job,
         UNCHANGED <<now, stream, maps, bridge, asks, cancels, call, wire>>
  PROVE  IInv'
<1> DEFINE t == loop.task
<1>0. TypeOK /\ Owners /\ Reporters /\ Traffic
  BY DEF IInv
<1>1. UNCHANGED <<now, log, events, open, resuming, replay, seen, late, drops, maps, bridges, last, asks, cancels, call, wire>>
  BY DEF stream, bridge
<1>2. /\ t \in Tasks /\ percent[t] # -1 /\ cancels > 0 /\ cancels # 0
      /\ \E c \in Calls : asks[c] = t
  <2>1. t \in Tasks /\ percent[t] # -1 /\ cancels > 0 /\ cancels # 0
    BY <1>0 DEF Owners
  <2> QED
    BY <1>0, <2>1 DEF Owners
<1>3. /\ job' \in [Threads -> Job] /\ \A q \in Threads : q # Loop => job'[q] = job[q]
      /\ job'[Loop].step = "none" \/ (job'[Loop].step = "read" /\ job'[Loop].task = t)
  <2>1. CASE \E value \in -1..100 : Emit(Loop, t, value, TRUE)
    BY <1>0, <1>2, <2>1, EmitIs, TaskThreads
  <2>2. CASE job' = job
    BY <1>0, <2>2 DEF TypeOK, Free
  <2> QED
    BY <2>1, <2>2
<1> HIDE DEF t
<1>4. \A d : ~Waiting(d) /\ ~Waiting(d)'
  BY DEF Waiting
<1>5. TypeOK'
  BY <1>0, <1>1, <1>3 DEF TypeOK
<1>6. Owners'
  <2>1. \A u \in Tasks : percent'[u] # -1 <=> \E c \in Calls : asks[c] = u
    BY <1>0, <1>2 DEF Owners, t
  <2>2. percent'[t] # -1
    BY <1>2
  <2> QED
    BY <1>0, <1>1, <1>2, <1>4, <2>1, <2>2 DEF Owners, t
<1>7. Traffic'
  BY <1>0, <1>1, <1>4, TrafficKept
<1>8. Reporters'
  <2>1. ASSUME NEW p \in Threads, job'[p].step # "none"
        PROVE  /\ job'[p].task \in Tasks /\ \E d \in Calls : asks[d] = job'[p].task
               /\ p = Loop \/ (job'[p].task = p /\ run'[p] \in {"running", "final"})
               /\ job'[p].step = "send" => job'[p].call \in Calls /\ asks[job'[p].call] = job'[p].task
    <3>1. CASE p = Loop
      BY <1>2, <1>3, <2>1, <3>1
    <3>2. CASE p # Loop
      <4>1. /\ job'[p] = job[p] /\ p \in Tasks
            /\ job[p].task \in Tasks /\ \E d \in Calls : asks[d] = job[p].task
            /\ job[p].task = p /\ run[p] \in {"running", "final"}
            /\ job[p].step = "send" => job[p].call \in Calls /\ asks[job[p].call] = job[p].task
        BY <1>0, <1>3, <2>1, <3>2 DEF Reporters, Threads
      <4>2. run'[p] = run[p]
        BY <4>1
      <4> QED
        BY <4>1, <4>2
    <3> QED
      BY <3>1, <3>2
  <2>2. \A u \in Tasks : run'[u] # "none" => \E d \in Calls : asks[d] = u
    BY <1>0 DEF Reporters
  <2> QED
    BY <1>1, <1>2, <1>4, <2>1, <2>2 DEF Reporters
<1>9. Store' /\ Complete' /\ Connections' /\ Received' /\ Resumes'
  BY <1>0, <1>1, QuietStream DEF TypeOK, Mapped
<1>10. Rising'
  BY <1>1, <1>3, QuietRising
<1> QED
  BY <1>5, <1>6, <1>7, <1>8, <1>9, <1>10 DEF IInv

LEMMA WriteCancelStep ==
  ASSUME IInv, WriteCancel
  PROVE  IInv'
<1>0. TypeOK /\ loop.value \in Percents /\ loop.value \in -1..100 /\ loop.value # -1 /\ loop \in Op
  BY DEF IInv, TypeOK, Op, Percents
<1>1. /\ loop.step = "cancel" /\ Free(Loop)
      /\ percent' = [percent EXCEPT ![loop.task] = loop.value]
      /\ Emit(Loop, loop.task, loop.value, TRUE)
      /\ loop' = [loop EXCEPT !.step = "settle"] /\ run' = run
      /\ UNCHANGED <<now, stream, maps, bridge, asks, cancels, call, wire>>
  BY DEF WriteCancel, LoopAt
<1>2. loop' \in Op /\ loop'.step = "settle" /\ loop'.task = loop.task
  BY <1>0, <1>1 DEF Op
<1>3. /\ percent' \in [Tasks -> Percents \cup {-1}]
      /\ \A u \in Tasks : percent'[u] = percent[u] \/ (u = loop.task /\ percent'[u] # -1)
  BY <1>0, <1>1 DEF TypeOK
<1>4. run' \in [Tasks -> {"none", "queued", "running", "final", "done", "dropped"}]
  BY <1>0, <1>1 DEF TypeOK
<1>5. \E value \in -1..100 : Emit(Loop, loop.task, value, TRUE)
  BY <1>0, <1>1
<1> QED
  BY <1>1, <1>2, <1>3, <1>4, <1>5, CancelOn

LEMMA SettleStep ==
  ASSUME IInv, Settle
  PROVE  IInv'
<1> DEFINE t == loop.task
<1>0. TypeOK /\ percent \in [Tasks -> Percents \cup {-1}] /\ 100 \in Percents
      /\ run \in [Tasks -> {"none", "queued", "running", "final", "done", "dropped"}]
  BY DEF IInv, TypeOK, Percents
<1>1. /\ loop.step = "settle" /\ Free(Loop) /\ loop' = NoOp
      /\ UNCHANGED <<now, stream, maps, bridge, asks, cancels, call, wire>>
      /\ \/ /\ run[t] \in {"done", "dropped"} /\ percent' = [percent EXCEPT ![t] = 100]
            /\ run' = [run EXCEPT ![t] = "done"] /\ Emit(Loop, t, 100, TRUE)
         \/ percent' = percent /\ run' = run /\ job' = job
  BY DEF Settle, LoopAt
<1>2. loop' \in Op /\ loop'.step = "none"
  BY <1>1 DEF NoOp, Op, Percents
<1>3. /\ percent' \in [Tasks -> Percents \cup {-1}]
      /\ \A u \in Tasks : percent'[u] = percent[u] \/ (u = t /\ percent'[u] # -1)
  <2> HIDE DEF t
  <2>1. percent' = percent \/ percent' = [percent EXCEPT ![t] = 100]
    BY <1>1
  <2>2. 100 # -1
    OBVIOUS
  <2> QED
    BY <1>0, <2>1, <2>2
<1>4. /\ run' \in [Tasks -> {"none", "queued", "running", "final", "done", "dropped"}]
      /\ \A u \in Tasks : run'[u] = run[u] \/ run[u] \in {"done", "dropped"}
  BY <1>0, <1>1
<1>5. (\E value \in -1..100 : Emit(Loop, t, value, TRUE)) \/ job' = job
  <2>1. 100 \in -1..100
    OBVIOUS
  <2> QED
    BY <1>1, <2>1
<1> QED
  BY <1>1, <1>2, <1>3, <1>4, <1>5, CancelOn

-----------------------------------------------------------------------------
\* Connections and time.

LEMMA DisconnectStep ==
  ASSUME IInv, NEW c \in Calls, Disconnect(c)
  PROVE  IInv'
<1>0. TypeOK /\ Owners /\ Reporters /\ Traffic /\ MaxFaults \in Nat
  BY BoundsAssumption DEF IInv
<1>1. /\ open' = open \ {c} /\ drops' = drops + 1 /\ Faults < MaxFaults
      /\ resuming' = resuming \ {c} /\ replay' = [replay EXCEPT ![c] = <<>>]
      /\ UNCHANGED <<now, log, events, seen, late, maps, bridges, last, percent, run, asks, cancels, job, loop, call, wire>>
  BY DEF Disconnect, bridge, tasks
<1>2. drops' \in 0..MaxFaults
  <2>1. cancels \in 0..MaxFaults /\ now \in 0..MaxFaults /\ drops \in 0..MaxFaults /\ now + 2 * cancels + drops < MaxFaults
    BY <1>0, <1>1 DEF TypeOK, Faults
  <2> QED
    BY <1>0, <1>1, <2>1
<1>3. replay' \in [Calls -> Seq(DOMAIN log)] /\ \A d \in resuming' : replay'[d] = replay[d]
  BY <1>0, <1>1 DEF TypeOK
<1>4. TypeOK'
  BY <1>0, <1>1, <1>2, <1>3 DEF TypeOK
<1>5. Owners' /\ Reporters' /\ Traffic'
  BY <1>0, <1>1 DEF Owners, Reporters, Traffic, Waiting
<1>6. Store' /\ Complete' /\ Connections' /\ Received' /\ Resumes'
  BY <1>0, <1>1, <1>3, QuietStream DEF TypeOK, Mapped
<1>7. Rising'
  BY <1>1, QuietRising
<1> QED
  BY <1>4, <1>5, <1>6, <1>7 DEF IInv

LEMMA TickStep ==
  ASSUME IInv, Tick
  PROVE  IInv'
<1>0. TypeOK /\ Owners /\ Reporters /\ Traffic /\ MaxFaults \in Nat
  BY BoundsAssumption DEF IInv
<1>1. /\ now' = now + 1 /\ Faults < MaxFaults
      /\ UNCHANGED <<log, events, open, resuming, replay, seen, late, drops, maps, bridges, last, percent, run, asks, cancels,
                     job, loop, call, wire>>
  BY DEF Tick, bridge, tasks, stream
<1>2. now' \in 0..MaxFaults /\ now' \in Nat /\ now' >= now
  <2>1. cancels \in 0..MaxFaults /\ now \in 0..MaxFaults /\ drops \in 0..MaxFaults /\ now + 2 * cancels + drops < MaxFaults
    BY <1>0, <1>1 DEF TypeOK, Faults
  <2> QED
    BY <1>0, <1>1, <2>1
<1>3. TypeOK'
  BY <1>0, <1>1, <1>2 DEF TypeOK
<1>4. Owners' /\ Reporters' /\ Traffic'
  BY <1>0, <1>1 DEF Owners, Reporters, Traffic, Waiting
<1>5. Store' /\ Complete' /\ Connections' /\ Received' /\ Resumes'
  BY <1>0, <1>1, <1>2, QuietStream DEF Mapped
<1>6. Rising'
  BY <1>1, QuietRising
<1> QED
  BY <1>3, <1>4, <1>5, <1>6 DEF IInv

LEMMA StutterStep ==
  ASSUME IInv, UNCHANGED vars
  PROVE  IInv'
<1>0. TypeOK /\ Owners /\ Reporters /\ Traffic
  BY DEF IInv
<1>1. UNCHANGED <<now, log, events, open, resuming, replay, seen, late, drops, maps, bridges, last, percent, run, asks, cancels,
                  job, loop, call, wire>>
  BY DEF vars
<1>2. TypeOK'
  BY <1>0, <1>1 DEF TypeOK
<1>3. Owners' /\ Reporters' /\ Traffic'
  BY <1>0, <1>1 DEF Owners, Reporters, Traffic, Waiting
<1>4. Store' /\ Complete' /\ Connections' /\ Received' /\ Resumes'
  BY <1>0, <1>1, QuietStream DEF TypeOK, Mapped
<1>5. Rising'
  BY <1>1, QuietRising
<1> QED
  BY <1>2, <1>3, <1>4, <1>5 DEF IInv

-----------------------------------------------------------------------------
\* What is routed.

\* The types that routing a message changes.
LEMMA RoutingTypes ==
  ASSUME IInv, NEW msg \in Message, NEW connected, Routing(msg, connected)
  PROVE  /\ log' \in Seq(Message) /\ events' \in Seq(Event) /\ Len(events') <= MaxEvents
         /\ maps' \in Seq(Mapping) /\ Len(maps') <= MaxMappings + 1
         /\ seen' \in [Calls -> Seq(DOMAIN log')] /\ late' \subseteq DOMAIN log'
         /\ replay' \in [Calls -> Seq(DOMAIN log')]
         /\ Range(maps') \subseteq Range(maps)
<1>0. TypeOK /\ MaxMappings \in Nat
  BY BoundsAssumption DEF IInv
<1>1. log' = Append(log, msg) /\ maps' = IF msg.kind = "priming" THEN maps ELSE KeptMaps
  BY DEF Routing, Route
<1>2. log' \in Seq(Message)
  BY <1>0, <1>1 DEF TypeOK
<1>3. /\ maps' \in Seq(Mapping) /\ Len(maps') <= MaxMappings + 1
      /\ Range(maps') \subseteq Range(maps)
  <2>1. CASE maps' = maps
    BY <1>0, <2>1 DEF TypeOK
  <2>2. CASE maps' = KeptMaps
    <3>1. maps' \in Seq(Mapping) /\ Len(maps') <= MaxMappings /\ Range(maps') \subseteq Range(maps)
      BY <1>0, <2>2, KeptMapsAre
    <3>2. Len(maps') \in Nat
      BY <3>1
    <3> QED
      BY <1>0, <3>1, <3>2
  <2> QED
    BY <1>1, <2>1, <2>2
<1> QED
  BY <1>2, <1>3, RoutingStore, RoutingReceived

LEMMA PostStep ==
  ASSUME IInv, NEW c \in Calls, Post(c)
  PROVE  IInv'
<1> DEFINE msg == [call |-> c, kind |-> "priming", value |-> 0]
           n == Len(log) + 1
<1>0. TypeOK /\ Owners /\ Reporters /\ Traffic
  BY DEF IInv
<1>1. /\ loop.step = "none" /\ call[c] = "unused"
      /\ call' = [call EXCEPT ![c] = "posted"]
      /\ open' = open \cup {c}
      /\ Route(msg, open')
      /\ UNCHANGED <<now, resuming, replay, drops, bridges, last, percent, run, asks, cancels, job, loop, wire>>
  BY DEF Post, LoopAt, bridge, tasks
<1>2. msg \in Message /\ msg.call = c /\ msg.kind = "priming"
  BY DEF Message
<1> HIDE DEF msg
<1>3. /\ call' \in [Calls -> {"unused", "posted", "handled", "answered"}]
      /\ call'[c] = "posted" /\ \A d \in Calls : d # c => call'[d] = call[d]
  BY <1>0, <1>1, CallIs
<1>4. PICK connected : connected = open'
  OBVIOUS
<1>5. Routing(msg, connected)
  BY <1>1, <1>2, <1>3, <1>4 DEF Routing, Route
<1>6. /\ log' = Append(log, msg) /\ maps' = maps
      /\ log' \in Seq(Message) /\ events' \in Seq(Event) /\ Len(events') <= MaxEvents
      /\ seen' \in [Calls -> Seq(DOMAIN log')] /\ late' \subseteq DOMAIN log'
      /\ replay' \in [Calls -> Seq(DOMAIN log')]
  BY <1>1, <1>2, <1>5, RoutingTypes DEF Route
<1>7. TypeOK'
  BY <1>0, <1>1, <1>3, <1>6 DEF TypeOK
<1>8. Owners'
  <2>1. \A d \in Calls : call'[d] \in {"unused", "posted"} => asks[d] = None
    BY <1>0, <1>1, <1>3 DEF Owners
  <2> QED
    BY <1>0, <1>1, <1>6, <2>1 DEF Owners, Waiting
<1>9. Reporters'
  BY <1>0, <1>1 DEF Reporters, Waiting
<1>10. Traffic'
  <2>1. /\ DOMAIN log' = DOMAIN log \cup {n} /\ n \notin DOMAIN log /\ log'[n] = msg
        /\ \A i \in DOMAIN log : log'[i] = log[i] /\ i < n /\ log[i].call \in Calls /\ log[i].call # c
        /\ n \in Nat
    <3>1. \A i \in DOMAIN log : log[i].call \in Calls
      BY <1>0, SeqTypes
    <3>2. \A i \in DOMAIN log : log[i].call # c
      BY <1>0, <1>1 DEF Traffic
    <3>3. n \in Nat
      BY <1>0, SeqTypes
    <3> QED
      BY <1>0, <1>2, <1>6, <3>1, <3>2, <3>3, OfIs
  <2> HIDE DEF n
  <2>2. \A d : ~Waiting(d) /\ ~Waiting(d)'
    BY <1>1 DEF Waiting
  <2>3. \A i \in DOMAIN log' :
          /\ call'[log'[i].call] # "unused"
          /\ call'[log'[i].call] = "posted" => log'[i].kind = "priming"
    <3>1. \A i \in DOMAIN log :
            /\ call[log[i].call] # "unused"
            /\ call[log[i].call] = "posted" => log[i].kind = "priming"
      BY <1>0 DEF Traffic
    <3> QED
      BY <1>2, <1>3, <2>1, <3>1
  <2>4. \A i, j \in DOMAIN log' : log'[j].call = log'[i].call /\ log'[j].kind = "priming" => j <= i
    <3>1. \A i, j \in DOMAIN log : log[j].call = log[i].call /\ log[j].kind = "priming" => j <= i
      BY <1>0 DEF Traffic
    <3>2. n <= n
      BY <2>1
    <3>3. \A i \in DOMAIN log : i \in Nat /\ i <= n
      BY <1>0, <2>1, SeqTypes
    <3> QED
      BY <1>2, <2>1, <3>1, <3>2, <3>3
  <2>5. ASSUME NEW s \in Sessions, NEW i \in DOMAIN wire'[s], NEW m, m = wire'[s][i]
        PROVE  /\ m.call[1] = s /\ m.kind # "priming"
               /\ call'[m.call] \in {"handled", "answered"}
    <3>1. /\ m.call[1] = s /\ m.kind # "priming" /\ m.call \in Calls
          /\ call[m.call] \in {"handled", "answered"}
      BY <1>0, <1>1, <2>5, SeqTypes DEF Traffic
    <3> QED
      BY <1>1, <1>3, <3>1
  <2> QED
    BY <2>2, <2>3, <2>4, <2>5 DEF Traffic
<1>11. Store' /\ Complete' /\ Connections' /\ Received' /\ Resumes'
  BY <1>2, <1>5, RoutingStore, RoutingComplete, RoutingReceived
<1>12. Rising'
  <2>1. msg.kind # "progress"
    BY <1>2
  <2> QED
    BY <1>1, <1>2, <1>6, <2>1, PrimingRising
<1> QED
  BY <1>7, <1>8, <1>9, <1>10, <1>11, <1>12 DEF IInv

LEMMA DeliverStep ==
  ASSUME IInv, NEW s \in Sessions, Deliver(s)
  PROVE  IInv'
<1> DEFINE msg == Head(wire[s])
           c == msg.call
           n == Len(log) + 1
<1>0. TypeOK /\ Owners /\ Reporters /\ Traffic
  BY DEF IInv
<1>1. /\ loop.step = "none" /\ wire[s] # <<>> /\ Route(msg, open)
      /\ open' = IF msg.kind = "reply" THEN open \ {c} ELSE open
      /\ call' = IF msg.kind = "reply" THEN [call EXCEPT ![c] = "answered"] ELSE call
      /\ wire' = [wire EXCEPT ![s] = Tail(@)]
      /\ UNCHANGED <<now, resuming, replay, drops, bridges, last, percent, run, asks, cancels, job, loop>>
  BY DEF Deliver, LoopAt, bridge, tasks
<1>2. /\ wire \in [Sessions -> Seq(Message)] /\ wire[s] \in Seq(Message)
      /\ msg \in Message /\ msg = wire[s][1] /\ 1 \in DOMAIN wire[s] /\ Tail(wire[s]) \in Seq(Message)
      /\ \A i \in DOMAIN Tail(wire[s]) : i + 1 \in DOMAIN wire[s] /\ Tail(wire[s])[i] = wire[s][i + 1]
  <2>1. wire \in [Sessions -> Seq(Message)]
    BY <1>0 DEF TypeOK
  <2>2. wire[s] \in Seq(Message)
    BY <2>1
  <2> QED
    BY <1>1, <2>1, <2>2, HeadTail
<1>3. c \in Calls /\ msg.kind # "priming" /\ call[c] \in {"handled", "answered"}
  <2>1. c \in Calls
    BY <1>2 DEF Message
  <2> QED
    BY <1>0, <1>2, <2>1 DEF Traffic
<1>4. /\ wire' \in [Sessions -> Seq(Message)]
      /\ \A r \in Sessions : wire'[r] = IF r = s THEN Tail(wire[s]) ELSE wire[r]
  BY <1>1, <1>2
<1> HIDE DEF msg, c
<1>5. /\ call' \in [Calls -> {"unused", "posted", "handled", "answered"}]
      /\ call'[c] \in {"handled", "answered"} /\ \A d \in Calls : d # c => call'[d] = call[d]
  <2>1. CASE msg.kind = "reply"
    BY <1>0, <1>1, <1>3, <2>1, CallIs
  <2>2. CASE msg.kind # "reply"
    BY <1>0, <1>1, <1>3, <2>2 DEF TypeOK
  <2> QED
    BY <2>1, <2>2
<1>6. Routing(msg, open)
  <2>1. open' \subseteq open
    BY <1>1
  <2> QED
    BY <1>1, <1>3, <1>5, <2>1 DEF Routing, Route, c
<1>7. PICK connected : connected = open
  OBVIOUS
<1>8. Routing(msg, connected)
  BY <1>6, <1>7
<1>9. /\ log' = Append(log, msg) /\ Range(maps') \subseteq Range(maps)
      /\ maps' \in Seq(Mapping) /\ Len(maps') <= MaxMappings + 1
      /\ log' \in Seq(Message) /\ events' \in Seq(Event) /\ Len(events') <= MaxEvents
      /\ seen' \in [Calls -> Seq(DOMAIN log')] /\ late' \subseteq DOMAIN log'
      /\ replay' \in [Calls -> Seq(DOMAIN log')]
  BY <1>1, <1>2, <1>8, RoutingTypes DEF Route
<1>10. open' \subseteq Calls
  BY <1>0, <1>1 DEF TypeOK
<1>11. TypeOK'
  BY <1>0, <1>1, <1>4, <1>5, <1>9, <1>10 DEF TypeOK
<1>12. \A d : ~Waiting(d) /\ ~Waiting(d)'
  BY <1>1 DEF Waiting
<1>13. Owners'
  <2>1. \A d \in Calls : call'[d] \in {"unused", "posted"} => asks[d] = None
    BY <1>0, <1>3, <1>5 DEF Owners
  <2>2. \A m \in Range(maps') : asks[<<m.session, m.request>>] = m.task
    BY <1>0, <1>9 DEF Owners
  <2> QED
    BY <1>0, <1>1, <1>12, <2>1, <2>2 DEF Owners
<1>14. Reporters'
  BY <1>0, <1>1 DEF Reporters, Waiting
<1>15. Traffic'
  <2>1. /\ DOMAIN log' = DOMAIN log \cup {n} /\ n \notin DOMAIN log /\ log'[n] = msg
        /\ \A i \in DOMAIN log : log'[i] = log[i] /\ i < n /\ log[i].call \in Calls /\ i \in Nat
        /\ n \in Nat
    <3>1. n \in Nat /\ \A i \in DOMAIN log : log[i].call \in Calls /\ i \in Nat
      BY <1>0, SeqTypes
    <3> QED
      BY <1>0, <1>2, <1>9, <3>1, OfIs
  <2> HIDE DEF n
  <2>2. \A i \in DOMAIN log' :
          /\ call'[log'[i].call] # "unused"
          /\ call'[log'[i].call] = "posted" => log'[i].kind = "priming"
    <3>1. \A i \in DOMAIN log :
            /\ call[log[i].call] # "unused"
            /\ call[log[i].call] = "posted" => log[i].kind = "priming"
      BY <1>0 DEF Traffic
    <3>2. msg.call = c
      BY DEF c
    <3> QED
      BY <1>5, <2>1, <3>1, <3>2
  <2>3. \A i, j \in DOMAIN log' : log'[j].call = log'[i].call /\ log'[j].kind = "priming" => j <= i
    <3>1. \A i, j \in DOMAIN log : log[j].call = log[i].call /\ log[j].kind = "priming" => j <= i
      BY <1>0 DEF Traffic
    <3> QED
      BY <1>3, <2>1, <3>1
  <2>4. ASSUME NEW r \in Sessions, NEW i \in DOMAIN wire'[r], NEW m, m = wire'[r][i]
        PROVE  /\ m.call[1] = r /\ m.kind # "priming"
               /\ call'[m.call] \in {"handled", "answered"}
    <3>1. \E k \in DOMAIN wire[r] : m = wire[r][k]
      BY <1>2, <1>4, <2>4
    <3>2. /\ m.call[1] = r /\ m.kind # "priming" /\ m.call \in Calls
          /\ call[m.call] \in {"handled", "answered"}
      BY <1>0, <3>1, SeqTypes DEF Traffic
    <3> QED
      BY <1>5, <3>2
  <2> QED
    BY <1>12, <2>2, <2>3, <2>4 DEF Traffic
<1>16. Store' /\ Complete' /\ Connections' /\ Received' /\ Resumes'
  BY <1>2, <1>8, RoutingStore, RoutingComplete, RoutingReceived
<1>17. Rising'
  BY <1>1, <1>9, DeliverRising DEF msg
<1> QED
  BY <1>11, <1>13, <1>14, <1>15, <1>16, <1>17 DEF IInv

-----------------------------------------------------------------------------
\* A client comes back.

\* What it is sent: the later messages of its stream and task, in order.
LEMMA ReplayIs ==
  ASSUME NEW s, EventsAre(s), NEW i \in DOMAIN s
  PROVE  /\ Missed(s, i) \in Seq(Nat)
         /\ \A j, k \in DOMAIN Missed(s, i) : j < k => Missed(s, i)[j] < Missed(s, i)[k]
         /\ \A x \in Range(Missed(s, i)) : \E e \in Range(s) :
               /\ e.id = x /\ e.id > s[i].id
               /\ e.session = s[i].session /\ e.stream = s[i].stream /\ e.task = s[i].task
         /\ \A e \in Range(s) :
               e.id > s[i].id /\ e.session = s[i].session /\ e.stream = s[i].stream
                  /\ e.task = s[i].task /\ log[e.id].kind # "priming" => e.id \in Range(Missed(s, i))
<1> DEFINE Same(e) == e.session = s[i].session /\ e.stream = s[i].stream /\ e.task = s[i].task
           keep == {e \in Range(s) : Same(e)}
           after == SubSeq(s, i + 1, Len(s))
           scoped == Scoped(s, i)
           told == {e \in Range(s) : log[e.id].kind # "priming"}
           missed == Only(scoped, told)
           ids == [j \in DOMAIN missed |-> missed[j].id]
           R == {pair \in Event \X Event : pair[1].id < pair[2].id}
<1>1. /\ s \in Seq(Event) /\ DOMAIN s = 1..Len(s) /\ Len(s) \in Nat /\ i \in 1..Len(s)
      /\ \A e \in Range(s) : e.id \in Nat
      /\ \A x : x \in Range(s) <=> \E j \in DOMAIN s : s[j] = x
  BY RangeOf DEF EventsAre
<1>2. \A j, k \in DOMAIN s : s[j].id < s[k].id <=> j < k
  BY OrderedIds
<1>3. /\ after \in Seq(Event) /\ DOMAIN after = 1..(Len(s) - i)
      /\ \A j \in DOMAIN after : i + j \in DOMAIN s /\ after[j] = s[i + j]
  BY <1>1
<1>4. scoped = Only(after, keep)
  BY DEF Scoped
<1> HIDE DEF after, scoped
<1>5. \A x : x \in Range(after) <=> \E j \in DOMAIN after : after[j] = x
  BY DEF Range
<1>6. \A e \in Range(after) : e \in Range(s) /\ e.id > s[i].id
  <2> SUFFICES ASSUME NEW j \in DOMAIN after
               PROVE  after[j] \in Range(s) /\ after[j].id > s[i].id
    BY <1>5
  <2>1. i + j \in DOMAIN s /\ after[j] = s[i + j] /\ i < i + j
    BY <1>1, <1>3
  <2> QED
    BY <1>1, <1>2, <2>1
<1>7. \A e \in Range(s) : e.id > s[i].id => e \in Range(after)
  <2> SUFFICES ASSUME NEW k \in DOMAIN s, s[k].id > s[i].id
               PROVE  s[k] \in Range(after)
    BY <1>1
  <2>1. s[k].id \in Nat /\ s[i].id \in Nat /\ s[i].id < s[k].id
    BY <1>1
  <2>2. i < k
    BY <1>2, <2>1
  <2>3. k - i \in DOMAIN after /\ i + (k - i) = k
    BY <1>1, <1>3, <2>2
  <2> QED
    BY <1>3, <1>5, <2>3
<1>8. /\ missed \in Seq(Event)
      /\ Range(missed) = {e \in Range(after) \cap keep : log[e.id].kind # "priming"}
  <2>1. scoped \in Seq(Event) /\ Range(scoped) = Range(after) \cap keep
    BY <1>3, <1>4, OnlyRange
  <2>2. missed \in Seq(Event) /\ Range(missed) = Range(scoped) \cap told
    BY <2>1, OnlyRange
  <2> QED
    BY <1>6, <2>1, <2>2
<1>9. \A j, k \in DOMAIN after : j < k => <<after[j], after[k]>> \in R
  <2> SUFFICES ASSUME NEW j \in DOMAIN after, NEW k \in DOMAIN after, j < k
               PROVE  <<after[j], after[k]>> \in R
    OBVIOUS
  <2>1. i + j < i + k /\ i + j \in DOMAIN s /\ i + k \in DOMAIN s
    BY <1>1, <1>3
  <2>2. after[j].id < after[k].id
    BY <1>2, <1>3, <2>1
  <2>3. after[j] \in Event /\ after[k] \in Event
    BY <1>3
  <2> QED
    BY <2>2, <2>3
<1> HIDE DEF R
<1>10. \A j, k \in DOMAIN missed : j < k => <<missed[j], missed[k]>> \in R
  <2>1. scoped \in Seq(Event)
    BY <1>3, <1>4, OnlyRange
  <2>2. \A j, k \in DOMAIN scoped : j < k => <<scoped[j], scoped[k]>> \in R
    BY <1>3, <1>4, <1>9, OnlyIncreasing
  <2> QED
    BY <2>1, <2>2, OnlyIncreasing
<1> HIDE DEF missed, told
<1>11. \A j, k \in DOMAIN missed : j < k => missed[j].id < missed[k].id
  BY <1>10 DEF R
<1>12. /\ DOMAIN missed = 1..Len(missed) /\ Len(missed) \in Nat
       /\ \A x : x \in Range(missed) <=> \E j \in DOMAIN missed : missed[j] = x
  BY <1>8, RangeOf
<1>13. \A j \in DOMAIN missed : missed[j].id \in Nat
  BY <1>1, <1>6, <1>8, <1>12
<1>14. /\ DOMAIN ids = DOMAIN missed /\ \A j \in DOMAIN ids : ids[j] = missed[j].id
       /\ ids \in [1..Len(missed) -> Nat]
  BY <1>12, <1>13
<1> HIDE DEF ids
<1>15. ids \in Seq(Nat)
  <2>1. Len(missed) \in Nat /\ ids \in [1..Len(missed) -> Nat]
    BY <1>12, <1>14
  <2>2. \E n \in Nat : ids \in [1..n -> Nat]
    BY <2>1
  <2> QED
    BY <2>2
<1>16. \A x : x \in Range(ids) <=> \E j \in DOMAIN ids : ids[j] = x
  BY DEF Range
<1>17. \A x \in Range(ids) : \E e \in Range(s) : e.id = x /\ e.id > s[i].id /\ Same(e)
  <2> SUFFICES ASSUME NEW j \in DOMAIN missed
               PROVE  missed[j] \in Range(s) /\ missed[j].id > s[i].id /\ Same(missed[j])
    BY <1>14, <1>16
  <2>1. missed[j] \in Range(after) /\ missed[j] \in keep
    BY <1>8, <1>12
  <2> QED
    BY <1>6, <2>1
<1>18. \A e \in Range(s) :
         e.id > s[i].id /\ Same(e) /\ log[e.id].kind # "priming" => e.id \in Range(ids)
  <2> SUFFICES ASSUME NEW e \in Range(s), e.id > s[i].id, Same(e), log[e.id].kind # "priming"
               PROVE  e.id \in Range(ids)
    OBVIOUS
  <2>1. e \in Range(missed)
    BY <1>7, <1>8
  <2> QED
    BY <1>12, <1>14, <1>16, <2>1
<1>19. Missed(s, i) = ids
  BY DEF Missed, ids, missed, told, scoped
<1> QED
  BY <1>11, <1>14, <1>15, <1>17, <1>18, <1>19

\* The events of a call whose request id nobody else uses.
LEMMA OwnEvents ==
  ASSUME TypeOK, Traffic, Store, NEW c \in Calls, ~Shared(c), NEW e \in Range(events), e.stream = c[2]
  PROVE  /\ e.session = c[1] /\ e.id \in Of(c) /\ e.id \in DOMAIN log /\ log[e.id].call = c
         /\ e.task # None => asks[c] = e.task
<1>1. /\ e.session \in Sessions /\ e.stream \in Requests
      /\ <<e.session, e.stream>> \in Calls /\ <<e.session, e.stream>>[1] = e.session
      /\ <<e.session, e.stream>>[2] = e.stream
  <2>1. e.session \in Sessions /\ e.stream \in Requests
    BY SeqTypes DEF Event
  <2> QED
    BY <2>1, Pairs
<1>2. /\ call[<<e.session, e.stream>>] # "unused" /\ e.id \in DOMAIN log
      /\ log[e.id].call[2] = e.stream
      /\ e.task # None => asks[<<e.session, e.stream>>] = e.task
  BY DEF Store
<1>3. <<e.session, e.stream>> = c
  BY <1>1, <1>2 DEF Shared
<1>4. log[e.id].call \in Calls /\ call[log[e.id].call] # "unused"
  BY <1>2, SeqTypes DEF Traffic
<1>5. log[e.id].call = c
  BY <1>2, <1>4 DEF Shared
<1>6. e.id \in Of(c)
  BY <1>2, <1>5 DEF Of
<1> QED
  BY <1>1, <1>2, <1>3, <1>5, <1>6

\* The last event a client has received.
LEMMA LastSeenIs ==
  ASSUME TypeOK, NEW c \in Calls, seen[c] # <<>>,
         \A i, j \in DOMAIN seen[c] : i < j => seen[c][i] < seen[c][j]
  PROVE  /\ LastSeen(c) \in Range(seen[c]) /\ LastSeen(c) \in Nat
         /\ \A x \in Range(seen[c]) : x \in Nat /\ x <= LastSeen(c)
<1>1. /\ DOMAIN seen[c] = 1..Len(seen[c]) /\ Len(seen[c]) \in Nat
      /\ seen[c] \in Seq(DOMAIN log) /\ DOMAIN log = 1..Len(log) /\ Len(log) \in Nat
      /\ \A x \in DOMAIN seen[c] : seen[c][x] \in DOMAIN log
  BY SeqTypes
<1>2. /\ \A x \in DOMAIN seen[c] : seen[c][x] \in Nat
      /\ \A x : x \in Range(seen[c]) <=> \E j \in DOMAIN seen[c] : seen[c][j] = x
  BY <1>1 DEF Range
<1>3. Len(seen[c]) \in DOMAIN seen[c]
  <2>1. Len(seen[c]) # 0
    BY <1>1
  <2> QED
    BY <1>1, <2>1
<1>4. ASSUME NEW j \in DOMAIN seen[c]  PROVE seen[c][j] <= seen[c][Len(seen[c])]
  <2>1. j < Len(seen[c]) \/ j = Len(seen[c])
    BY <1>1
  <2>2. seen[c][j] \in Nat /\ seen[c][Len(seen[c])] \in Nat
    BY <1>2, <1>3
  <2> QED
    BY <1>3, <2>1, <2>2
<1> QED
  BY <1>2, <1>3, <1>4 DEF LastSeen

LEMMA ReconnectStep ==
  ASSUME IInv, NEW c \in Calls, Reconnect(c)
  PROVE  IInv'
<1>0. TypeOK /\ Owners /\ Reporters /\ Traffic /\ Store /\ Complete
      /\ Connections /\ Received /\ Resumes
  BY DEF IInv
<1>1. /\ loop.step = "none" /\ c \notin open \cup resuming /\ seen[c] # <<>>
      /\ events' = KeptEvents(events) /\ maps' = KeptMaps
      /\ resuming' = resuming \cup {c}
      /\ UNCHANGED <<now, log, open, seen, late, drops, bridges, last, percent, run, asks, cancels, job, loop, call, wire>>
  BY DEF Reconnect, LoopAt, bridge, tasks
<1>2. PICK i \in Position(events', LastSeen(c)) :
        /\ Accepts(events', i, c[1])
        /\ replay' = [replay EXCEPT ![c] = Missed(events', i)]
  BY DEF Reconnect
<1> DEFINE a == events'[i]
           ids == Missed(events', i)
           k == LastSeen(c)
<1>3. now \in Nat
  BY <1>0 DEF TypeOK
<1>4. /\ EventsAre(events') /\ Len(events') <= MaxEvents /\ Range(events') \subseteq Range(events)
      /\ \A e \in Range(events'), f \in Range(events) : e.id < f.id => f \in Range(events')
      /\ events' \in Seq(Event)
  BY <1>0, <1>1, <1>3, EventsFit, LeftOfKept DEF LeftOf, EventsAre
<1>5. i \in DOMAIN events' /\ a.id = k /\ a \in Range(events') /\ a \in Range(events)
  <2>1. i \in DOMAIN events' /\ a.id = k
    BY DEF Position
  <2>2. a \in Range(events')
    BY <2>1 DEF Range
  <2> QED
    BY <1>4, <2>1, <2>2
<1>6. /\ maps' \in Seq(Mapping) /\ Len(maps') <= MaxMappings + 1 /\ Range(maps') \subseteq Range(maps)
  <2>1. maps' \in Seq(Mapping) /\ Len(maps') <= MaxMappings /\ Range(maps') \subseteq Range(maps)
    BY <1>0, <1>1, KeptMapsAre
  <2>2. MaxMappings \in Nat /\ Len(maps') \in Nat
    BY <2>1, BoundsAssumption
  <2> QED
    BY <2>1, <2>2
<1>7. a.task # None /\ a.session = c[1] /\ Mapped(maps, a.stream) # {}
  <2>1. /\ a.task # None /\ a.session = c[1]
        /\ \E m \in Mapped(KeptMaps, a.stream) : TRUE
    BY <1>2 DEF Accepts
  <2>2. Range(KeptMaps) \subseteq Range(maps)
    BY <1>0, KeptMapsAre
  <2> QED
    BY <2>1, <2>2 DEF Mapped
<1>8. /\ ids \in Seq(Nat)
      /\ \A j, l \in DOMAIN ids : j < l => ids[j] < ids[l]
      /\ \A x \in Range(ids) : \E e \in Range(events') :
            /\ e.id = x /\ e.id > k
            /\ e.session = a.session /\ e.stream = a.stream /\ e.task = a.task
      /\ \A e \in Range(events') :
            e.id > k /\ e.session = a.session /\ e.stream = a.stream
               /\ e.task = a.task /\ log[e.id].kind # "priming" => e.id \in Range(ids)
  <2>1. PICK s : s = events'
    OBVIOUS
  <2>2. EventsAre(s) /\ i \in DOMAIN s
    BY <1>4, <1>5, <2>1
  <2>3. ids = Missed(s, i)
    BY <1>1, <2>1 DEF Missed, Scoped
  <2> HIDE DEF ids
  <2>4. /\ ids \in Seq(Nat)
        /\ \A j, l \in DOMAIN ids : j < l => ids[j] < ids[l]
        /\ \A x \in Range(ids) : \E e \in Range(s) :
              /\ e.id = x /\ e.id > s[i].id
              /\ e.session = s[i].session /\ e.stream = s[i].stream /\ e.task = s[i].task
        /\ \A e \in Range(s) :
              e.id > s[i].id /\ e.session = s[i].session /\ e.stream = s[i].stream
                 /\ e.task = s[i].task /\ log[e.id].kind # "priming" => e.id \in Range(ids)
    BY <2>2, <2>3, ReplayIs
  <2> QED
    BY <1>5, <2>1, <2>4
<1>9. replay' = [replay EXCEPT ![c] = ids]
  BY <1>2
<1> HIDE DEF ids, a, k
<1>10. /\ replay \in [Calls -> Seq(DOMAIN log)] /\ DOMAIN log \subseteq Nat
       /\ resuming \subseteq Calls
  <2>1. DOMAIN log = 1..Len(log) /\ Len(log) \in Nat
    BY <1>0, SeqTypes
  <2> QED
    BY <1>0, <2>1 DEF TypeOK
<1>11. \A e \in Range(events) : e.id \in DOMAIN log
  BY <1>0 DEF Store
<1>12. Range(ids) \subseteq DOMAIN log
  BY <1>4, <1>8, <1>11
<1>13. ids \in Seq(DOMAIN log)
  <2>1. \A j \in DOMAIN ids : ids[j] \in DOMAIN log
    BY <1>12 DEF Range
  <2>2. Len(ids) \in Nat /\ DOMAIN ids = 1..Len(ids) /\ ids = [j \in DOMAIN ids |-> ids[j]]
    BY <1>8
  <2>3. ids \in [1..Len(ids) -> DOMAIN log]
    BY <2>1, <2>2
  <2>4. \E m \in Nat : ids \in [1..m -> DOMAIN log]
    BY <2>2, <2>3
  <2> QED
    BY <2>4
<1>14. /\ replay'[c] = ids /\ replay' \in [Calls -> Seq(DOMAIN log)]
       /\ \A d \in Calls : d # c => replay'[d] = replay[d]
  BY <1>9, <1>10, <1>13
<1>15. TypeOK'
  BY <1>0, <1>1, <1>4, <1>6, <1>14 DEF TypeOK
<1>16. Owners' /\ Reporters' /\ Traffic'
  BY <1>0, <1>1, <1>6 DEF Owners, Reporters, Traffic, Waiting
<1>17. Store'
  BY <1>0, <1>1, <1>4 DEF Store, EventsAre
<1>18. \A d \in Calls : Shared(d)' <=> Shared(d)
  BY <1>1 DEF Shared
<1>19. \A d : Of(d)' = Of(d)
  BY <1>1 DEF Of
<1>20. Complete'
  <2> SUFFICES ASSUME NEW d \in Calls, ~Shared(d)',
                      Mapped(maps', d[2]) # {} \/ \A x \in Of(d)' : log'[x].kind = "priming",
                      NEW x \in Of(d)', NEW e \in Range(events'), e.id < x
               PROVE  \E f \in Range(events') : f.id = x
    BY DEF Complete
  <2>1. ~Shared(d) /\ x \in Of(d) /\ e \in Range(events)
    BY <1>4, <1>18, <1>19
  <2>2. Mapped(maps, d[2]) # {} \/ \A y \in Of(d) : log[y].kind = "priming"
    BY <1>1, <1>6, <1>19 DEF Mapped
  <2>3. PICK f \in Range(events) : f.id = x
    BY <1>0, <2>1, <2>2 DEF Complete
  <2> QED
    BY <1>4, <2>3
<1>21. Connections' /\ Received'
  <2>1. call[c] # "unused"
    BY <1>0, <1>1 DEF Connections
  <2>2. Connections'
    BY <1>0, <1>1, <2>1 DEF Connections
  <2> QED
    BY <1>0, <1>1, <1>18, <1>19, <2>2 DEF Received
<1>22. Resumes'
  <2>1. ASSUME NEW d \in resuming, ~Shared(d), d # c
        PROVE  /\ Range(replay'[d]) \subseteq Of(d)
               /\ \A x, y \in DOMAIN replay'[d] : x < y => replay'[d][x] < replay'[d][y]
               /\ \A x \in Range(seen[d]), y \in Range(replay'[d]) : x < y
               /\ Of(d) \subseteq Range(seen[d]) \cup Range(replay'[d]) \cup late
    BY <1>0, <1>10, <1>14, <2>1 DEF Resumes
  <2>2. ASSUME ~Shared(c)
        PROVE  /\ Range(replay'[c]) \subseteq Of(c)
               /\ \A x, y \in DOMAIN replay'[c] : x < y => replay'[c][x] < replay'[c][y]
               /\ \A x \in Range(seen[c]), y \in Range(replay'[c]) : x < y
               /\ Of(c) \subseteq Range(seen[c]) \cup Range(replay'[c]) \cup late
    <3>1. /\ Range(seen[c]) \subseteq Of(c)
          /\ \A x, y \in DOMAIN seen[c] : x < y => seen[c][x] < seen[c][y]
          /\ \A x \in Of(c), y \in Range(seen[c]) : x < y => x \in Range(seen[c]) \cup late
      BY <1>0, <2>2 DEF Received
    <3>2. k \in Range(seen[c]) /\ k \in Nat /\ \A x \in Range(seen[c]) : x \in Nat /\ x <= k
      BY <1>0, <1>1, <3>1, LastSeenIs DEF k
    <3>3. a.stream = c[2] /\ asks[c] = a.task /\ k \in Of(c)
      <4>1. k \in Of(c) /\ log[k].call = c
        BY <3>1, <3>2 DEF Of
      <4>2. a.stream = c[2]
        BY <1>0, <1>5, <4>1 DEF Store
      <4> QED
        BY <1>0, <1>5, <1>7, <2>2, <4>1, <4>2, OwnEvents
    <3>4. \A x \in Range(ids) : x \in Of(c) /\ x > k
      <4> SUFFICES ASSUME NEW x \in Range(ids)  PROVE x \in Of(c) /\ x > k
        OBVIOUS
      <4>1. PICK e \in Range(events') : e.id = x /\ e.id > k /\ e.stream = a.stream
        BY <1>8
      <4>2. e \in Range(events) /\ e.stream = c[2]
        BY <1>4, <3>3, <4>1
      <4> QED
        BY <1>0, <2>2, <4>1, <4>2, OwnEvents
    <3>5. \A x \in Of(c) : x > k => x \in Range(ids)
      <4> SUFFICES ASSUME NEW x \in Of(c), x > k  PROVE x \in Range(ids)
        OBVIOUS
      <4>1. x \in DOMAIN log /\ log[x].call = c /\ x \in Nat
        BY <1>10 DEF Of
      <4>2. k < x
        BY <3>2, <4>1
      <4>3. Mapped(maps, c[2]) # {}
        BY <1>7, <3>3
      <4>4. PICK f \in Range(events) : f.id = x
        BY <1>0, <1>5, <2>2, <4>2, <4>3 DEF Complete
      <4>5. f \in Range(events')
        BY <1>4, <1>5, <4>2, <4>4
      <4>6. f.stream = c[2]
        BY <1>0, <4>1, <4>4 DEF Store
      <4>7. log[x].kind # "priming"
        <5>1. k \in DOMAIN log /\ log[k].call = c
          BY <3>3 DEF Of
        <5>2. ~(x <= k)
          BY <3>2, <4>1, <4>2
        <5> QED
          BY <1>0, <4>1, <5>1, <5>2 DEF Traffic
      <4>8. f.task # None
        BY <1>0, <4>4, <4>7 DEF Store
      <4>9. f.session = c[1] /\ f.task = asks[c]
        BY <1>0, <2>2, <4>6, <4>8, OwnEvents
      <4> QED
        BY <1>7, <1>8, <3>3, <4>2, <4>4, <4>5, <4>6, <4>7, <4>9
    <3>6. Of(c) \subseteq Nat
      BY <1>10 DEF Of
    <3>7. \A x \in Of(c) : x \in Range(seen[c]) \cup Range(ids) \cup late
      <4> SUFFICES ASSUME NEW x \in Of(c)  PROVE x \in Range(seen[c]) \cup Range(ids) \cup late
        OBVIOUS
      <4>1. x < k \/ x = k \/ x > k
        BY <3>2, <3>6
      <4> QED
        BY <3>1, <3>2, <3>5, <4>1
    <3>8. \A x \in Range(seen[c]), y \in Range(ids) : x < y
      <4> SUFFICES ASSUME NEW x \in Range(seen[c]), NEW y \in Range(ids)  PROVE x < y
        OBVIOUS
      <4>1. x <= k /\ k < y /\ x \in Nat /\ y \in Nat /\ k \in Nat
        BY <1>10, <1>12, <3>2, <3>4
      <4> QED
        BY <4>1
    <3> QED
      BY <1>8, <1>14, <3>4, <3>7, <3>8
  <2> QED
    BY <1>1, <1>10, <1>18, <1>19, <2>1, <2>2 DEF Resumes
<1>23. Rising'
  BY <1>1, QuietRising
<1> QED
  BY <1>15, <1>16, <1>17, <1>20, <1>21, <1>22, <1>23 DEF IInv

\* It is sent the next thing it missed.
LEMMA SendMissedStep ==
  ASSUME IInv, NEW c \in Calls, SendMissed(c)
  PROVE  IInv'
<1>0. TypeOK /\ Owners /\ Reporters /\ Traffic /\ Store /\ Complete
      /\ Connections /\ Received /\ Resumes
  BY DEF IInv
<1> DEFINE x == Head(replay[c])
           r == Tail(replay[c])
<1>1. /\ c \in resuming /\ replay[c] # <<>>
      /\ seen' = [seen EXCEPT ![c] = Append(@, x)] /\ replay' = [replay EXCEPT ![c] = r]
      /\ UNCHANGED <<now, log, events, open, resuming, late, drops, maps, bridges, last, percent, run,
                     asks, cancels, job, loop, call, wire>>
  BY DEF SendMissed, bridge, tasks
<1>2. /\ seen \in [Calls -> Seq(DOMAIN log)] /\ replay \in [Calls -> Seq(DOMAIN log)]
      /\ DOMAIN log \subseteq Nat /\ resuming \subseteq Calls
  BY <1>0, SeqTypes DEF TypeOK
<1>3. /\ x \in DOMAIN log /\ x \in Nat /\ r \in Seq(DOMAIN log)
      /\ x = replay[c][1] /\ 1 \in DOMAIN replay[c]
      /\ \A i \in DOMAIN r : i + 1 \in DOMAIN replay[c] /\ i + 1 > 1 /\ r[i] = replay[c][i + 1] /\ i \in Nat
  <2>1. replay[c] \in Seq(DOMAIN log)
    BY <1>2
  <2> QED
    BY <1>1, <1>2, <2>1, HeadTail
<1>4. Range(replay[c]) = {x} \cup Range(r)
  <2>1. replay[c] \in Seq(DOMAIN log)
    BY <1>2
  <2>2. \A i \in DOMAIN replay[c] : i = 1 \/ (i - 1 \in DOMAIN r /\ replay[c][i] = r[i - 1])
    BY <1>1, <2>1
  <2>3. \A y \in Range(replay[c]) : y = x \/ y \in Range(r)
    <3>1. \A i \in DOMAIN r : r[i] \in Range(r)
      BY DEF Range
    <3>2. \A i \in DOMAIN replay[c] : replay[c][i] = x \/ replay[c][i] \in Range(r)
      BY <1>3, <2>2, <3>1
    <3> QED
      BY <3>2 DEF Range
  <2>4. \A y \in Range(r) : y \in Range(replay[c])
    BY <1>3 DEF Range
  <2>5. x \in Range(replay[c])
    BY <1>3 DEF Range
  <2> QED
    BY <2>3, <2>4, <2>5
<1> HIDE DEF x, r
<1>5. /\ seen'[c] = Append(seen[c], x) /\ replay'[c] = r
      /\ \A d \in Calls : d # c => seen'[d] = seen[d] /\ replay'[d] = replay[d]
  BY <1>1, <1>2
<1>6. Range(seen'[c]) = Range(seen[c]) \cup {x} /\ seen'[c] \in Seq(DOMAIN log)
  <2>1. seen[c] \in Seq(DOMAIN log)
    BY <1>2
  <2> QED
    BY <1>3, <1>5, <2>1, AppendRange
<1>7. seen' \in [Calls -> Seq(DOMAIN log)] /\ replay' \in [Calls -> Seq(DOMAIN log)]
  <2>1. Append(seen[c], x) \in Seq(DOMAIN log)
    BY <1>5, <1>6
  <2> QED
    BY <1>1, <1>2, <1>3, <2>1
<1>8. TypeOK'
  BY <1>0, <1>1, <1>7 DEF TypeOK
<1>9. Owners' /\ Reporters' /\ Traffic'
  BY <1>0, <1>1 DEF Owners, Reporters, Traffic, Waiting
<1>10. \A d : Of(d)' = Of(d) /\ (Shared(d)' <=> Shared(d))
  BY <1>1 DEF Of, Shared
<1>11. Store' /\ Complete'
  BY <1>0, <1>1, <1>10 DEF Store, Complete, Ordered, Mapped
<1>12. Connections'
  BY <1>0, <1>1, <1>5 DEF Connections
<1>13. ASSUME ~Shared(c)
       PROVE  /\ x \in Of(c) /\ Range(seen[c]) \subseteq Of(c)
              /\ \A k \in Range(seen[c]) : k < x
              /\ \A i \in Range(r) : x < i /\ i \in Of(c)
              /\ \A i, j \in DOMAIN r : i < j => r[i] < r[j]
              /\ \A i, j \in DOMAIN seen'[c] : i < j => seen'[c][i] < seen'[c][j]
              /\ \A i \in Of(c), k \in Range(seen[c]) : i < k => i \in Range(seen[c]) \cup late
              /\ \A k \in Range(seen[c]), i \in Range(r) : k < i
              /\ Of(c) \subseteq Range(seen[c]) \cup {x} \cup Range(r) \cup late
  <2>1. /\ Range(replay[c]) \subseteq Of(c)
        /\ \A i, j \in DOMAIN replay[c] : i < j => replay[c][i] < replay[c][j]
        /\ \A k \in Range(seen[c]), i \in Range(replay[c]) : k < i
        /\ Of(c) \subseteq Range(seen[c]) \cup Range(replay[c]) \cup late
    BY <1>0, <1>1, <1>13 DEF Resumes
  <2>2. /\ Range(seen[c]) \subseteq Of(c)
        /\ \A i, j \in DOMAIN seen[c] : i < j => seen[c][i] < seen[c][j]
        /\ \A i \in Of(c), k \in Range(seen[c]) : i < k => i \in Range(seen[c]) \cup late
    BY <1>0, <1>13 DEF Received
  <2>3. \A i \in DOMAIN r : x < r[i]
    BY <1>3, <2>1
  <2>4. \A i, j \in DOMAIN r : i < j => r[i] < r[j]
    <3> SUFFICES ASSUME NEW i \in DOMAIN r, NEW j \in DOMAIN r, i < j  PROVE r[i] < r[j]
      OBVIOUS
    <3>1. i + 1 < j + 1 /\ i + 1 \in DOMAIN replay[c] /\ j + 1 \in DOMAIN replay[c]
      BY <1>3
    <3> QED
      BY <1>3, <2>1, <3>1
  <2>5. \A i, j \in DOMAIN seen'[c] : i < j => seen'[c][i] < seen'[c][j]
    <3>1. seen[c] \in Seq(Nat)
      BY <1>2
    <3>2. \A k \in Range(seen[c]) : k < x
      BY <1>4, <2>1
    <3> QED
      BY <1>3, <1>5, <2>2, <3>1, <3>2, AppendAscends
  <2>6. \A i \in Range(r) : x < i
    BY <2>3 DEF Range
  <2> QED
    BY <1>4, <2>1, <2>2, <2>4, <2>5, <2>6
<1>14. Received'
  <2>1. ASSUME NEW d \in Calls, ~Shared(d), d # c
        PROVE  /\ Range(seen'[d]) \subseteq Of(d)
               /\ \A i, j \in DOMAIN seen'[d] : i < j => seen'[d][i] < seen'[d][j]
               /\ \A i \in Of(d), k \in Range(seen'[d]) : i < k => i \in Range(seen'[d]) \cup late
               /\ d \in open => Of(d) \subseteq Range(seen'[d]) \cup late
    BY <1>0, <1>5, <2>1 DEF Received
  <2>2. ASSUME ~Shared(c)
        PROVE  /\ Range(seen'[c]) \subseteq Of(c)
               /\ \A i, j \in DOMAIN seen'[c] : i < j => seen'[c][i] < seen'[c][j]
               /\ \A i \in Of(c), k \in Range(seen'[c]) : i < k => i \in Range(seen'[c]) \cup late
               /\ c \in open => Of(c) \subseteq Range(seen'[c]) \cup late
    <3>1. c \notin open
      BY <1>0, <1>1 DEF Connections
    <3>2. \A i \in Of(c), k \in Range(seen'[c]) : i < k => i \in Range(seen'[c]) \cup late
      <4> SUFFICES ASSUME NEW i \in Of(c), i < x, i \notin Range(seen[c]) \cup late  PROVE FALSE
        BY <1>6, <1>13, <2>2
      <4>1. i = x \/ i \in Range(r)
        BY <1>13, <2>2
      <4>2. i \in Nat
        BY <1>2 DEF Of
      <4>3. ~(x < i) /\ i # x
        BY <1>3, <4>2
      <4> QED
        BY <1>13, <2>2, <4>1, <4>3
    <3> QED
      BY <1>6, <1>13, <2>2, <3>1, <3>2
  <2> QED
    BY <1>1, <1>10, <2>1, <2>2 DEF Received
<1>15. Resumes'
  <2>1. ASSUME NEW d \in resuming, ~Shared(d), d # c
        PROVE  /\ Range(replay'[d]) \subseteq Of(d)
               /\ \A i, j \in DOMAIN replay'[d] : i < j => replay'[d][i] < replay'[d][j]
               /\ \A k \in Range(seen'[d]), i \in Range(replay'[d]) : k < i
               /\ Of(d) \subseteq Range(seen'[d]) \cup Range(replay'[d]) \cup late
    BY <1>0, <1>2, <1>5, <2>1 DEF Resumes
  <2>2. ASSUME ~Shared(c)
        PROVE  /\ Range(replay'[c]) \subseteq Of(c)
               /\ \A i, j \in DOMAIN replay'[c] : i < j => replay'[c][i] < replay'[c][j]
               /\ \A k \in Range(seen'[c]), i \in Range(replay'[c]) : k < i
               /\ Of(c) \subseteq Range(seen'[c]) \cup Range(replay'[c]) \cup late
    BY <1>5, <1>6, <1>13, <2>2
  <2> QED
    BY <1>1, <1>10, <2>1, <2>2 DEF Resumes
<1>16. Rising'
  BY <1>1, QuietRising
<1> QED
  BY <1>8, <1>9, <1>11, <1>12, <1>14, <1>15, <1>16 DEF IInv

\* Its stream is connected again.
LEMMA ReopenStep ==
  ASSUME IInv, NEW c \in Calls, Reopen(c)
  PROVE  IInv'
<1>0. TypeOK /\ Owners /\ Reporters /\ Traffic /\ Store /\ Complete
      /\ Connections /\ Received /\ Resumes
  BY DEF IInv
<1>1. /\ c \in resuming /\ replay[c] = <<>>
      /\ open' = open \cup {c} /\ resuming' = resuming \ {c}
      /\ UNCHANGED <<now, log, events, replay, seen, late, drops, maps, bridges, last, percent, run,
                     asks, cancels, job, loop, call, wire>>
  BY DEF Reopen, bridge, tasks
<1>2. Range(replay[c]) = {}
  BY <1>1 DEF Range
<1>3. TypeOK'
  BY <1>0, <1>1 DEF TypeOK
<1>4. Owners' /\ Reporters' /\ Traffic'
  BY <1>0, <1>1 DEF Owners, Reporters, Traffic, Waiting
<1>5. \A d : Of(d)' = Of(d) /\ (Shared(d)' <=> Shared(d))
  BY <1>1 DEF Of, Shared
<1>6. Store' /\ Complete'
  BY <1>0, <1>1, <1>5 DEF Store, Complete, Ordered, Mapped
<1>7. Connections'
  BY <1>0, <1>1 DEF Connections
<1>8. Received'
  <2>1. ~Shared(c) => Of(c) \subseteq Range(seen[c]) \cup late
    BY <1>0, <1>1, <1>2 DEF Resumes
  <2> QED
    BY <1>0, <1>1, <1>5, <2>1 DEF Received
<1>9. Resumes'
  BY <1>0, <1>1, <1>5 DEF Resumes
<1>10. Rising'
  BY <1>1, QuietRising
<1> QED
  BY <1>3, <1>4, <1>6, <1>7, <1>8, <1>9, <1>10 DEF IInv

-----------------------------------------------------------------------------
\* The inductive invariant.

LEMMA ProgressInit == Init => IInv
<1> SUFFICES ASSUME Init  PROVE IInv
  OBVIOUS
<1>0. MaxFaults \in Nat /\ MaxEvents \in Nat \ {0} /\ MaxMappings \in Nat \ {0}
  BY BoundsAssumption
<1>1. /\ now = 0 /\ log = <<>> /\ events = <<>> /\ maps = <<>>
      /\ bridges = [t \in Tasks |-> None] /\ last = [c \in Calls |-> -1]
      /\ percent = [t \in Tasks |-> -1] /\ run = [t \in Tasks |-> "none"]
      /\ job = [p \in Threads |-> NoJob] /\ loop = NoOp
      /\ call = [c \in Calls |-> "unused"] /\ wire = [s \in Sessions |-> <<>>]
      /\ open = {} /\ resuming = {} /\ late = {} /\ seen = [c \in Calls |-> <<>>]
      /\ replay = [c \in Calls |-> <<>>] /\ asks = [c \in Calls |-> None]
      /\ cancels = 0 /\ drops = 0
  BY DEF Init
<1>2. /\ DOMAIN log = {} /\ Range(events) = {} /\ Range(maps) = {}
      /\ \A c \in Calls : Of(c) = {} /\ Range(seen[c]) = {} /\ DOMAIN seen[c] = {}
      /\ \A s \in Sessions : DOMAIN wire[s] = {}
      /\ DOMAIN events = {} /\ Len(events) = 0 /\ Len(maps) = 0
  BY <1>1 DEF Of, Range
<1>3. TypeOK
  <2>1. loop \in Op /\ \A p \in Threads : job[p] \in Job
    BY <1>1, NoJobIs DEF Op, NoOp, Percents
  <2>2. job \in [Threads -> Job]
    BY <1>1, <2>1
  <2>3. /\ seen \in [Calls -> Seq(DOMAIN log)] /\ replay \in [Calls -> Seq(DOMAIN log)]
        /\ wire \in [Sessions -> Seq(Message)]
    BY <1>1
  <2>4. last \in [Calls -> -1..100]
    <3>1. -1 \in -1..100
      OBVIOUS
    <3> QED
      BY <1>1, <3>1
  <2> QED
    BY <1>0, <1>1, <1>2, <2>1, <2>2, <2>3, <2>4 DEF TypeOK
<1>4. Owners
  <2>1. \A t \in Tasks : percent[t] = -1 /\ bridges[t] = None /\ t # None
    BY <1>1, NamesAssumption
  <2>2. loop.step = "none" /\ \A c \in Calls : asks[c] = None
    BY <1>1 DEF NoOp
  <2> QED
    BY <1>2, <2>1, <2>2 DEF Owners
<1>5. Reporters
  BY <1>1, NoJobIs DEF Reporters
<1>6. Traffic
  BY <1>2 DEF Traffic
<1>7. Store /\ Complete /\ Connections /\ Received /\ Resumes
  BY <1>1, <1>2 DEF Store, Ordered, Complete, Connections, Received, Resumes
<1>8. Rising
  BY <1>1 DEF Rising
<1> QED
  BY <1>3, <1>4, <1>5, <1>6, <1>7, <1>8 DEF IInv

LEMMA ProgressInductive == IInv /\ [Next]_vars => IInv'
<1> SUFFICES ASSUME IInv, [Next]_vars  PROVE IInv'
  OBVIOUS
<1>0. Loop \in Threads /\ Tasks \subseteq Threads
  BY TaskThreads
<1>1. CASE LoopStep
  <2>1. CASE Notify(Loop)
    BY <1>0, <2>1, ReadStep, SendStep, CleanStep DEF Notify
  <2> QED
    BY <1>1, <2>1, RegisterStep, SubmitStep, WriteCancelStep, SettleStep DEF LoopStep
<1>2. ASSUME NEW t \in Tasks, Thread(t)  PROVE IInv'
  <2>1. CASE Notify(t)
    BY <1>0, <2>1, ReadStep, SendStep, CleanStep DEF Notify
  <2> QED
    BY <1>2, <2>1, ThreadStep DEF Thread
<1>3. ASSUME NEW c \in Calls, Post(c) \/ Tool(c) \/ Disconnect(c) \/ Reconnect(c)
                              \/ SendMissed(c) \/ Reopen(c) \/ \E t \in Tasks : Start(c, t)
      PROVE  IInv'
  BY <1>3, PostStep, ToolStep, DisconnectStep, ReconnectStep, SendMissedStep, ReopenStep,
     StartStep
<1>4. CASE Tick
  BY <1>4, TickStep
<1>5. CASE UNCHANGED vars
  BY <1>5, StutterStep
<1> QED
  BY <1>1, <1>2, <1>3, <1>4, <1>5, CancelStep, DeliverStep DEF Next

LEMMA ProgressInvariant == Spec => []IInv
<1>1. Init => IInv
  BY ProgressInit
<1>2. IInv /\ [Next]_vars => IInv'
  BY ProgressInductive
<1> QED
  BY <1>1, <1>2, PTL DEF Spec

-----------------------------------------------------------------------------
\* What follows from it.

LEMMA NoGapHolds == ASSUME IInv PROVE NoGap
<1>0. TypeOK /\ Received
  BY DEF IInv
<1> SUFFICES ASSUME NEW c \in Calls, ~Shared(c), seen[c] # <<>>
             PROVE  /\ \A i, j \in DOMAIN seen[c] : i < j => seen[c][i] < seen[c][j]
                    /\ Range(seen[c]) \subseteq Of(c)
                    /\ {i \in Of(c) : i <= LastSeen(c)} \subseteq Range(seen[c]) \cup late
  BY DEF NoGap
<1>1. /\ Range(seen[c]) \subseteq Of(c)
      /\ \A i, j \in DOMAIN seen[c] : i < j => seen[c][i] < seen[c][j]
      /\ \A i \in Of(c), x \in Range(seen[c]) : i < x => i \in Range(seen[c]) \cup late
  BY <1>0 DEF Received
<1>2. LastSeen(c) \in Range(seen[c]) /\ LastSeen(c) \in Nat
  BY <1>0, <1>1, LastSeenIs
<1>3. Of(c) \subseteq Nat
  BY <1>0, SeqTypes DEF Of
<1>4. ASSUME NEW i \in Of(c), i <= LastSeen(c)  PROVE i \in Range(seen[c]) \cup late
  <2>1. i = LastSeen(c) \/ i < LastSeen(c)
    BY <1>2, <1>3, <1>4
  <2> QED
    BY <1>1, <1>2, <2>1
<1> QED
  BY <1>1, <1>4

LEMMA ReplayHolds == ASSUME IInv PROVE ReplayAvailable
<1>0. TypeOK /\ Owners /\ Traffic /\ Store /\ Received
  BY DEF IInv
<1> SUFFICES ASSUME NEW c \in Calls, ~Shared(c), asks[c] # None, seen[c] # <<>>,
                    NEW i \in Position(KeptEvents(events), LastSeen(c)),
                    Mapped(KeptMaps, c[2]) # {},
                    NEW j \in DOMAIN events, events[j].id > LastSeen(c), events[j].stream = c[2]
             PROVE  Accepts(KeptEvents(events), i, c[1])
  BY DEF ReplayAvailable
<1> DEFINE s == KeptEvents(events)
           k == LastSeen(c)
           a == s[i]
           f == events[j]
<1>1. now \in Nat
  BY <1>0 DEF TypeOK
<1>2. Range(s) \subseteq Range(events)
  BY <1>0, <1>1, EventsFit, LeftOfKept DEF LeftOf
<1>3. i \in DOMAIN s /\ a.id = k /\ a \in Range(s) /\ a \in Range(events)
  <2>1. i \in DOMAIN s /\ a.id = k
    BY DEF Position
  <2> HIDE DEF s
  <2>2. a \in Range(s)
    BY <2>1 DEF Range
  <2> QED
    BY <1>2, <2>1, <2>2
<1>4. f \in Range(events) /\ f.id > k /\ f.stream = c[2]
  BY DEF Range
<1>5. k \in Of(c)
  <2>1. Len(seen[c]) \in DOMAIN seen[c]
    <3>1. Len(seen[c]) # 0 /\ Len(seen[c]) \in Nat /\ DOMAIN seen[c] = 1..Len(seen[c])
      <4>1. seen[c] \in Seq(DOMAIN log)
        BY <1>0, SeqTypes
      <4> QED
        BY <4>1
    <3> QED
      BY <3>1
  <2>2. k \in Range(seen[c])
    BY <2>1 DEF LastSeen, Range
  <2> QED
    BY <1>0, <2>2 DEF Received
<1> HIDE DEF s, k, a, f
<1>6. a.stream = c[2]
  BY <1>0, <1>3, <1>5 DEF Store, Of
<1>7. a.session = c[1] /\ f.session = c[1]
  BY <1>0, <1>3, <1>4, <1>6, OwnEvents
<1>8. a.task # None
  <2>1. a.id \in Nat /\ f.id \in Nat
    BY <1>0, <1>3, <1>4, EventsFit DEF EventsAre
  <2>2. a.id < f.id
    BY <1>3, <1>4, <2>1
  <2> QED
    BY <1>0, <1>3, <1>4, <1>6, <1>7, <2>2 DEF Store
<1>9. a.task = asks[c]
  BY <1>0, <1>3, <1>6, <1>8, OwnEvents
<1>10. PICK m \in Range(KeptMaps) : m.request = c[2]
  BY DEF Mapped
<1>11. m \in Range(maps)
  BY <1>0, KeptMapsAre
<1>12. m \in Mapping /\ m.session \in Sessions /\ m.task # None /\ asks[<<m.session, c[2]>>] = m.task
  <2>1. m \in Mapping /\ asks[<<m.session, m.request>>] = m.task
    BY <1>0, <1>11, SeqTypes DEF Owners
  <2>2. m.session \in Sessions /\ m.task \in Tasks
    BY <2>1 DEF Mapping
  <2> QED
    BY <1>10, <2>1, <2>2, NamesAssumption
<1>13. <<m.session, c[2]>> \in Calls /\ <<m.session, c[2]>>[1] = m.session /\ <<m.session, c[2]>>[2] = c[2]
  BY <1>12, CallsAre, Pairs
<1>14. <<m.session, c[2]>> = c
  <2>1. call[<<m.session, c[2]>>] # "unused"
    BY <1>0, <1>12, <1>13 DEF Owners
  <2> QED
    BY <1>13, <2>1 DEF Shared
<1>15. m.session = c[1] /\ m.task = a.task
  BY <1>9, <1>12, <1>13, <1>14
<1>16. m \in Mapped(KeptMaps, a.stream)
  BY <1>6, <1>10 DEF Mapped
<1>17. /\ a.task # None /\ a.session = c[1]
       /\ \E x \in Mapped(KeptMaps, a.stream) : x.task = a.task /\ x.session = c[1]
  BY <1>7, <1>8, <1>15, <1>16
<1> QED
  BY <1>17 DEF Accepts, s, a

LEMMA MonotonicHolds == ASSUME IInv PROVE MonotonicAlone
BY DEF IInv, Rising, Climbs, MonotonicAlone

\* Every variable of the bridge keeps its type: the store and the request mappings
\* within the limits of _BoundedWorkflowTaskEventStore, the progress between -1 and 100.
THEOREM ProgressTypeCorrect == Spec => []TypeOK
<1>1. IInv => TypeOK
  BY DEF IInv
<1> QED
  BY <1>1, ProgressInvariant, PTL

\* replay_events_after: a client whose request id no other session uses has the
\* beginning of what was routed to it, each event once and in order, but for what was
\* routed to it while it was being sent what it had missed.
THEOREM ProgressNoGap == Spec => []NoGap
<1>1. IInv => NoGap
  BY NoGapHolds
<1> QED
  BY <1>1, ProgressInvariant, PTL

\* replay_events_after: a client is refused only when its mapping was dropped or
\* nothing of its task was stored since.
THEOREM ProgressReplay == Spec => []ReplayAvailable
<1>1. IInv => ReplayAvailable
  BY ReplayHolds
<1> QED
  BY <1>1, ProgressInvariant, PTL

\* _workflow_task_emit_progress: what the client of a task that is started once and
\* not cancelled is sent never goes down.
THEOREM ProgressMonotonicAlone == Spec => []MonotonicAlone
<1>1. IInv => MonotonicAlone
  BY MonotonicHolds
<1> QED
  BY <1>1, ProgressInvariant, PTL
=============================================================================
