-------------------------- MODULE SubsequenceProofs -------------------------
(***************************************************************************)
(* What Only returns, for any sequence and any set, and facts about parts  *)
(* of sequences, concatenation and going through a sequence by induction.  *)
(*                                                                         *)
(* The library's induction theorems take an operator, which the provers    *)
(* cannot find for themselves; induction is done here from the least       *)
(* number that is not in a set.                                            *)
(***************************************************************************)
EXTENDS Subsequences, Integers, SequenceTheorems, WellFoundedInduction, TLAPS

-----------------------------------------------------------------------------
\* Induction.

Below == {ss \in Nat \X Nat : ss[1] < ss[2]}
LEMMA BelowWellFounded == IsWellFoundedOn(Below, Nat)
  BY NatLessThanWellFounded, Zenon DEF OpToRel, Below

\* A set of natural numbers has a least one.
LEMMA LeastNumber ==
  ASSUME NEW S, S \subseteq Nat, S # {}
  PROVE  \E i \in S : \A k \in S : i <= k
<1>1. PICK i \in S : \A k \in S : ~(<<k, i>> \in Below)
  BY WFMin, BelowWellFounded, Zenon
<1>2. \A k \in S : ~(k < i)
  BY <1>1 DEF Below
<1> QED
  BY <1>2

\* A set that has 0, and with a number the next one as far as n, has all of them.
LEMMA UpTo ==
  ASSUME NEW n \in Nat, NEW G, 0 \in G, \A i \in 0..(n - 1) : i \in G => i + 1 \in G
  PROVE  \A i \in 0..n : i \in G
<1> DEFINE Bad == {i \in 0..n : i \notin G}
<1>1. SUFFICES ASSUME Bad # {}  PROVE FALSE
  OBVIOUS
<1>2. PICK i \in Bad : \A k \in Bad : i <= k
  <2>1. Bad \subseteq Nat
    OBVIOUS
  <2> HIDE DEF Bad
  <2> QED
    BY <1>1, <2>1, LeastNumber
<1>3. i # 0 /\ i - 1 \in 0..(n - 1) /\ i - 1 \notin Bad
  BY <1>2
<1> QED
  BY <1>2, <1>3

-----------------------------------------------------------------------------
(***************************************************************************)
(* The recursion has a solution, and only one.                             *)
(***************************************************************************)

Kept(f, s, n, keep) ==
    f = [i \in 0..n |-> IF i = 0 THEN <<>>
                        ELSE IF s[i] \in keep THEN Append(f[i - 1], s[i]) ELSE f[i - 1]]

LEMMA KeptOne ==
  ASSUME NEW s, NEW keep, NEW n \in Nat, NEW f, Kept(f, s, n, keep)
  PROVE  \E g : Kept(g, s, n + 1, keep)
<1> DEFINE h == IF s[n + 1] \in keep THEN Append(f[n], s[n + 1]) ELSE f[n]
           g == [i \in 0..(n + 1) |-> IF i = n + 1 THEN h ELSE f[i]]
<1>1. \A i \in 0..n : g[i] = f[i]
  OBVIOUS
<1>2. \A i \in 0..n : f[i] = IF i = 0 THEN <<>>
                              ELSE IF s[i] \in keep THEN Append(f[i - 1], s[i]) ELSE f[i - 1]
  BY DEF Kept
<1>3. ASSUME NEW i \in 0..(n + 1)
      PROVE  g[i] = IF i = 0 THEN <<>>
                    ELSE IF s[i] \in keep THEN Append(g[i - 1], s[i]) ELSE g[i - 1]
  <2>1. CASE i = n + 1
    <3>1. i # 0 /\ i - 1 = n /\ g[i] = h /\ g[n] = f[n]
      BY <2>1
    <3> QED
      BY <3>1, <2>1
  <2>2. CASE i = 0
    BY <2>2, <1>2
  <2>3. CASE i # 0 /\ i # n + 1
    <3>1. i \in 0..n /\ i - 1 \in 0..n
      BY <2>3
    <3>2. g[i] = f[i] /\ g[i - 1] = f[i - 1]
      BY <3>1, <1>1
    <3>3. f[i] = IF i = 0 THEN <<>>
                 ELSE IF s[i] \in keep THEN Append(f[i - 1], s[i]) ELSE f[i - 1]
      BY <3>1, <1>2
    <3> HIDE DEF g
    <3> QED
      BY <3>2, <3>3
  <2> QED
    BY <2>1, <2>2, <2>3
<1>4. Kept(g, s, n + 1, keep)
  <2> HIDE DEF h
  <2>1. g = [i \in 0..(n + 1) |-> g[i]]
    OBVIOUS
  <2> HIDE DEF g
  <2> QED
    BY <1>3, <2>1 DEF Kept
<1> QED
  BY <1>4

LEMMA KeptExists ==
  ASSUME NEW s, NEW keep, NEW n \in Nat
  PROVE  \E f : Kept(f, s, n, keep)
<1> DEFINE G == {i \in Nat : \E f : Kept(f, s, i, keep)}
<1>1. 0 \in G
  <2> DEFINE g == [i \in 0..0 |-> <<>>]
  <2>1. Kept(g, s, 0, keep)
    BY DEF Kept
  <2> QED
    BY <2>1
<1>2. \A i \in 0..(n - 1) : i \in G => i + 1 \in G
  BY KeptOne
<1>3. n \in G
  <2> HIDE DEF G
  <2>1. \A i \in 0..n : i \in G
    BY <1>1, <1>2, UpTo
  <2> QED
    BY <2>1
<1> QED
  BY <1>3

LEMMA OnlyKept ==
  ASSUME NEW s, NEW keep, Len(s) \in Nat
  PROVE  \E f : Kept(f, s, Len(s), keep) /\ Only(s, keep) = f[Len(s)]
<1>1. \E f : Kept(f, s, Len(s), keep)
  BY KeptExists
<1> QED
  BY <1>1 DEF Only, Kept

\* Two solutions for sequences that agree so far agree so far.
LEMMA KeptAgree ==
  ASSUME NEW s, NEW t, NEW keep, NEW n \in Nat, NEW m \in Nat, n <= m,
         NEW f, NEW g, Kept(f, s, n, keep), Kept(g, t, m, keep),
         \A i \in 1..n : s[i] = t[i]
  PROVE  f[n] = g[n]
<1> DEFINE G == {i \in 0..n : f[i] = g[i]}
<1>1. 0 \in G
  BY DEF Kept
<1>2. ASSUME NEW i \in 0..(n - 1), i \in G  PROVE i + 1 \in G
  <2>1. /\ f[i + 1] = IF s[i + 1] \in keep THEN Append(f[i], s[i + 1]) ELSE f[i]
        /\ g[i + 1] = IF t[i + 1] \in keep THEN Append(g[i], t[i + 1]) ELSE g[i]
    <3>1. i + 1 \in 0..n /\ i + 1 \in 0..m /\ i + 1 # 0 /\ (i + 1) - 1 = i
      OBVIOUS
    <3>2. f[i + 1] = IF i + 1 = 0 THEN <<>>
                     ELSE IF s[i + 1] \in keep THEN Append(f[(i + 1) - 1], s[i + 1]) ELSE f[(i + 1) - 1]
      BY <3>1, Zenon DEF Kept
    <3>3. g[i + 1] = IF i + 1 = 0 THEN <<>>
                     ELSE IF t[i + 1] \in keep THEN Append(g[(i + 1) - 1], t[i + 1]) ELSE g[(i + 1) - 1]
      BY <3>1, Zenon DEF Kept
    <3> QED
      BY <3>1, <3>2, <3>3
  <2>2. s[i + 1] = t[i + 1] /\ f[i] = g[i]
    BY <1>2
  <2> QED
    BY <2>1, <2>2
<1>3. n \in G
  <2> HIDE DEF G
  <2>1. \A i \in 0..n : i \in G
    BY <1>1, <1>2, UpTo
  <2> QED
    BY <2>1
<1> QED
  BY <1>3

-----------------------------------------------------------------------------
(***************************************************************************)
(* Only, one element at a time.                                            *)
(***************************************************************************)

LEMMA OnlyEmpty == ASSUME NEW keep PROVE Only(<<>>, keep) = <<>>
<1>1. PICK f : Kept(f, <<>>, 0, keep) /\ Only(<<>>, keep) = f[0]
  BY OnlyKept
<1> QED
  BY <1>1 DEF Kept

LEMMA OnlyAppend ==
  ASSUME NEW S, NEW s \in Seq(S), NEW e \in S, NEW keep
  PROVE  Only(Append(s, e), keep) =
            IF e \in keep THEN Append(Only(s, keep), e) ELSE Only(s, keep)
<1> DEFINE t == Append(s, e)
           n == Len(s)
<1>0. n \in Nat /\ Len(t) = n + 1 /\ t[n + 1] = e /\ \A i \in 1..n : s[i] = t[i]
  OBVIOUS
<1> HIDE DEF t, n
<1>1. PICK f : Kept(f, s, n, keep) /\ Only(s, keep) = f[n]
  BY <1>0, OnlyKept DEF n
<1>2. PICK g : Kept(g, t, n + 1, keep) /\ Only(t, keep) = g[n + 1]
  BY <1>0, OnlyKept
<1>3. f[n] = g[n]
  BY <1>0, <1>1, <1>2, KeptAgree
<1>4. g[n + 1] = IF e \in keep THEN Append(g[n], e) ELSE g[n]
  <2>1. n + 1 \in 0..(n + 1) /\ n + 1 # 0 /\ (n + 1) - 1 = n
    BY <1>0
  <2>2. g[n + 1] = IF n + 1 = 0 THEN <<>>
                   ELSE IF t[n + 1] \in keep THEN Append(g[(n + 1) - 1], t[n + 1]) ELSE g[(n + 1) - 1]
    BY <1>2, <2>1, Zenon DEF Kept
  <2> QED
    BY <2>1, <2>2, <1>0
<1> QED
  BY <1>1, <1>2, <1>3, <1>4 DEF t

-----------------------------------------------------------------------------
(***************************************************************************)
(* What it returns: g tells where in s each of its elements comes from.    *)
(***************************************************************************)

Embeds(g, s, r, keep) ==
    /\ g \in [1..Len(r) -> 1..Len(s)]
    /\ \A i, j \in 1..Len(r) : i < j => g[i] < g[j]
    /\ \A i \in 1..Len(r) : r[i] = s[g[i]] /\ r[i] \in keep
    /\ \A j \in 1..Len(s) : s[j] \in keep => \E i \in 1..Len(r) : g[i] = j

\* The first n elements and the next one are the first n + 1.
LEMMA NextPrefix ==
  ASSUME NEW S, NEW s \in Seq(S), NEW n \in 0..(Len(s) - 1)
  PROVE  /\ SubSeq(s, 1, n) \in Seq(S) /\ Len(SubSeq(s, 1, n)) = n /\ s[n + 1] \in S
         /\ \A i \in 1..n : SubSeq(s, 1, n)[i] = s[i]
         /\ SubSeq(s, 1, n + 1) = Append(SubSeq(s, 1, n), s[n + 1])
<1>1. /\ SubSeq(s, 1, n) \in Seq(S) /\ Len(SubSeq(s, 1, n)) = n /\ s[n + 1] \in S
      /\ \A i \in 1..n : SubSeq(s, 1, n)[i] = s[i]
  OBVIOUS
<1>2. /\ SubSeq(s, 1, n + 1) \in Seq(S) /\ Len(SubSeq(s, 1, n + 1)) = n + 1
      /\ \A i \in 1..(n + 1) : SubSeq(s, 1, n + 1)[i] = s[i]
  OBVIOUS
<1>3. /\ Append(SubSeq(s, 1, n), s[n + 1]) \in Seq(S)
      /\ Len(Append(SubSeq(s, 1, n), s[n + 1])) = n + 1
      /\ \A i \in 1..(n + 1) : Append(SubSeq(s, 1, n), s[n + 1])[i] = s[i]
  BY <1>1
<1> QED
  BY <1>1, <1>2, <1>3, SeqEqual

LEMMA EmbedsOne ==
  ASSUME NEW S, NEW s \in Seq(S), NEW e \in S, NEW keep, NEW r \in Seq(S), NEW g,
         Embeds(g, s, r, keep)
  PROVE  \E h : Embeds(h, Append(s, e), IF e \in keep THEN Append(r, e) ELSE r, keep)
<1> DEFINE t == Append(s, e)
           m == Len(s)
           n == Len(r)
<1>0. /\ Len(t) = m + 1 /\ t[m + 1] = e /\ m \in Nat /\ n \in Nat
      /\ \A i \in 1..m : t[i] = s[i]
  OBVIOUS
<1>1. /\ g \in [1..n -> 1..m]
      /\ \A i, j \in 1..n : i < j => g[i] < g[j]
      /\ \A i \in 1..n : r[i] = s[g[i]] /\ r[i] \in keep
      /\ \A j \in 1..m : s[j] \in keep => \E i \in 1..n : g[i] = j
  BY DEF Embeds
<1>2. \A i \in 1..n : g[i] \in 1..(m + 1) /\ t[g[i]] = s[g[i]]
  BY <1>0, <1>1
<1>3. CASE e \notin keep
  <2>1. \A j \in 1..(m + 1) : t[j] \in keep => \E i \in 1..n : g[i] = j
    <3> HIDE DEF t, m, n
    <3> SUFFICES ASSUME NEW j \in 1..(m + 1), t[j] \in keep  PROVE \E i \in 1..n : g[i] = j
      OBVIOUS
    <3>1. j # m + 1
      BY <1>0, <1>3
    <3>2. j \in 1..m
      BY <3>1, <1>0
    <3>3. s[j] \in keep
      BY <3>2, <1>0
    <3> QED
      BY <3>2, <3>3, <1>1
  <2>2. g \in [1..n -> 1..(m + 1)]
    <3> HIDE DEF t, m, n
    <3> QED
      BY <1>0, <1>1
  <2>3. Embeds(g, t, r, keep)
    <3> HIDE DEF t
    <3>1. \A i \in 1..n : r[i] = t[g[i]] /\ r[i] \in keep
      BY <1>1, <1>2
    <3> QED
      BY <1>0, <1>1, <2>1, <2>2, <3>1, Zenon DEF Embeds
  <2> QED
    BY <2>3, <1>3
<1>4. CASE e \in keep
  <2> DEFINE q == Append(r, e)
             h == [i \in 1..(n + 1) |-> IF i = n + 1 THEN m + 1 ELSE g[i]]
  <2>1. Len(q) = n + 1 /\ q[n + 1] = e /\ \A i \in 1..n : q[i] = r[i]
    OBVIOUS
  <2> HIDE DEF t, q, m, n
  <2>2. /\ h \in [1..(n + 1) -> 1..(m + 1)] /\ h[n + 1] = m + 1
        /\ \A i \in 1..n : h[i] = g[i] /\ g[i] \in 1..m
    BY <1>0, <1>1
  <2> HIDE DEF h
  <2>3. \A i, j \in 1..(n + 1) : i < j => h[i] < h[j]
    <3> SUFFICES ASSUME NEW i \in 1..(n + 1), NEW j \in 1..(n + 1), i < j  PROVE h[i] < h[j]
      OBVIOUS
    <3>1. i \in 1..n /\ (j \in 1..n \/ j = n + 1)
      BY <1>0
    <3>2. h[i] = g[i] /\ g[i] \in 1..m
      BY <2>2, <3>1
    <3>3. CASE j \in 1..n
      <4>1. h[j] = g[j] /\ g[i] < g[j]
        BY <1>1, <2>2, <3>1, <3>3
      <4> QED
        BY <3>2, <4>1
    <3>4. CASE j = n + 1
      BY <1>0, <2>2, <3>2, <3>4
    <3> QED
      BY <3>1, <3>3, <3>4
  <2>4. \A i \in 1..(n + 1) : q[i] = t[h[i]] /\ q[i] \in keep
    <3> SUFFICES ASSUME NEW i \in 1..(n + 1)  PROVE q[i] = t[h[i]] /\ q[i] \in keep
      OBVIOUS
    <3>1. CASE i = n + 1
      BY <3>1, <1>0, <1>4, <2>1, <2>2
    <3>2. CASE i \in 1..n
      BY <3>2, <1>1, <1>2, <2>1, <2>2
    <3> QED
      BY <3>1, <3>2, <1>0
  <2>5. \A j \in 1..(m + 1) : t[j] \in keep => \E i \in 1..(n + 1) : h[i] = j
    <3> SUFFICES ASSUME NEW j \in 1..(m + 1), t[j] \in keep  PROVE \E i \in 1..(n + 1) : h[i] = j
      OBVIOUS
    <3>1. CASE j = m + 1
      BY <3>1, <1>0, <2>2
    <3>2. CASE j \in 1..m
      <4>1. PICK i \in 1..n : g[i] = j
        BY <3>2, <1>0, <1>1
      <4> QED
        BY <4>1, <1>0, <2>2
    <3> QED
      BY <3>1, <3>2, <1>0
  <2>6. Embeds(h, t, q, keep)
    BY <1>0, <2>1, <2>2, <2>3, <2>4, <2>5, Zenon DEF Embeds
  <2> QED
    BY <2>6, <1>4 DEF t, q
<1> QED
  BY <1>3, <1>4

OnlyHolds(S, s, keep) == Only(s, keep) \in Seq(S) /\ \E g : Embeds(g, s, Only(s, keep), keep)

LEMMA OnlyHoldsEmpty == ASSUME NEW S, NEW keep PROVE OnlyHolds(S, <<>>, keep)
<1> DEFINE e == [i \in 1..0 |-> 0]
<1>1. Embeds(e, <<>>, <<>>, keep)
  BY DEF Embeds
<1> HIDE DEF e
<1>2. <<>> \in Seq(S)
  OBVIOUS
<1> QED
  BY <1>1, <1>2, OnlyEmpty, Zenon DEF OnlyHolds

LEMMA OnlyHoldsOne ==
  ASSUME NEW S, NEW s \in Seq(S), NEW e \in S, NEW keep, OnlyHolds(S, s, keep)
  PROVE  OnlyHolds(S, Append(s, e), keep)
<1> DEFINE r == Only(s, keep)
<1>1. Only(Append(s, e), keep) = IF e \in keep THEN Append(r, e) ELSE r
  BY OnlyAppend, Zenon
<1>2. r \in Seq(S) /\ \E g : Embeds(g, s, r, keep)
  BY Zenon DEF OnlyHolds
<1> HIDE DEF r
<1>3. \E h : Embeds(h, Append(s, e), IF e \in keep THEN Append(r, e) ELSE r, keep)
  BY <1>2, EmbedsOne
<1>4. (IF e \in keep THEN Append(r, e) ELSE r) \in Seq(S)
  BY <1>2
<1> QED
  BY <1>1, <1>3, <1>4, Zenon DEF OnlyHolds

LEMMA OnlyEmbeds ==
  ASSUME NEW S, NEW s \in Seq(S), NEW keep
  PROVE  OnlyHolds(S, s, keep)
<1> DEFINE G == {n \in 0..Len(s) : OnlyHolds(S, SubSeq(s, 1, n), keep)}
<1>0. Len(s) \in Nat
  OBVIOUS
<1>1. 0 \in G
  <2>1. SubSeq(s, 1, 0) = <<>>
    BY SubSeqEmpty
  <2>2. OnlyHolds(S, SubSeq(s, 1, 0), keep)
    BY <2>1, OnlyHoldsEmpty, Zenon
  <2> QED
    BY <1>0, <2>2
<1>2. ASSUME NEW n \in 0..(Len(s) - 1), n \in G  PROVE n + 1 \in G
  <2>1. /\ SubSeq(s, 1, n) \in Seq(S) /\ s[n + 1] \in S
        /\ SubSeq(s, 1, n + 1) = Append(SubSeq(s, 1, n), s[n + 1])
    BY NextPrefix
  <2>2. OnlyHolds(S, SubSeq(s, 1, n), keep)
    BY <1>2
  <2>3. OnlyHolds(S, SubSeq(s, 1, n + 1), keep)
    BY <2>1, <2>2, OnlyHoldsOne, Zenon
  <2> QED
    BY <1>0, <2>3
<1>3. Len(s) \in G
  <2> HIDE DEF G
  <2>1. \A i \in 0..Len(s) : i \in G
    BY <1>0, <1>1, <1>2, UpTo
  <2> QED
    BY <1>0, <2>1
<1>4. SubSeq(s, 1, Len(s)) = s
  BY SubSeqFull
<1> QED
  BY <1>3, <1>4

\* Its elements are those of s that are in keep.
LEMMA OnlyElements ==
  ASSUME NEW S, NEW s \in Seq(S), NEW keep
  PROVE  /\ Only(s, keep) \in Seq(S)
         /\ \A i \in DOMAIN Only(s, keep) :
               /\ Only(s, keep)[i] \in keep
               /\ \E j \in DOMAIN s : s[j] = Only(s, keep)[i]
         /\ \A j \in DOMAIN s : s[j] \in keep => \E i \in DOMAIN Only(s, keep) : Only(s, keep)[i] = s[j]
<1> DEFINE r == Only(s, keep)
<1>1. r \in Seq(S) /\ \E g : Embeds(g, s, r, keep)
  BY OnlyEmbeds, Zenon DEF OnlyHolds
<1> HIDE DEF r
<1>2. PICK g : Embeds(g, s, r, keep)
  BY <1>1
<1>3. DOMAIN r = 1..Len(r) /\ DOMAIN s = 1..Len(s)
  BY <1>1
<1>4. \A i \in 1..Len(r) : r[i] \in keep /\ g[i] \in 1..Len(s) /\ s[g[i]] = r[i]
  BY <1>2 DEF Embeds
<1>5. \A j \in 1..Len(s) : s[j] \in keep => \E i \in 1..Len(r) : g[i] = j
  BY <1>2 DEF Embeds
<1>6. \A j \in 1..Len(s) : s[j] \in keep => \E i \in 1..Len(r) : r[i] = s[j]
  BY <1>4, <1>5
<1>7. \A i \in 1..Len(r) : r[i] \in keep /\ \E j \in 1..Len(s) : s[j] = r[i]
  BY <1>4, Zenon
<1> QED
  BY <1>1, <1>3, <1>6, <1>7, Zenon DEF r

\* It is no longer than s.
LEMMA OnlyShorter ==
  ASSUME NEW S, NEW s \in Seq(S), NEW keep
  PROVE  Len(Only(s, keep)) <= Len(s)
<1> DEFINE r == Only(s, keep)
<1>1. r \in Seq(S) /\ \E g : Embeds(g, s, r, keep)
  BY OnlyEmbeds, Zenon DEF OnlyHolds
<1> HIDE DEF r
<1>2. PICK g : Embeds(g, s, r, keep)
  BY <1>1
<1>3. /\ g \in [1..Len(r) -> 1..Len(s)]
      /\ \A i, j \in 1..Len(r) : i < j => g[i] < g[j]
      /\ Len(r) \in Nat /\ Len(s) \in Nat
  BY <1>1, <1>2 DEF Embeds
<1> DEFINE G == {i \in 0..Len(r) : i = 0 \/ i <= g[i]}
<1>4. 0 \in G
  BY <1>3
<1>5. ASSUME NEW i \in 0..(Len(r) - 1), i \in G  PROVE i + 1 \in G
  <2>1. i + 1 \in 1..Len(r) /\ g[i + 1] \in Nat /\ 1 <= g[i + 1]
    BY <1>3
  <2>2. CASE i = 0
    BY <2>1, <2>2
  <2>3. CASE i # 0
    <3>1. i \in 1..Len(r) /\ i <= g[i] /\ g[i] < g[i + 1] /\ g[i] \in Nat
      BY <1>3, <1>5, <2>1, <2>3
    <3> QED
      BY <2>1, <3>1
  <2> QED
    BY <2>2, <2>3
<1>6. Len(r) \in G
  <2> HIDE DEF G
  <2>1. \A i \in 0..Len(r) : i \in G
    BY <1>3, <1>4, <1>5, UpTo
  <2> QED
    BY <1>3, <2>1
<1>7. Len(r) <= Len(s)
  <2>1. CASE Len(r) = 0
    BY <1>3, <2>1
  <2>2. CASE Len(r) # 0
    <3>1. Len(r) \in 1..Len(r) /\ Len(r) <= g[Len(r)]
      BY <1>3, <1>6, <2>2
    <3>2. g[Len(r)] \in 1..Len(s)
      BY <1>3, <3>1
    <3> QED
      BY <1>3, <3>1, <3>2
  <2> QED
    BY <2>1, <2>2
<1> QED
  BY <1>7 DEF r

\* What is increasing stays so.
LEMMA OnlyIncreasing ==
  ASSUME NEW S, NEW s \in Seq(S), NEW keep, NEW R,
         \A i, j \in DOMAIN s : i < j => <<s[i], s[j]>> \in R
  PROVE  \A i, j \in DOMAIN Only(s, keep) : i < j => <<Only(s, keep)[i], Only(s, keep)[j]>> \in R
<1> DEFINE r == Only(s, keep)
<1>1. r \in Seq(S) /\ \E g : Embeds(g, s, r, keep)
  BY OnlyEmbeds, Zenon DEF OnlyHolds
<1> HIDE DEF r
<1>2. PICK g : Embeds(g, s, r, keep)
  BY <1>1
<1>3. /\ g \in [1..Len(r) -> 1..Len(s)]
      /\ \A i, j \in 1..Len(r) : i < j => g[i] < g[j]
      /\ \A i \in 1..Len(r) : r[i] = s[g[i]]
      /\ DOMAIN r = 1..Len(r) /\ DOMAIN s = 1..Len(s)
  BY <1>1, <1>2 DEF Embeds
<1>4. \A i, j \in DOMAIN r : i < j => <<r[i], r[j]>> \in R
  <2> SUFFICES ASSUME NEW i \in DOMAIN r, NEW j \in DOMAIN r, i < j  PROVE <<r[i], r[j]>> \in R
    OBVIOUS
  <2>1. g[i] \in DOMAIN s /\ g[j] \in DOMAIN s /\ g[i] < g[j] /\ r[i] = s[g[i]] /\ r[j] = s[g[j]]
    BY <1>3
  <2> QED
    BY <2>1
<1> QED
  BY <1>4 DEF r
-----------------------------------------------------------------------------
\* Sequences: parts of one, and two ways to go through one.

LEMMA Listed ==
  ASSUME NEW S, NEW n \in Nat, NEW f \in [1..n -> S]
  PROVE  f \in Seq(S) /\ Len(f) = n
OBVIOUS

LEMMA Slice ==
  ASSUME NEW S, NEW s \in Seq(S), NEW m \in 1..(Len(s) + 1), NEW n \in (m - 1)..Len(s)
  PROVE  /\ SubSeq(s, m, n) \in Seq(S) /\ Len(SubSeq(s, m, n)) = n - m + 1
         /\ \A i \in 1..(n - m + 1) : SubSeq(s, m, n)[i] = s[m + i - 1]
<1>1. Len(s) \in Nat /\ m \in Int /\ n \in Int /\ n - m + 1 >= 0
  OBVIOUS
<1>2. \A i \in m..n : s[i] \in S
  BY <1>1, ElementOfSeq
<1> QED
  BY <1>1, <1>2, SubSeqProperties

LEMMA Glue ==
  ASSUME NEW S, NEW s \in Seq(S), NEW k \in 0..Len(s)
  PROVE  s = SubSeq(s, 1, k) \o SubSeq(s, k + 1, Len(s))
<1>1. Len(s) \in Nat /\ SubSeq(s, 1, Len(s)) = s
  BY SubSeqFull
<1>2. 1 \in 1..(Len(s) + 1) /\ k \in (1 - 1)..Len(s) /\ Len(s) \in k..Len(s)
  BY <1>1
<1> QED
  BY <1>1, <1>2, ConcatAdjacentSubSeq

LEMMA Cat ==
  ASSUME NEW S, NEW s \in Seq(S), NEW t \in Seq(S)
  PROVE  /\ s \o t \in Seq(S) /\ Len(s \o t) = Len(s) + Len(t)
         /\ Len(s) \in Nat /\ Len(t) \in Nat
         /\ \A i \in 1..Len(s) : (s \o t)[i] = s[i]
         /\ \A i \in 1..Len(t) : (s \o t)[Len(s) + i] = t[i]
<1>1. Len(s) \in Nat /\ Len(t) \in Nat
  OBVIOUS
<1>2. /\ s \o t \in Seq(S) /\ Len(s \o t) = Len(s) + Len(t)
      /\ \A i \in 1..(Len(s) + Len(t)) : (s \o t)[i] = IF i <= Len(s) THEN s[i] ELSE t[i - Len(s)]
  BY ConcatProperties
<1> QED
  BY <1>1, <1>2

LEMMA CatSlices ==
  ASSUME NEW S, NEW s \in Seq(S), NEW t \in Seq(S)
  PROVE  /\ SubSeq(s \o t, 1, Len(s)) = s
         /\ SubSeq(s \o t, Len(s) + 1, Len(s) + Len(t)) = t
<1>0. /\ Len(s) \in Nat /\ Len(t) \in Nat /\ s \o t \in Seq(S) /\ Len(s \o t) = Len(s) + Len(t)
      /\ \A i \in 1..Len(s) : (s \o t)[i] = s[i]
      /\ \A i \in 1..Len(t) : (s \o t)[Len(s) + i] = t[i]
  BY Cat
<1> DEFINE a == SubSeq(s \o t, 1, Len(s))
           b == SubSeq(s \o t, Len(s) + 1, Len(s) + Len(t))
<1>1. a \in Seq(S) /\ Len(a) = Len(s) /\ \A i \in 1..Len(s) : a[i] = (s \o t)[i]
  <2>1. 1 \in 1..(Len(s \o t) + 1) /\ Len(s) \in (1 - 1)..Len(s \o t)
    BY <1>0
  <2> HIDE DEF a
  <2>2. /\ SubSeq(s \o t, 1, Len(s)) \in Seq(S) /\ Len(SubSeq(s \o t, 1, Len(s))) = Len(s) - 1 + 1
        /\ \A i \in 1..(Len(s) - 1 + 1) : SubSeq(s \o t, 1, Len(s))[i] = (s \o t)[1 + i - 1]
    BY <2>1, <1>0, Slice
  <2> QED
    BY <2>2, <1>0 DEF a
<1>2. b \in Seq(S) /\ Len(b) = Len(t) /\ \A i \in 1..Len(t) : b[i] = (s \o t)[Len(s) + i]
  <2>1. Len(s) + 1 \in 1..(Len(s \o t) + 1) /\ Len(s) + Len(t) \in (Len(s) + 1 - 1)..Len(s \o t)
    BY <1>0
  <2> HIDE DEF b
  <2>2. /\ SubSeq(s \o t, Len(s) + 1, Len(s) + Len(t)) \in Seq(S)
        /\ Len(SubSeq(s \o t, Len(s) + 1, Len(s) + Len(t))) = (Len(s) + Len(t)) - (Len(s) + 1) + 1
        /\ \A i \in 1..((Len(s) + Len(t)) - (Len(s) + 1) + 1) :
              SubSeq(s \o t, Len(s) + 1, Len(s) + Len(t))[i] = (s \o t)[Len(s) + 1 + i - 1]
    BY <2>1, <1>0, Slice
  <2> QED
    BY <2>2, <1>0 DEF b
<1> HIDE DEF a, b
<1>3. a = s /\ b = t
  BY <1>0, <1>1, <1>2, SeqEqual
<1> QED
  BY <1>3 DEF a, b

\* What holds of no elements, and of more at the end when it holds before, holds.
LEMMA EndInduction ==
  ASSUME NEW W, NEW G, <<>> \in G,
         \A v \in Seq(W), w \in W : v \in G => Append(v, w) \in G
  PROVE  Seq(W) \subseteq G
<1> SUFFICES ASSUME NEW ws \in Seq(W)  PROVE ws \in G
  OBVIOUS
<1> DEFINE P(n) == SubSeq(ws, 1, n) \in G
           H == {n \in 0..Len(ws) : P(n)}
<1>0. Len(ws) \in Nat
  OBVIOUS
<1>1. 0 \in H
  <2>1. SubSeq(ws, 1, 0) = <<>>
    BY SubSeqEmpty
  <2>2. P(0)
    BY <2>1
  <2> HIDE DEF P
  <2> QED
    BY <2>2, <1>0
<1>2. ASSUME NEW n \in 0..(Len(ws) - 1), n \in H  PROVE n + 1 \in H
  <2>1. /\ SubSeq(ws, 1, n) \in Seq(W) /\ ws[n + 1] \in W
        /\ SubSeq(ws, 1, n + 1) = Append(SubSeq(ws, 1, n), ws[n + 1])
    BY NextPrefix
  <2>2. SubSeq(ws, 1, n) \in G
    BY <1>2
  <2>3. P(n + 1)
    BY <2>1, <2>2
  <2> HIDE DEF P
  <2> QED
    BY <2>3, <1>0
<1>3. Len(ws) \in H
  <2> HIDE DEF H
  <2>1. \A n \in 0..Len(ws) : n \in H
    BY <1>0, <1>1, <1>2, UpTo
  <2> QED
    BY <2>1, <1>0
<1> QED
  BY <1>3, SubSeqFull

\* And from the end to the beginning.
LEMMA FrontInduction ==
  ASSUME NEW W, NEW G, <<>> \in G,
         \A v \in Seq(W), w \in W : v \in G => <<w>> \o v \in G
  PROVE  Seq(W) \subseteq G
<1> SUFFICES ASSUME NEW ws \in Seq(W)  PROVE ws \in G
  OBVIOUS
<1> DEFINE n == Len(ws)
           P(k) == SubSeq(ws, n - k + 1, n) \in G
           H == {k \in 0..n : P(k)}
<1>0. n \in Nat
  OBVIOUS
<1>1. 0 \in H
  <2>1. SubSeq(ws, n - 0 + 1, n) = <<>>
    <3>1. n - 0 + 1 \in Int /\ n \in Int /\ n < n - 0 + 1
      BY <1>0
    <3> HIDE DEF n
    <3> QED
      BY <3>1, SubSeqEmpty
  <2>2. P(0)
    BY <2>1
  <2> HIDE DEF P, n
  <2> QED
    BY <2>2, <1>0
<1>2. ASSUME NEW k \in 0..(n - 1), k \in H  PROVE k + 1 \in H
  <2>1. n - k \in 1..n /\ n \in (n - k)..n /\ n - k + 1 \in 1..(n + 1) /\ n \in ((n - k + 1) - 1)..n
    BY <1>0
  <2>2. SubSeq(ws, n - k, n) = <<ws[n - k]>> \o SubSeq(ws, n - k + 1, n)
    BY <2>1, SubSeqRecursiveFirst
  <2>3. SubSeq(ws, n - k + 1, n) \in Seq(W) /\ ws[n - k] \in W
    BY <2>1, Slice, ElementOfSeq
  <2>4. n - (k + 1) + 1 = n - k /\ k + 1 \in 0..n
    BY <1>0
  <2>5. SubSeq(ws, n - k + 1, n) \in G
    BY <1>2
  <2>6. P(k + 1)
    BY <2>2, <2>3, <2>4, <2>5
  <2> HIDE DEF P, n
  <2> QED
    BY <2>4, <2>6
<1>3. n \in H
  <2> HIDE DEF H, n
  <2>1. \A k \in 0..n : k \in H
    BY <1>0, <1>1, <1>2, UpTo
  <2> QED
    BY <2>1, <1>0
<1>4. SubSeq(ws, n - n + 1, n) = ws
  BY <1>0, SubSeqFull
<1> QED
  BY <1>3, <1>4

=============================================================================
