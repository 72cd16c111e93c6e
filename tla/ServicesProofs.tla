--------------------------- MODULE ServicesProofs ---------------------------
(***************************************************************************)
(* Theorems about the components that stand between a caller and the       *)
(* server: the rate limit, for any clients, budget and window; terminal    *)
(* support sessions, for any sessions and capacity; and what goes through  *)
(* the agent proxy, for any answer, placeholders and pieces.  At the end,  *)
(* all the services of MCServices side by side.                            *)
(***************************************************************************)
EXTENDS MCServices, StorageProofs, WorkTreeProofs, TLAPS

-----------------------------------------------------------------------------
(***************************************************************************)
(* The rate limit.                                                         *)
(***************************************************************************)

\* What is left of a sequence after its first k elements are popped.
LEMMA PopFront ==
    ASSUME NEW b \in Seq(Nat), NEW k \in 0..Len(b)
    PROVE  LET s == SubSeq(b, k + 1, Len(b)) IN
           /\ s \in Seq(Nat)
           /\ Len(s) = Len(b) - k
           /\ \A i \in 1..Len(s) : s[i] = b[k + i]
  OBVIOUS

LEMMA RateInitInv == RateInit => RateIInv
  BY RateAssumption DEF RateInit, RateIInv, RateTypeOK, WithinBudget, BucketIsEnd, RefusedIsFull

\* Popping keeps what is known of a bucket, and all that is popped is outdated.
LEMMA Popped ==
    ASSUME RateIInv, NEW c \in Clients, NEW k \in 0..Len(rateBucket[c]), Outdated(rateBucket[c], k)
    PROVE  LET let == rateLet[c]
               s == SubSeq(rateBucket[c], k + 1, Len(rateBucket[c]))
               gone == Len(let) - Len(s)
           IN /\ s \in Seq(Nat) /\ Len(s) \in 0..Budget /\ gone \in Nat
              /\ \A i \in 1..Len(s) : s[i] = let[gone + i]
              /\ \A i \in 1..gone : let[i] < rateNow - Window
  <1> DEFINE b == rateBucket[c]
             let == rateLet[c]
             s == SubSeq(b, k + 1, Len(b))
             gone == Len(let) - Len(s)
  <1>1. /\ b \in Seq(Nat) /\ let \in Seq(Nat) /\ Len(b) <= Budget /\ Budget \in Nat
        /\ rateNow \in Nat /\ Window \in Nat
    BY RateAssumption DEF RateIInv, RateTypeOK
  <1>2. /\ Len(b) <= Len(let)
        /\ \A i \in 1..Len(b) : b[i] = let[Len(let) - Len(b) + i]
        /\ \A i \in 1..(Len(let) - Len(b)) : let[i] < rateNow - Window
    BY DEF RateIInv, BucketIsEnd
  <1>3. s \in Seq(Nat) /\ Len(s) = Len(b) - k /\ \A i \in 1..Len(s) : s[i] = b[k + i]
    BY <1>1, PopFront
  <1>a. Len(b) \in Nat /\ Len(let) \in Nat /\ Len(s) \in Nat /\ k \in 0..Len(b) /\ k \in Nat
    BY <1>1, <1>3
  <1> HIDE DEF s, b, let
  <1>4. Len(s) \in 0..Budget /\ gone \in Nat /\ gone = Len(let) - Len(b) + k
    BY <1>a, <1>1, <1>2, <1>3
  <1> HIDE DEF gone
  <1>5. ASSUME NEW i \in 1..Len(s)
        PROVE  s[i] = let[gone + i]
    <2>1. s[i] = b[k + i] /\ k + i \in 1..Len(b)
      BY <1>a, <1>3
    <2>2. b[k + i] = let[Len(let) - Len(b) + (k + i)]
      BY <1>2, <2>1
    <2>3. Len(let) - Len(b) + (k + i) = gone + i
      BY <1>a, <1>4
    <2> QED  BY <2>1, <2>2, <2>3
  <1>6. ASSUME NEW i \in 1..gone
        PROVE  let[i] < rateNow - Window
    <2>1. CASE i <= Len(let) - Len(b)
      <3>1. i \in 1..(Len(let) - Len(b))
        BY <1>a, <1>4, <2>1
      <3> QED  BY <1>2, <3>1
    <2>2. CASE i > Len(let) - Len(b)
      <3> DEFINE j == i - (Len(let) - Len(b))
      <3>1. j \in 1..k /\ i = Len(let) - Len(b) + j
        BY <1>a, <1>4, <2>2
      <3> HIDE DEF j
      <3>2. b[j] < rateNow - Window
        BY <3>1 DEF Outdated, b
      <3>3. j \in 1..Len(b)
        BY <1>a, <3>1
      <3>4. b[j] = let[i]
        BY <1>2, <3>1, <3>3
      <3> QED  BY <3>2, <3>4
    <2> QED  BY <1>a, <1>4, <2>1, <2>2
  <1> QED  BY <1>3, <1>4, <1>5, <1>6 DEF s, b, let, gone

LEMMA LetThroughInv ==
    ASSUME RateIInv, UNCHANGED rateNow, NEW c \in Clients, NEW k \in 0..Len(rateBucket[c]),
           Outdated(rateBucket[c], k),
           LetThrough(c, SubSeq(rateBucket[c], k + 1, Len(rateBucket[c])))
    PROVE  RateIInv'
  <1> DEFINE let == rateLet[c]
             s == SubSeq(rateBucket[c], k + 1, Len(rateBucket[c]))
             gone == Len(let) - Len(s)
  <1>1. /\ s \in Seq(Nat) /\ Len(s) \in 0..Budget /\ gone \in Nat
        /\ \A i \in 1..Len(s) : s[i] = let[gone + i]
        /\ \A i \in 1..gone : let[i] < rateNow - Window
    BY Popped
  <1>2. /\ let \in Seq(Nat) /\ rateNow \in Nat /\ Budget \in Nat /\ Window \in Nat
        /\ rateBucket \in [Clients -> Seq(Nat)] /\ rateLet \in [Clients -> Seq(Nat)]
        /\ rateWait \in [Clients -> Nat]
    BY RateAssumption DEF RateIInv, RateTypeOK
  <1>3. /\ Len(s) < Budget
        /\ rateBucket' = [rateBucket EXCEPT ![c] = Append(s, rateNow)]
        /\ rateLet' = [rateLet EXCEPT ![c] = Append(let, rateNow)]
        /\ rateWait' = [rateWait EXCEPT ![c] = 0]
    BY <1>1, <1>2 DEF LetThrough, RateFull
  <1>a. Len(s) \in Nat /\ Len(let) \in Nat /\ gone = Len(let) - Len(s)
    BY <1>1, <1>2
  <1>b. DOMAIN let = 1..Len(let) /\ \A i \in 1..Len(let) : let[i] \in Nat
    BY <1>2
  <1> HIDE DEF s, let, gone
  <1>4. /\ rateBucket'[c] = Append(s, rateNow) /\ rateLet'[c] = Append(let, rateNow)
        /\ rateWait'[c] = 0
        /\ \A d \in Clients \ {c} : /\ rateBucket'[d] = rateBucket[d]
                                    /\ rateLet'[d] = rateLet[d]
                                    /\ rateWait'[d] = rateWait[d]
    BY <1>2, <1>3 DEF let
  <1>5. /\ Append(s, rateNow) \in Seq(Nat) /\ Len(Append(s, rateNow)) = Len(s) + 1
        /\ Append(let, rateNow) \in Seq(Nat) /\ Len(Append(let, rateNow)) = Len(let) + 1
        /\ \A i \in 1..Len(s) : Append(s, rateNow)[i] = s[i]
        /\ \A i \in 1..Len(let) : Append(let, rateNow)[i] = let[i]
        /\ Append(s, rateNow)[Len(s) + 1] = rateNow
        /\ Append(let, rateNow)[Len(let) + 1] = rateNow
    BY <1>1, <1>2
  <1>6. \A i \in 1..Len(let) : let[i] <= rateNow
    BY DEF RateIInv, BucketIsEnd, let
  <1>7. RateTypeOK'
    <2>1. \A d \in Clients : Len(rateBucket'[d]) <= Budget
      BY <1>2, <1>3, <1>4, <1>5, <1>1 DEF RateIInv, RateTypeOK
    <2>2. rateBucket' \in [Clients -> Seq(Nat)] /\ rateLet' \in [Clients -> Seq(Nat)]
      BY <1>2, <1>3, <1>5
    <2>3. rateWait' \in [Clients -> Nat] /\ rateNow' \in Nat
      BY <1>2, <1>3
    <2> QED  BY <2>1, <2>2, <2>3 DEF RateTypeOK
  <1>8. WithinBudget'
    <2> SUFFICES ASSUME NEW d \in Clients, NEW i \in DOMAIN rateLet'[d],
                        i + Budget \in DOMAIN rateLet'[d]
                 PROVE  rateLet'[d][i + Budget] - rateLet'[d][i] > Window
      BY DEF WithinBudget
    <2>0. d = c => i \in 1..(Len(let) + 1) /\ i + Budget \in 1..(Len(let) + 1)
      BY <1>4, <1>5
    <2>1. CASE d # c
      BY <1>4, <2>1 DEF RateIInv, WithinBudget
    <2>2. CASE d = c /\ i + Budget <= Len(let)
      <3>1. i \in DOMAIN let /\ i + Budget \in DOMAIN let
        BY <1>a, <1>2, <2>0, <2>2
      <3>2. let[i + Budget] - let[i] > Window
        BY <3>1 DEF RateIInv, WithinBudget, let
      <3>3. i \in 1..Len(let) /\ i + Budget \in 1..Len(let)
        BY ONLY <1>b, <3>1
      <3> QED  BY <1>4, <1>5, <2>2, <3>2, <3>3
    <2>3. CASE d = c /\ i + Budget > Len(let)
      <3>1. i + Budget = Len(let) + 1 /\ i \in 1..gone
        <4>1. i \in 1..(Len(let) + 1) /\ i + Budget \in 1..(Len(let) + 1)
          BY <2>0, <2>3
        <4>2. i + Budget > Len(let) /\ Len(s) < Budget /\ Budget \in Nat
          BY <1>2, <1>3, <2>3
        <4>3. i + Budget = Len(let) + 1
          BY ONLY <1>a, <4>1, <4>2
        <4>4. i <= gone
          BY ONLY <1>a, <4>1, <4>2, <4>3
        <4> QED  BY ONLY <1>a, <4>1, <4>3, <4>4
      <3>a. i \in 1..Len(let)
        BY <1>a, <3>1
      <3>b. let[i] < rateNow - Window
        BY <1>1, <3>1
      <3>2. let[i] < rateNow - Window /\ i \in 1..Len(let)
        BY <3>a, <3>b
      <3>3. let[i] \in Nat
        BY ONLY <1>b, <3>2
      <3>4. rateLet'[d][i] = let[i] /\ rateLet'[d][i + Budget] = rateNow
        BY <1>4, <1>5, <2>3, <3>1, <3>2
      <3>5. rateNow - let[i] > Window
        BY <1>2, <3>b, <3>3
      <3> QED  BY <3>4, <3>5
    <2>4. d = c => i + Budget <= Len(let) \/ i + Budget > Len(let)
      BY <1>a, <1>2, <2>0
    <2> QED  BY <2>1, <2>2, <2>3, <2>4
  <1>9. BucketIsEnd'
    <2> SUFFICES ASSUME NEW d \in Clients
                 PROVE  /\ Len(rateBucket'[d]) <= Len(rateLet'[d])
                        /\ \A i \in 1..Len(rateBucket'[d]) :
                              rateBucket'[d][i] = rateLet'[d][Len(rateLet'[d]) - Len(rateBucket'[d]) + i]
                        /\ \A i \in 1..(Len(rateLet'[d]) - Len(rateBucket'[d])) :
                              rateLet'[d][i] < rateNow' - Window
                        /\ \A i \in 1..Len(rateLet'[d]) : rateLet'[d][i] <= rateNow'
      BY DEF BucketIsEnd
    <2>1. CASE d # c
      <3>1. rateBucket'[d] = rateBucket[d] /\ rateLet'[d] = rateLet[d] /\ rateNow' = rateNow
        BY <1>4, <2>1
      <3>2. /\ Len(rateBucket[d]) <= Len(rateLet[d])
            /\ \A i \in 1..Len(rateBucket[d]) :
                  rateBucket[d][i] = rateLet[d][Len(rateLet[d]) - Len(rateBucket[d]) + i]
            /\ \A i \in 1..(Len(rateLet[d]) - Len(rateBucket[d])) :
                  rateLet[d][i] < rateNow - Window
            /\ \A i \in 1..Len(rateLet[d]) : rateLet[d][i] <= rateNow
        BY DEF RateIInv, BucketIsEnd
      <3> QED  BY ONLY <3>1, <3>2
    <2>2. CASE d = c
      <3> DEFINE s2 == Append(s, rateNow)
                 let2 == Append(let, rateNow)
      <3>0. /\ Len(s2) = Len(s) + 1 /\ Len(let2) = Len(let) + 1
            /\ \A i \in 1..Len(s) : s2[i] = s[i]
            /\ \A i \in 1..Len(let) : let2[i] = let[i]
            /\ s2[Len(s) + 1] = rateNow /\ let2[Len(let) + 1] = rateNow
        BY <1>5
      <3>5. rateBucket'[d] = s2 /\ rateLet'[d] = let2
        BY <1>4, <2>2
      <3> HIDE DEF s2, let2
      <3>1. Len(s2) <= Len(let2) /\ Len(let2) - Len(s2) = gone
        BY <1>a, <1>1, <1>2, <3>0
      <3>2. ASSUME NEW i \in 1..Len(s2)
            PROVE  s2[i] = let2[gone + i]
        <4>1. CASE i <= Len(s)
          <5>1. gone + i \in 1..Len(let) /\ i \in 1..Len(s)
            BY <1>a, <1>1, <1>2, <3>0, <4>1
          <5>2. s[i] = let[gone + i]
            BY <1>1, <5>1
          <5> QED  BY <3>0, <5>1, <5>2
        <4>2. CASE i = Len(s) + 1
          <5>1. gone + i = Len(let) + 1
            BY <1>a, <1>1, <1>2, <4>2
          <5> QED  BY <3>0, <4>2, <5>1
        <4> QED  BY <1>a, <3>0, <4>1, <4>2
      <3>3. ASSUME NEW i \in 1..gone
            PROVE  let2[i] < rateNow' - Window
        <4>1. i \in 1..Len(let)
          BY <1>a, <1>1
        <4>2. let[i] < rateNow - Window
          BY <1>1
        <4> QED  BY <3>0, <4>1, <4>2
      <3>4. ASSUME NEW i \in 1..Len(let2)
            PROVE  let2[i] <= rateNow'
        <4>1. i \in 1..Len(let) \/ i = Len(let) + 1
          BY <1>a, <3>0
        <4>2. rateNow' = rateNow /\ rateNow <= rateNow
          BY <1>2
        <4> QED  BY <1>6, <3>0, <4>1, <4>2
      <3> QED  BY <3>1, <3>2, <3>3, <3>4, <3>5
    <2> QED  BY <2>1, <2>2
  <1>10. RefusedIsFull'
    BY <1>4 DEF RateIInv, RefusedIsFull
  <1> QED  BY <1>7, <1>8, <1>9, <1>10 DEF RateIInv

LEMMA RefuseInv ==
    ASSUME RateIInv, UNCHANGED rateNow, NEW c \in Clients, NEW k \in 0..Len(rateBucket[c]),
           Outdated(rateBucket[c], k),
           Refuse(c, SubSeq(rateBucket[c], k + 1, Len(rateBucket[c])))
    PROVE  RateIInv'
  <1> DEFINE let == rateLet[c]
             s == SubSeq(rateBucket[c], k + 1, Len(rateBucket[c]))
             gone == Len(let) - Len(s)
  <1>1. /\ s \in Seq(Nat) /\ Len(s) \in 0..Budget /\ gone \in Nat
        /\ \A i \in 1..Len(s) : s[i] = let[gone + i]
        /\ \A i \in 1..gone : let[i] < rateNow - Window
    BY Popped
  <1>2. /\ let \in Seq(Nat) /\ rateNow \in Nat /\ Budget \in Nat \ {0}
        /\ Window \in Nat /\ Second \in Nat
        /\ rateBucket \in [Clients -> Seq(Nat)] /\ rateLet \in [Clients -> Seq(Nat)]
        /\ rateWait \in [Clients -> Nat]
    BY RateAssumption DEF RateIInv, RateTypeOK
  <1>3. PICK seconds \in 1..(Window + 1) :
          /\ RetryAfter(s[1], seconds)
          /\ rateWait' = [rateWait EXCEPT ![c] = rateNow + seconds * Second]
    BY DEF Refuse
  <1>4. /\ Len(s) = Budget /\ rateLet' = rateLet
        /\ rateBucket' = [rateBucket EXCEPT ![c] = s]
    BY <1>1, <1>2 DEF Refuse, RateFull
  <1>5. seconds * Second \in Nat /\ s[1] + Window - rateNow <= seconds * Second
    <2>1. seconds \in Nat /\ s[1] \in Nat
      BY <1>1, <1>2, <1>4
    <2>2. seconds * Second \in Nat
      BY <1>2, <2>1
    <2>3. s[1] + Window - rateNow <= seconds * Second
      BY <1>3 DEF RetryAfter
    <2> QED  BY <2>2, <2>3
  <1>a. Len(s) \in Nat /\ Len(let) \in Nat /\ gone = Len(let) - Len(s)
    BY <1>1, <1>2
  <1> DEFINE wait == seconds * Second
  <1>b. wait \in Nat /\ rateWait' = [rateWait EXCEPT ![c] = rateNow + wait]
    BY <1>3, <1>5
  <1> HIDE DEF s, let, gone, wait
  <1>6. /\ rateBucket'[c] = s
        /\ rateWait'[c] = rateNow + seconds * Second
        /\ \A d \in Clients \ {c} : /\ rateBucket'[d] = rateBucket[d]
                                    /\ rateWait'[d] = rateWait[d]
    BY <1>2, <1>3, <1>4
  <1>7. RateTypeOK'
    <2>1. rateWait' \in [Clients -> Nat]
      <3>1. rateNow + wait \in Nat
        BY <1>2, <1>b
      <3> QED  BY <1>2, <1>b, <3>1
    <2>2. rateBucket' \in [Clients -> Seq(Nat)] /\ \A d \in Clients : Len(rateBucket'[d]) <= Budget
      BY <1>1, <1>2, <1>4, <1>6 DEF RateIInv, RateTypeOK
    <2> QED  BY <1>2, <1>4, <2>1, <2>2 DEF RateTypeOK
  <1>8. WithinBudget'
    BY <1>4 DEF RateIInv, WithinBudget
  <1>9. BucketIsEnd'
    <2> SUFFICES ASSUME NEW d \in Clients
                 PROVE  /\ Len(rateBucket'[d]) <= Len(rateLet'[d])
                        /\ \A i \in 1..Len(rateBucket'[d]) :
                              rateBucket'[d][i] = rateLet'[d][Len(rateLet'[d]) - Len(rateBucket'[d]) + i]
                        /\ \A i \in 1..(Len(rateLet'[d]) - Len(rateBucket'[d])) :
                              rateLet'[d][i] < rateNow' - Window
                        /\ \A i \in 1..Len(rateLet'[d]) : rateLet'[d][i] <= rateNow'
      BY DEF BucketIsEnd
    <2>1. CASE d # c
      <3>1. rateBucket'[d] = rateBucket[d] /\ rateLet'[d] = rateLet[d] /\ rateNow' = rateNow
        BY <1>4, <1>6, <2>1
      <3>2. /\ Len(rateBucket[d]) <= Len(rateLet[d])
            /\ \A i \in 1..Len(rateBucket[d]) :
                  rateBucket[d][i] = rateLet[d][Len(rateLet[d]) - Len(rateBucket[d]) + i]
            /\ \A i \in 1..(Len(rateLet[d]) - Len(rateBucket[d])) :
                  rateLet[d][i] < rateNow - Window
            /\ \A i \in 1..Len(rateLet[d]) : rateLet[d][i] <= rateNow
        BY DEF RateIInv, BucketIsEnd
      <3> QED  BY ONLY <3>1, <3>2
    <2>2. CASE d = c
      <3>1. Len(s) <= Len(let)
        BY <1>a, <1>1
      <3>2. \A i \in 1..Len(let) : let[i] <= rateNow
        BY DEF RateIInv, BucketIsEnd, let
      <3>3. rateBucket'[d] = s /\ rateLet'[d] = let
        BY <1>4, <1>6, <2>2 DEF let
      <3> QED  BY <1>a, <1>1, <3>1, <3>2, <3>3
    <2> QED  BY <2>1, <2>2
  <1>10. RefusedIsFull'
    <2> SUFFICES ASSUME NEW d \in Clients, rateWait'[d] # 0
                 PROVE  Len(rateBucket'[d]) = Budget /\ rateBucket'[d][1] + Window <= rateWait'[d]
      BY DEF RefusedIsFull
    <2>1. CASE d # c
      BY <1>6, <2>1 DEF RateIInv, RefusedIsFull
    <2>2. CASE d = c
      <3>1. s[1] \in Nat
        BY <1>1, <1>2, <1>4
      <3> QED  BY <1>2, <1>4, <1>5, <1>6, <2>2, <3>1
    <2> QED  BY <2>1, <2>2
  <1> QED  BY <1>7, <1>8, <1>9, <1>10 DEF RateIInv

LEMMA TickInv == RateIInv /\ RateTick => RateIInv'
  <1> SUFFICES ASSUME RateIInv, RateTick
               PROVE  RateIInv'
    OBVIOUS
  <1>1. /\ rateNow \in Nat /\ rateNow' = rateNow + 1 /\ Window \in Nat
        /\ rateBucket' = rateBucket /\ rateLet' = rateLet /\ rateWait' = rateWait
        /\ rateLet \in [Clients -> Seq(Nat)]
    BY RateAssumption DEF RateIInv, RateTypeOK, RateTick
  <1>2. BucketIsEnd'
    <2> SUFFICES ASSUME NEW c \in Clients
                 PROVE  /\ Len(rateBucket[c]) <= Len(rateLet[c])
                        /\ \A i \in 1..Len(rateBucket[c]) :
                              rateBucket[c][i] = rateLet[c][Len(rateLet[c]) - Len(rateBucket[c]) + i]
                        /\ \A i \in 1..(Len(rateLet[c]) - Len(rateBucket[c])) :
                              rateLet[c][i] < rateNow' - Window
                        /\ \A i \in 1..Len(rateLet[c]) : rateLet[c][i] <= rateNow'
      BY <1>1 DEF BucketIsEnd
    <2>1. /\ Len(rateBucket[c]) <= Len(rateLet[c])
          /\ \A i \in 1..Len(rateBucket[c]) :
                rateBucket[c][i] = rateLet[c][Len(rateLet[c]) - Len(rateBucket[c]) + i]
          /\ \A i \in 1..(Len(rateLet[c]) - Len(rateBucket[c])) :
                rateLet[c][i] < rateNow - Window
          /\ \A i \in 1..Len(rateLet[c]) : rateLet[c][i] <= rateNow
      BY DEF RateIInv, BucketIsEnd
    <2>2. rateLet[c] \in Seq(Nat) /\ rateBucket[c] \in Seq(Nat)
      BY DEF RateIInv, RateTypeOK
    <2>3. \A i \in 1..(Len(rateLet[c]) - Len(rateBucket[c])) : i \in 1..Len(rateLet[c])
      BY <2>1, <2>2
    <2>4. \A i \in 1..Len(rateLet[c]) : rateLet[c][i] \in Nat
      BY <2>2
    <2>5. \A i \in 1..(Len(rateLet[c]) - Len(rateBucket[c])) : rateLet[c][i] < rateNow' - Window
      BY <1>1, <2>1, <2>3, <2>4
    <2>6. \A i \in 1..Len(rateLet[c]) : rateLet[c][i] <= rateNow'
      BY <1>1, <2>1, <2>4
    <2> QED  BY <2>1, <2>5, <2>6
  <1> QED  BY <1>1, <1>2 DEF RateIInv, RateTypeOK, WithinBudget, RefusedIsFull

LEMMA NextInv == RateIInv /\ [RateNext]_rateVars => RateIInv'
  <1> SUFFICES ASSUME RateIInv, [RateNext]_rateVars
               PROVE  RateIInv'
    OBVIOUS
  <1>1. CASE RateTick
    BY <1>1, TickInv
  <1>2. ASSUME NEW c \in Clients, Request(c)
        PROVE  RateIInv'
    BY <1>2, LetThroughInv, RefuseInv DEF Request
  <1>3. CASE UNCHANGED rateVars
    BY <1>3 DEF rateVars, RateIInv, RateTypeOK, WithinBudget, BucketIsEnd, RefusedIsFull
  <1> QED  BY <1>1, <1>2, <1>3 DEF RateNext

LEMMA RateInvariant == RateSpec => []RateIInv
  BY RateInitInv, NextInv, PTL DEF RateSpec

\* Every variable of the model keeps its type, and no bucket exceeds the budget.
THEOREM RateTypeCorrect == RateSpec => []RateTypeOK
  <1>1. RateIInv => RateTypeOK
    BY DEF RateIInv
  <1> QED  BY <1>1, RateInvariant, PTL

\* No address gets more than its budget through in any window.
THEOREM BudgetKept == RateSpec => []WithinBudget
  <1>1. RateIInv => WithinBudget
    BY DEF RateIInv
  <1> QED  BY <1>1, RateInvariant, PTL

\* Who waits longer than the Retry-After of the last refusal is let through.
THEOREM RetryAfterSuffices == RateSpec => WaitSuffices
  <1>1. ASSUME RateIInv, [RateNext]_rateVars, NEW c \in Clients
        PROVE  rateWait'[c] \notin {rateWait[c], 0} => rateWait[c] = 0 \/ rateNow <= rateWait[c]
    <2> SUFFICES ASSUME rateWait'[c] \notin {rateWait[c], 0}, rateWait[c] # 0, ~(rateNow <= rateWait[c])
                 PROVE  FALSE
      BY <1>1
    <2>0. /\ rateBucket[c] \in Seq(Nat) /\ rateNow \in Nat /\ rateWait \in [Clients -> Nat]
          /\ Window \in Nat /\ Budget \in Nat \ {0}
      BY <1>1, RateAssumption DEF RateIInv, RateTypeOK
    <2>1. PICK d \in Clients : Request(d)
      BY <1>1 DEF RateNext, RateTick, rateVars
    <2>2. PICK k \in 0..Len(rateBucket[d]) :
            /\ Outdated(rateBucket[d], k)
            /\ LET bucket == SubSeq(rateBucket[d], k + 1, Len(rateBucket[d]))
               IN LetThrough(d, bucket) \/ Refuse(d, bucket)
      BY <2>1 DEF Request
    <2> DEFINE bucket == SubSeq(rateBucket[d], k + 1, Len(rateBucket[d]))
    <2>3. \/ rateWait' = [rateWait EXCEPT ![d] = 0]
          \/ \E seconds \in 1..(Window + 1) : rateWait' = [rateWait EXCEPT ![d] = rateNow + seconds * Second]
      BY <2>2 DEF LetThrough, Refuse
    <2>4. d = c
      BY <2>0, <2>3
    <2>5. RateFull(bucket)
      BY <2>0, <2>2, <2>4 DEF LetThrough, Refuse
    <2>6. Len(rateBucket[c]) = Budget /\ rateBucket[c][1] + Window <= rateWait[c]
      BY <1>1 DEF RateIInv, RefusedIsFull
    <2>7. Len(bucket) = Len(rateBucket[c]) - k
      BY <2>0, <2>4, PopFront
    <2>8. k = 0
      BY <2>0, <2>4, <2>5, <2>6, <2>7 DEF RateFull
    <2>9. rateBucket[c][1] >= rateNow - Window
      BY <2>0, <2>2, <2>4, <2>6, <2>8 DEF Outdated
    <2>10. rateBucket[c][1] \in Nat
      BY <2>0, <2>6
    <2> QED  BY <2>0, <2>6, <2>9, <2>10
  <1>2. RateIInv /\ [RateNext]_rateVars =>
          \A c \in Clients :
             rateWait'[c] \notin {rateWait[c], 0} => rateWait[c] = 0 \/ rateNow <= rateWait[c]
    BY <1>1
  <1> QED  BY <1>2, RateInvariant, PTL DEF RateSpec, WaitSuffices

-----------------------------------------------------------------------------
(***************************************************************************)
(* Terminal support sessions.                                              *)
(***************************************************************************)

LEMMA TermInitInv == TermInit => TermIInv
<1> SUFFICES ASSUME TermInit PROVE TermIInv
  OBVIOUS
<1> USE TermAssumption DEF TermInit, TermIdle, Backends
<1>1. TermTypeOK /\ TermAtWork /\ TermStarted /\ TermOneBackend /\ TermStopped /\ TermReachable /\ TermLastWords
  BY DEF TermTypeOK, TermAtWork, TermStarted, TermOneBackend, TermStopped, TermReachable, TermLastWords
<1>2. TermHolds
  BY DEF TermHolds, TermUnlogged
<1>3. TermLogged
  <2> SUFFICES ASSUME NEW s \in TermIds
               PROVE  /\ \A i, j \in DOMAIN termLog[s] : i < j => termLog[s][i] < termLog[s][j]
                      /\ Range(termLog[s]) = (1..termRead[s]) \ (termLost[s] \cup TermUnlogged(s))
    BY DEF TermLogged
  <2>1. termLog[s] = <<>> /\ termRead[s] = 0 /\ DOMAIN termLog[s] = {}
    OBVIOUS
  <2>2. Range(termLog[s]) = {} /\ 1..termRead[s] = {}
    BY <2>1 DEF Range
  <2> QED  BY <2>1, <2>2
<1> QED  BY <1>1, <1>2, <1>3 DEF TermIInv

\* Steps that neither read nor log, between which no output is held, keep the log as it is.
LEMMA TermNothingHeld ==
    ASSUME TermIInv, UNCHANGED <<termRead, termLog, termLost>>, termOp.held = 0, termOp'.held = 0
    PROVE  TermLogged' /\ TermHolds'
  <1>1. \A s \in TermIds : termRead[s] \in Nat
    BY TermAssumption DEF TermIInv, TermTypeOK
  <1>2. \A s \in TermIds : TermUnlogged(s) = {} /\ TermUnlogged(s)' = {}
    BY <1>1 DEF TermUnlogged
  <1>3. TermLogged'
    BY <1>2 DEF TermIInv, TermLogged
  <1>4. TermHolds'
    BY <1>1, <1>2 DEF TermIInv, TermHolds
  <1> QED  BY <1>3, <1>4

\* So do steps that leave the call alone.
LEMMA TermSameHeld ==
    ASSUME TermIInv, UNCHANGED <<termRead, termLog, termLost, termOp>>
    PROVE  TermLogged' /\ TermHolds'
  <1>1. \A s \in TermIds : TermUnlogged(s)' = TermUnlogged(s)
    BY DEF TermUnlogged
  <1> QED  BY <1>1 DEF TermIInv, TermLogged, TermHolds

LEMMA TermStartKeeps ==
    ASSUME TermIInv, NEW s \in TermIds, TermStart(s)
    PROVE  TermIInv'
  <1> USE TermAssumption DEF TermIInv, TermTypeOK, TermIdle, Backends, termHistory
  <1>1. TermTypeOK'
    BY DEF TermStart
  <1>2. TermAtWork'
    BY DEF TermStart, TermAtWork
  <1>3. TermStarted'
    BY DEF TermStart, TermAtWork, TermStarted
  <1>4. TermOneBackend'
    BY DEF TermStart, TermAtWork, TermStarted, TermOneBackend
  <1>5. TermStopped'
    BY DEF TermStart, TermAtWork, TermStopped
  <1>6. TermReachable'
    BY DEF TermStart, TermAtWork, TermStarted, TermOneBackend, TermStopped, TermReachable
  <1>7. TermLogged' /\ TermHolds'
    BY TermNothingHeld DEF TermStart, TermHolds
  <1>8. TermLastWords'
    BY DEF TermStart, TermLastWords
  <1> QED  BY <1>1, <1>2, <1>3, <1>4, <1>5, <1>6, <1>7, <1>8

LEMMA TermHeadKeeps ==
    ASSUME TermIInv, TermHead
    PROVE  TermIInv'
  <1> DEFINE s == termOp.sid
  <1>1. /\ s \in TermIds /\ s # TermNone /\ termOp.step = "head"
        /\ termOp \in [step : {"idle", "head", "read", "close"}, sid : TermIds \cup {TermNone},
                       backend : Backends, stop : BOOLEAN, held : 0..TermCap]
    BY TermAssumption DEF TermIInv, TermTypeOK, TermAtWork, TermHead
  <1>2. CASE /\ termTable' = [termTable EXCEPT ![s] = termOp.backend]
             /\ termOp' = [termOp EXCEPT !.step = "read"]
             /\ UNCHANGED <<termFailed, termOpen>>
    <2>1. TermTypeOK'
      BY <1>1, <1>2 DEF TermIInv, TermTypeOK, TermHead
    <2>2. TermAtWork' /\ TermStopped'
      BY <1>1, <1>2 DEF TermIInv, TermTypeOK, TermHead, TermAtWork, TermStopped
    <2>3. TermStarted' /\ TermLastWords'
      BY <1>1, <1>2 DEF TermIInv, TermTypeOK, TermHead, TermStarted, TermLastWords
    <2>6. TermLogged' /\ TermHolds'
      BY <1>1, <1>2, TermNothingHeld DEF TermHead, TermIInv, TermHolds
    <2>4. TermOneBackend'
      BY <1>1, <1>2 DEF TermIInv, TermTypeOK, TermHead, TermOneBackend
    <2>5. TermReachable'
      BY <1>1, <1>2 DEF TermIInv, TermTypeOK, TermHead, TermReachable
    <2> QED  BY <2>1, <2>2, <2>3, <2>4, <2>5, <2>6 DEF TermIInv
  <1>3. CASE /\ termFailed' = termFailed \cup {s}
             /\ termOpen' = [termOpen EXCEPT ![s] = @ \ {"pipe"}]
             /\ termOp' = TermIdle
             /\ UNCHANGED termTable
    <2>1. TermTypeOK'
      <3>1. TermIdle \in [step : {"idle", "head", "read", "close"}, sid : TermIds \cup {TermNone},
                          backend : Backends, stop : BOOLEAN, held : 0..TermCap]
        BY TermAssumption DEF TermIdle, Backends
      <3> QED  BY <1>1, <1>3, <3>1 DEF TermIInv, TermTypeOK, TermHead
    <2>2. TermAtWork' /\ TermStopped' /\ TermStarted' /\ TermLastWords'
      BY <1>1, <1>3, TermAssumption
         DEF TermIInv, TermTypeOK, TermHead, TermIdle, TermAtWork, TermStopped, TermStarted,
             TermLastWords
    <2>4. TermLogged' /\ TermHolds'
      BY <1>1, <1>3, TermNothingHeld DEF TermHead, TermIdle, TermIInv, TermHolds
    <2>3. TermOneBackend' /\ TermReachable'
      BY <1>1, <1>3, TermAssumption
         DEF TermIInv, TermTypeOK, TermHead, TermIdle, TermOneBackend, TermReachable
    <2> QED  BY <2>1, <2>2, <2>3, <2>4 DEF TermIInv
  <1> QED  BY <1>2, <1>3 DEF TermHead

LEMMA TermPollKeeps ==
    ASSUME TermIInv, NEW s \in TermIds, TermPoll(s)
    PROVE  TermIInv'
  <1> USE TermAssumption DEF TermIInv, TermTypeOK, TermIdle, Backends, termHistory
  <1>1. TermTypeOK'
    BY DEF TermPoll
  <1>2. TermAtWork'
    BY DEF TermPoll, TermAtWork
  <1>3. TermStarted'
    BY DEF TermPoll, TermAtWork, TermStarted
  <1>4. TermOneBackend'
    BY DEF TermPoll, TermAtWork, TermStarted, TermOneBackend
  <1>5. TermStopped'
    BY DEF TermPoll, TermAtWork, TermStopped
  <1>6. TermReachable'
    BY DEF TermPoll, TermAtWork, TermReachable
  <1>7. TermLogged' /\ TermHolds'
    BY TermNothingHeld DEF TermPoll, TermHolds
  <1>8. TermLastWords'
    BY DEF TermPoll, TermLastWords
  <1> QED  BY <1>1, <1>2, <1>3, <1>4, <1>5, <1>6, <1>7, <1>8

LEMMA TermStopKeeps ==
    ASSUME TermIInv, NEW s \in TermIds, TermStop(s)
    PROVE  TermIInv'
  <1> USE TermAssumption DEF TermIInv, TermTypeOK, TermIdle, Backends, termHistory
  <1>1. TermTypeOK'
    BY DEF TermStop
  <1>2. TermAtWork'
    BY DEF TermStop, TermAtWork
  <1>3. TermStarted'
    BY DEF TermStop, TermAtWork, TermStarted
  <1>4. TermOneBackend'
    BY DEF TermStop, TermAtWork, TermStarted, TermOneBackend
  <1>5. TermStopped'
    BY DEF TermStop, TermAtWork, TermStopped
  <1>6. TermReachable'
    BY DEF TermStop, TermAtWork, TermReachable
  <1>7. TermLogged' /\ TermHolds'
    BY TermNothingHeld DEF TermStop, TermHolds
  <1>8. TermLastWords'
    BY DEF TermStop, TermLastWords
  <1> QED  BY <1>1, <1>2, <1>3, <1>4, <1>5, <1>6, <1>7, <1>8

LEMMA TermReadsKeeps ==
    ASSUME TermIInv, TermReads
    PROVE  TermIInv'
  <1> DEFINE s == termOp.sid
             h == termOp.held
             r == termRead[s]
  <1>1. /\ s \in TermIds /\ s # TermNone /\ termOp.step = "read" /\ termTable[s] = termOp.backend
        /\ termOp \in [step : {"idle", "head", "read", "close"}, sid : TermIds \cup {TermNone},
                       backend : Backends, stop : BOOLEAN, held : 0..TermCap]
    BY TermAssumption DEF TermIInv, TermTypeOK, TermAtWork, TermReads
  <1>2. h \in Nat /\ r \in Nat /\ h < TermCap /\ r < termMade[s] /\ termMade[s] \in 0..TermMaxOut /\ h <= r
    BY <1>1, TermAssumption DEF TermIInv, TermTypeOK, TermReads, TermHolds
  <1>3. termRead' = [termRead EXCEPT ![s] = r + 1] /\ termOp' = [termOp EXCEPT !.held = h + 1]
    BY DEF TermReads
  <1>4. UNCHANGED <<termProc, termOpen, termTable, termMade, termLog, termFailed, termGivenUp, termLost, termWhole>>
    BY DEF TermReads, termHistory
  <1>5. /\ termOp' \in [step : {"idle", "head", "read", "close"}, sid : TermIds \cup {TermNone},
                        backend : Backends, stop : BOOLEAN, held : 0..TermCap]
        /\ termOp'.step = "read" /\ termOp'.sid = s /\ termOp'.backend = termOp.backend
        /\ termOp'.stop = termOp.stop /\ termOp'.held = h + 1
    BY <1>1, <1>2, <1>3, TermAssumption
  <1>6. TermTypeOK'
    <2>1. /\ termRead' \in [TermIds -> 0..TermMaxOut]
          /\ \A x \in TermIds : termRead'[x] <= termMade'[x]
      BY <1>1, <1>2, <1>3, <1>4, TermAssumption DEF TermIInv, TermTypeOK
    <2> QED  BY <2>1, <1>4, <1>5 DEF TermIInv, TermTypeOK
  <1>7. TermAtWork' /\ TermStarted' /\ TermOneBackend' /\ TermStopped' /\ TermReachable'
    BY <1>1, <1>4, <1>5 DEF TermIInv, TermAtWork, TermStarted, TermOneBackend, TermStopped, TermReachable
  <1>8. /\ TermUnlogged(s) = (r - h + 1)..r
        /\ TermUnlogged(s)' = (r - h + 1)..(r + 1)
        /\ termRead'[s] = r + 1
    BY <1>1, <1>2, <1>3, <1>5 DEF TermUnlogged, TermIInv, TermTypeOK
  <1>9. \A x \in TermIds \ {s} : TermUnlogged(x)' = TermUnlogged(x) /\ termRead'[x] = termRead[x]
    BY <1>1, <1>3, <1>5 DEF TermUnlogged, TermIInv, TermTypeOK
  <1>10. termLost[s] \subseteq 1..r \ TermUnlogged(s)
    BY <1>1 DEF TermIInv, TermHolds
  <1>11. TermHolds'
    <2>1. termLost[s] \subseteq 1..(r + 1) \ TermUnlogged(s)'
      BY <1>2, <1>8, <1>10
    <2> QED  BY <1>2, <1>4, <1>5, <1>8, <1>9, <2>1 DEF TermIInv, TermHolds
  <1>12. TermLogged'
    <2>1. (1..(r + 1)) \ (termLost[s] \cup TermUnlogged(s)') = (1..r) \ (termLost[s] \cup TermUnlogged(s))
      BY <1>2, <1>8
    <2>2. ASSUME NEW x \in TermIds
          PROVE  (1..termRead'[x]) \ (termLost'[x] \cup TermUnlogged(x)') = (1..termRead[x]) \ (termLost[x] \cup TermUnlogged(x))
      <3>1. CASE x = s
        <4>1. termRead'[x] = r + 1 /\ termRead[x] = r /\ termLost'[x] = termLost[s] /\ termLost[x] = termLost[s]
          BY <3>1, <1>4, <1>8
        <4>2. TermUnlogged(x) = TermUnlogged(s) /\ TermUnlogged(x)' = TermUnlogged(s)'
          BY <3>1, <1>5 DEF TermUnlogged
        <4> HIDE DEF r, s
        <4> QED  BY <2>1, <4>1, <4>2
      <3>2. CASE x # s
        BY <3>2, <1>4, <1>9
      <3> QED  BY <3>1, <3>2
    <2> QED  BY <1>4, <2>2 DEF TermIInv, TermLogged
  <1>13. TermLastWords'
    BY <1>2, <1>4, <1>9 DEF TermIInv, TermTypeOK, TermLastWords
  <1> QED  BY <1>6, <1>7, <1>11, <1>12, <1>13 DEF TermIInv

\* The numbers from + 1 to from + n after a log of smaller ones.
Grows(M, log, from, n, more, new) ==
    /\ M \in Nat /\ log \in Seq(1..M) /\ from \in Nat /\ n \in Nat /\ from + n <= M
    /\ \A i, j \in DOMAIN log : i < j => log[i] < log[j]
    /\ \A i \in DOMAIN log : log[i] <= from
    /\ more \in Seq(1..M) /\ Len(more) = n /\ \A i \in 1..n : more[i] = from + i
    /\ new = log \o more

LEMMA TermGrows ==
    ASSUME NEW M, NEW log, NEW from, NEW n, NEW more, NEW new, Grows(M, log, from, n, more, new)
    PROVE  /\ new \in Seq(1..M)
           /\ \A i, j \in DOMAIN new : i < j => new[i] < new[j]
           /\ Range(new) = Range(log) \cup ((from + 1)..(from + n))
  <1>1. /\ M \in Nat /\ log \in Seq(1..M) /\ from \in Nat /\ n \in Nat /\ from + n <= M
        /\ more \in Seq(1..M) /\ Len(more) = n
    BY DEF Grows
  <1>b. /\ \A i, j \in DOMAIN log : i < j => log[i] < log[j]
        /\ \A i \in DOMAIN log : log[i] <= from
    BY DEF Grows
  <1>c. new = log \o more /\ \A i \in 1..n : more[i] = from + i
    BY DEF Grows
  <1>2. Len(log) \in Nat /\ DOMAIN log = 1..Len(log) /\ \A i \in 1..Len(log) : log[i] \in 1..M
    BY <1>1
  <1>3. /\ new \in Seq(1..M) /\ Len(new) = Len(log) + n /\ DOMAIN new = 1..(Len(log) + n)
        /\ \A i \in 1..Len(log) : new[i] = log[i]
        /\ \A i \in 1..n : new[Len(log) + i] = from + i
    <2>1. new \in Seq(1..M) /\ Len(new) = Len(log) + Len(more)
      BY <1>1, <1>c, ConcatProperties, Zenon
    <2>2. Len(new) = Len(log) + n
      BY <2>1, <1>1
    <2>3. DOMAIN new = 1..(Len(log) + n)
      BY <2>1, <2>2
    <2>4. \A i \in 1..Len(log) : new[i] = log[i]
      BY <1>1, <1>2, <1>c
    <2>5. ASSUME NEW i \in 1..n PROVE new[Len(log) + i] = from + i
      <3>1. Len(log) + i \in 1..(Len(log) + Len(more)) /\ Len(log) + i > Len(log) /\ Len(log) + i - Len(log) = i
        BY <1>1, <1>2
      <3>2. new[Len(log) + i] = more[i]
        BY <3>1, <1>1, <1>2, <1>c
      <3> QED  BY <3>2, <1>c
    <2> QED  BY <2>1, <2>2, <2>3, <2>4, <2>5
  <1>4. \A k \in DOMAIN new : \/ k \in 1..Len(log) /\ new[k] = log[k]
                              \/ k - Len(log) \in 1..n /\ new[k] = from + (k - Len(log))
    <2> SUFFICES ASSUME NEW k \in DOMAIN new, k \notin 1..Len(log)
                 PROVE  k - Len(log) \in 1..n /\ new[k] = from + (k - Len(log))
      BY <1>3
    <2>1. k - Len(log) \in 1..n /\ Len(log) + (k - Len(log)) = k
      BY <1>1, <1>2, <1>3
    <2> QED  BY <2>1, <1>3
  <1>5. \A i, j \in DOMAIN new : i < j => new[i] < new[j]
    <2> SUFFICES ASSUME NEW i \in DOMAIN new, NEW j \in DOMAIN new, i < j
                 PROVE  new[i] < new[j]
      OBVIOUS
    <2>1. CASE i \in 1..Len(log) /\ j \in 1..Len(log)
      BY <2>1, <1>2, <1>3, <1>b
    <2>2. CASE i \in 1..Len(log) /\ j \notin 1..Len(log)
      <3>1. new[i] = log[i] /\ log[i] <= from /\ log[i] \in Nat
        BY <2>2, <1>2, <1>3, <1>b
      <3>2. new[j] = from + (j - Len(log)) /\ j - Len(log) \in 1..n
        BY <2>2, <1>4
      <3>3. from + (j - Len(log)) > from
        BY <3>2, <1>1, <1>2, <1>3
      <3>4. i \in Nat /\ j \in Nat /\ Len(log) \in Nat /\ from \in Nat
        BY <1>1, <1>2, <1>3
      <3> QED  BY <3>1, <3>2, <3>3, <3>4
    <2>3. CASE i \notin 1..Len(log)
      <3>1. new[i] = from + (i - Len(log)) /\ i - Len(log) \in 1..n
        BY <2>3, <1>4
      <3>2. j \notin 1..Len(log) /\ i \in Nat /\ j \in Nat
        BY <2>3, <1>2, <1>3
      <3>3. new[j] = from + (j - Len(log)) /\ j - Len(log) \in 1..n
        BY <3>2, <1>4
      <3> QED  BY <3>1, <3>2, <3>3, <1>1, <1>2
    <2> QED  BY <2>1, <2>2, <2>3
  <1>6. ASSUME NEW x \in Range(new)
        PROVE  x \in Range(log) \cup ((from + 1)..(from + n))
    <2>1. PICK k \in DOMAIN new : new[k] = x
      BY <1>6 DEF Range
    <2>2. CASE k \in 1..Len(log)
      BY <2>1, <2>2, <1>2, <1>3 DEF Range
    <2>3. CASE k \notin 1..Len(log)
      <3>1. k - Len(log) \in 1..n /\ x = from + (k - Len(log))
        BY <2>1, <2>3, <1>4
      <3> QED  BY <3>1, <1>1, <1>2
    <2> QED  BY <2>2, <2>3
  <1>7. ASSUME NEW x \in Range(log) PROVE x \in Range(new)
    <2>1. PICK k \in DOMAIN log : log[k] = x
      BY <1>7 DEF Range
    <2>2. k \in DOMAIN new /\ new[k] = x
      BY <2>1, <1>1, <1>2, <1>3
    <2> QED  BY <2>2 DEF Range
  <1>8. ASSUME NEW x \in (from + 1)..(from + n) PROVE x \in Range(new)
    <2>1. x - from \in 1..n /\ from + (x - from) = x
      BY <1>1
    <2>2. Len(log) + (x - from) \in 1..(Len(log) + n)
      BY <2>1, <1>1, <1>2
    <2>3. Len(log) + (x - from) \in DOMAIN new
      BY <2>2, <1>3
    <2>4. new[Len(log) + (x - from)] = x
      BY <2>1, <1>3
    <2> QED  BY <2>3, <2>4 DEF Range
  <1>9. Range(new) = Range(log) \cup ((from + 1)..(from + n))
    BY <1>6, <1>7, <1>8
  <1> QED  BY <1>3, <1>5, <1>9

\* A log that has got the first n of the pieces held, while the rest of them is lost.
LogUpdate(s, r, from, n, new) ==
    /\ s \in TermIds /\ r \in Nat /\ from \in Nat /\ n \in Nat
    /\ r = termRead[s] /\ r <= TermMaxOut /\ from + n <= r /\ TermUnlogged(s) = (from + 1)..r
    /\ \A x \in TermIds \ {s} : TermUnlogged(x) = {}
    /\ \A x \in TermIds : TermUnlogged(x)' = {}
    /\ new \in Seq(1..TermMaxOut) /\ \A i, j \in DOMAIN new : i < j => new[i] < new[j]
    /\ Range(new) = Range(termLog[s]) \cup ((from + 1)..(from + n))
    /\ termLog' = [termLog EXCEPT ![s] = new]
    /\ termLost' = [termLost EXCEPT ![s] = @ \cup ((from + n + 1)..r)]
    /\ UNCHANGED termRead /\ termOp'.held = 0

LEMMA TermLogUpdate ==
    ASSUME TermIInv, NEW s, NEW r, NEW from, NEW n, NEW new, LogUpdate(s, r, from, n, new)
    PROVE  /\ termLog' \in [TermIds -> Seq(1..TermMaxOut)]
           /\ termLost' \in [TermIds -> SUBSET (1..TermMaxOut)]
           /\ TermLogged' /\ TermHolds'
  <1> USE DEF LogUpdate
  <1>1. /\ Range(termLog[s]) = (1..r) \ (termLost[s] \cup ((from + 1)..r))
        /\ termLost[s] \subseteq 1..r \ ((from + 1)..r)
    BY DEF TermIInv, TermLogged, TermHolds
  <1>2. termLog' \in [TermIds -> Seq(1..TermMaxOut)]
    BY DEF TermIInv, TermTypeOK
  <1>3. /\ termLog'[s] = new /\ termLost'[s] = termLost[s] \cup ((from + n + 1)..r)
        /\ \A x \in TermIds \ {s} : termLog'[x] = termLog[x] /\ termLost'[x] = termLost[x]
    BY DEF TermIInv, TermTypeOK
  <1>4. TermMaxOut \in Nat /\ \A x \in TermIds : termRead[x] \in Nat
    BY TermAssumption DEF TermIInv, TermTypeOK
  <1>5. termLost' \in [TermIds -> SUBSET (1..TermMaxOut)]
    <2>1. (from + n + 1)..r \subseteq 1..TermMaxOut
      BY <1>4
    <2> QED  BY <2>1 DEF TermIInv, TermTypeOK
  <1>6. Range(new) = (1..r) \ termLost'[s]
    <2>1. ASSUME NEW x PROVE x \in Range(new) <=> x \in (1..r) \ termLost'[s]
      <3>1. x \in Range(new) <=> \/ x \in 1..r /\ x \notin termLost[s] /\ x \notin (from + 1)..r
                                \/ x \in (from + 1)..(from + n)
        BY <1>1
      <3>2. x \in termLost'[s] <=> x \in termLost[s] \/ x \in (from + n + 1)..r
        BY <1>3
      <3>3. x \in (from + 1)..r <=> x \in (from + 1)..(from + n) \/ x \in (from + n + 1)..r
        OBVIOUS
      <3>4. x \in (from + 1)..(from + n) => x \notin (from + n + 1)..r /\ x \in 1..r
        OBVIOUS
      <3>5. x \in termLost[s] => x \notin (from + 1)..r
        BY <1>1
      <3> QED  BY <3>1, <3>2, <3>3, <3>4, <3>5, Zenon
    <2> QED  BY <2>1, Zenon
  <1>7. TermLogged'
    <2>1. ASSUME NEW x \in TermIds
          PROVE  /\ \A i, j \in DOMAIN termLog'[x] : i < j => termLog'[x][i] < termLog'[x][j]
                 /\ Range(termLog'[x]) = (1..termRead'[x]) \ (termLost'[x] \cup TermUnlogged(x)')
      <3>1. CASE x = s
        BY <3>1, <1>3, <1>6
      <3>2. CASE x # s
        BY <3>2, <1>3 DEF TermIInv, TermLogged
      <3> QED  BY <3>1, <3>2
    <2> QED  BY <2>1 DEF TermLogged
  <1>8. TermHolds'
    <2>1. ASSUME NEW x \in TermIds
          PROVE  termLost'[x] \subseteq 1..termRead'[x] \ TermUnlogged(x)'
      <3>1. CASE x = s
        <4>1. (from + n + 1)..r \subseteq 1..r
          OBVIOUS
        <4> QED  BY <3>1, <4>1, <1>1, <1>3
      <3>2. CASE x # s
        BY <3>2, <1>3 DEF TermIInv, TermHolds
      <3> QED  BY <3>1, <3>2
    <2> QED  BY <2>1, <1>4 DEF TermHolds
  <1> QED  BY <1>2, <1>5, <1>7, <1>8

\* A call that ends its reading: n of the pieces it holds get into the log, the rest is lost.
ReadingOver(n, s, from, more) ==
    /\ termOp.step = "read" /\ n \in 0..termOp.held
    /\ s = termOp.sid /\ from = termRead[s] - termOp.held
    /\ more = [i \in 1..n |-> from + i]
    /\ termLog' = [termLog EXCEPT ![s] = @ \o more]
    /\ termLost' = [termLost EXCEPT ![s] = @ \cup ((from + n + 1)..termRead[s])]
    /\ UNCHANGED termRead /\ termOp'.held = 0

LEMMA TermReadingOver ==
    ASSUME TermIInv, NEW n, NEW s, NEW from, NEW more, ReadingOver(n, s, from, more)
    PROVE  /\ termLog' \in [TermIds -> Seq(1..TermMaxOut)]
           /\ termLost' \in [TermIds -> SUBSET (1..TermMaxOut)]
           /\ TermLogged' /\ TermHolds'
  <1> DEFINE r == termRead[s]
             new == termLog[s] \o more
  <1>1. /\ s \in TermIds /\ r \in 0..TermMaxOut /\ TermMaxOut \in Nat
        /\ termOp.held \in Nat /\ termOp.held <= r /\ n \in Nat /\ n <= termOp.held
        /\ termLog[s] \in Seq(1..TermMaxOut)
    BY TermAssumption DEF ReadingOver, TermIInv, TermTypeOK, TermAtWork, TermHolds
  <1>2. from \in Nat /\ from + n <= r /\ from + termOp.held = r /\ r \in Nat /\ r <= TermMaxOut
        /\ from + n <= TermMaxOut
    BY <1>1 DEF ReadingOver
  <1>3. TermUnlogged(s) = (from + 1)..r
    BY <1>1 DEF ReadingOver, TermUnlogged
  <1>4. /\ \A x \in TermIds : TermUnlogged(x)' = {}
        /\ \A x \in TermIds \ {s} : TermUnlogged(x) = {}
    BY TermAssumption DEF ReadingOver, TermIInv, TermTypeOK, TermUnlogged
  <1>5. /\ \A i, j \in DOMAIN termLog[s] : i < j => termLog[s][i] < termLog[s][j]
        /\ Range(termLog[s]) = (1..r) \ (termLost[s] \cup TermUnlogged(s))
    BY <1>1 DEF TermIInv, TermLogged
  <1>6. \A i \in DOMAIN termLog[s] : termLog[s][i] <= from
    <2> SUFFICES ASSUME NEW i \in DOMAIN termLog[s] PROVE termLog[s][i] <= from
      OBVIOUS
    <2>1. termLog[s][i] \in Range(termLog[s])
      BY DEF Range
    <2>2. termLog[s][i] \in 1..r /\ termLog[s][i] \notin (from + 1)..r
      BY <2>1, <1>3, <1>5
    <2> QED  BY <2>2, <1>1, <1>2
  <1>b. new = termLog[s] \o more /\ r = termRead[s]
    OBVIOUS
  <1>c. more \in Seq(1..TermMaxOut) /\ Len(more) = n /\ \A i \in 1..n : more[i] = from + i
    <2>1. \A i \in 1..n : from + i \in 1..TermMaxOut
      BY <1>1, <1>2
    <2>2. more \in [1..n -> 1..TermMaxOut]
      BY <2>1 DEF ReadingOver
    <2>3. more \in Seq(1..TermMaxOut) /\ Len(more) = n
      BY <1>1, <2>2, Listed, Zenon
    <2> QED  BY <2>3 DEF ReadingOver
  <1>8. termLog' = [termLog EXCEPT ![s] = new] /\ termLost' = [termLost EXCEPT ![s] = @ \cup ((from + n + 1)..r)]
    BY DEF ReadingOver
  <1> HIDE DEF new, r
  <1>7. /\ new \in Seq(1..TermMaxOut)
        /\ \A i, j \in DOMAIN new : i < j => new[i] < new[j]
        /\ Range(new) = Range(termLog[s]) \cup ((from + 1)..(from + n))
    <2>1. TermMaxOut \in Nat /\ from \in Nat /\ n \in Nat /\ from + n <= TermMaxOut
      BY <1>1, <1>2
    <2>2. termLog[s] \in Seq(1..TermMaxOut)
      BY <1>1
    <2>3. \A i, j \in DOMAIN termLog[s] : i < j => termLog[s][i] < termLog[s][j]
      BY <1>5
    <2>4. new = termLog[s] \o more
      BY <1>b
    <2>5. Grows(TermMaxOut, termLog[s], from, n, more, new)
      BY <2>1, <2>2, <2>3, <2>4, <1>6, <1>c DEF Grows
    <2> QED  BY <2>5, TermGrows
  <1>9. LogUpdate(s, r, from, n, new)
    <2>1. UNCHANGED termRead /\ termOp'.held = 0
      BY DEF ReadingOver
    <2> QED  BY <1>1, <1>2, <1>3, <1>4, <1>7, <1>8, <1>b, <2>1 DEF LogUpdate
  <1> QED  BY <1>9, TermLogUpdate, Zenon

\* What the end of the reading does to the call: it is over, or a stop goes on to close.
LEMMA TermCallOver ==
    ASSUME TermIInv, termOp.step = "read",
           \/ termOp.stop /\ termOp' = [termOp EXCEPT !.step = "close", !.held = 0]
           \/ termOp' = TermIdle,
           UNCHANGED <<termProc, termOpen, termTable, termFailed, termGivenUp>>
    PROVE  /\ termOp' \in [step : {"idle", "head", "read", "close"}, sid : TermIds \cup {TermNone},
                           backend : Backends, stop : BOOLEAN, held : 0..TermCap]
           /\ termOp'.held = 0
           /\ TermAtWork' /\ TermStarted' /\ TermOneBackend' /\ TermStopped' /\ TermReachable'
  <1> DEFINE s == termOp.sid
  <1>1. /\ s \in TermIds /\ s # TermNone /\ termTable[s] = termOp.backend /\ TermCap \in Nat
        /\ termOp \in [step : {"idle", "head", "read", "close"}, sid : TermIds \cup {TermNone},
                       backend : Backends, stop : BOOLEAN, held : 0..TermCap]
    BY TermAssumption DEF TermIInv, TermTypeOK, TermAtWork
  <1>2. \/ /\ termOp' = [step |-> "close", sid |-> s, backend |-> termOp.backend, stop |-> TRUE, held |-> 0]
           /\ termOp.stop
        \/ termOp' = [step |-> "idle", sid |-> TermNone, backend |-> "pty", stop |-> FALSE, held |-> 0]
    <2>1. CASE termOp.stop /\ termOp' = [termOp EXCEPT !.step = "close", !.held = 0]
      BY <1>1, <2>1
    <2>2. CASE termOp' = TermIdle
      BY <2>2 DEF TermIdle
    <2> QED  BY <2>1, <2>2
  <1>3. /\ termOp' \in [step : {"idle", "head", "read", "close"}, sid : TermIds \cup {TermNone},
                        backend : Backends, stop : BOOLEAN, held : 0..TermCap]
        /\ termOp'.held = 0
        /\ TermAtWork' /\ TermStopped'
    <2>1. CASE /\ termOp' = [step |-> "close", sid |-> s, backend |-> termOp.backend, stop |-> TRUE, held |-> 0]
               /\ termOp.stop
      <3>1. /\ termOp'.step = "close" /\ termOp'.sid = s /\ termOp'.backend = termOp.backend
            /\ termOp'.stop /\ termOp'.held = 0
        BY <2>1
      <3>2. TermStopped'
        BY <1>1, <2>1, <3>1 DEF TermIInv, TermStopped
      <3>3. TermAtWork'
        BY <1>1, <3>1 DEF TermAtWork
      <3> QED  BY <1>1, <2>1, <3>1, <3>2, <3>3
    <2>2. CASE termOp' = [step |-> "idle", sid |-> TermNone, backend |-> "pty", stop |-> FALSE, held |-> 0]
      <3>1. termOp'.step = "idle" /\ termOp'.sid = TermNone /\ termOp'.held = 0
        BY <2>2
      <3>2. TermAtWork' /\ TermStopped'
        BY <3>1 DEF TermAtWork, TermStopped
      <3> QED  BY <1>1, <2>2, <3>1, <3>2 DEF Backends
    <2> QED  BY <1>2, <2>1, <2>2
  <1>4. termOp'.sid \in {s, TermNone} /\ (termOp'.sid = s => termOp'.backend = termOp.backend)
    BY <1>1, <1>2
  <1>5. TermStarted'
    BY <1>1, <1>4, TermAssumption DEF TermIInv, TermStarted
  <1>6. TermOneBackend'
    BY <1>1, <1>4, TermAssumption DEF TermIInv, TermOneBackend
  <1>7. TermReachable'
    BY <1>1, <1>2, TermAssumption DEF TermIInv, TermReachable
  <1> QED  BY <1>3, <1>5, <1>6, <1>7

LEMMA TermAppendsKeeps ==
    ASSUME TermIInv, NEW included \in BOOLEAN, TermAppends(included)
    PROVE  TermIInv'
  <1> DEFINE s == termOp.sid
  <1>1. /\ s \in TermIds /\ termOp.step = "read" /\ termOp.held \in Nat /\ termOp.held <= termRead[s]
        /\ termRead[s] \in 0..TermMaxOut
    BY TermAssumption DEF TermIInv, TermTypeOK, TermAtWork, TermAppends, TermHolds
  <1>2. UNCHANGED <<termProc, termOpen, termTable, termMade, termRead, termFailed, termGivenUp, termLost>>
    BY DEF TermAppends
  <1>3. /\ termOp' \in [step : {"idle", "head", "read", "close"}, sid : TermIds \cup {TermNone},
                        backend : Backends, stop : BOOLEAN, held : 0..TermCap]
        /\ termOp'.held = 0
        /\ TermAtWork' /\ TermStarted' /\ TermOneBackend' /\ TermStopped' /\ TermReachable'
    <2>1. termOp' = IF termOp.stop THEN [termOp EXCEPT !.step = "close", !.held = 0] ELSE TermIdle
      BY DEF TermAppends
    <2> QED  BY <1>1, <1>2, <2>1, TermCallOver
  <1>4. /\ termLog' \in [TermIds -> Seq(1..TermMaxOut)]
        /\ TermLogged' /\ TermHolds'
    <2> DEFINE from == termRead[s] - termOp.held
               more == [i \in 1..termOp.held |-> from + i]
    <2>1. termLog' = [termLog EXCEPT ![s] = @ \o more]
      BY DEF TermAppends
    <2>2. (from + termOp.held + 1)..termRead[s] = {}
      BY <1>1
    <2>3. termLost' = [termLost EXCEPT ![s] = @ \cup ((from + termOp.held + 1)..termRead[s])]
      BY <2>2, <1>1, <1>2 DEF TermIInv, TermTypeOK
    <2>4. termOp.held \in 0..termOp.held /\ from = termRead[s] - termOp.held /\ s = termOp.sid
      BY <1>1
    <2>5. UNCHANGED termRead
      BY <1>2
    <2>6. more = [i \in 1..termOp.held |-> from + i]
      OBVIOUS
    <2> HIDE DEF from, s, more
    <2>7. ReadingOver(termOp.held, s, from, more)
      BY <2>1, <2>3, <2>4, <2>5, <2>6, <1>1, <1>3 DEF ReadingOver
    <2> QED  BY <2>7, TermReadingOver, Zenon
  <1>5. termWhole' = IF termOp.stop /\ included /\ termOp.held < TermCap /\ s \notin termGivenUp
                     THEN termWhole \cup {s} ELSE termWhole
    BY DEF TermAppends
  <1>6. TermTypeOK'
    BY <1>1, <1>2, <1>3, <1>4, <1>5 DEF TermIInv, TermTypeOK
  <1>7. TermLastWords'
    <2>1. ASSUME termOp.stop, included, termOp.held < TermCap, s \notin termGivenUp
          PROVE  termRead[s] = termMade[s] /\ termProc[s] = "ended"
      <3>1. termRead[s] = termMade[s]
        BY <2>1, TermAssumption DEF TermAppends, TermIInv, TermTypeOK
      <3>2. termProc[s] = "ended"
        BY <2>1, <1>1 DEF TermIInv, TermStopped
      <3> QED  BY <3>1, <3>2
    <2> QED  BY <2>1, <1>2, <1>5 DEF TermIInv, TermLastWords
  <1> QED  BY <1>3, <1>4, <1>6, <1>7 DEF TermIInv

LEMMA TermRaisesKeeps ==
    ASSUME TermIInv, TermRaises
    PROVE  TermIInv'
  <1>1. PICK n \in 0..termOp.held :
          LET s == termOp.sid
              from == termRead[s] - termOp.held
          IN /\ termLog' = [termLog EXCEPT ![s] = @ \o [i \in 1..n |-> from + i]]
             /\ termLost' = [termLost EXCEPT ![s] = @ \cup ((from + n + 1)..termRead[s])]
    BY DEF TermRaises
  <1>2. /\ termOp.step = "read" /\ termOp' = TermIdle
        /\ UNCHANGED <<termProc, termOpen, termTable, termMade, termRead, termFailed, termGivenUp, termWhole>>
    BY DEF TermRaises
  <1>3. /\ termOp' \in [step : {"idle", "head", "read", "close"}, sid : TermIds \cup {TermNone},
                        backend : Backends, stop : BOOLEAN, held : 0..TermCap]
        /\ termOp'.held = 0
        /\ TermAtWork' /\ TermStarted' /\ TermOneBackend' /\ TermStopped' /\ TermReachable'
    BY <1>2, TermCallOver
  <1>4. /\ termLog' \in [TermIds -> Seq(1..TermMaxOut)]
        /\ termLost' \in [TermIds -> SUBSET (1..TermMaxOut)]
        /\ TermLogged' /\ TermHolds'
    <2> DEFINE s == termOp.sid
               from == termRead[s] - termOp.held
               more == [i \in 1..n |-> from + i]
    <2>1. ReadingOver(n, s, from, more)
      BY <1>1, <1>2, <1>3 DEF ReadingOver
    <2> HIDE DEF s, from, more
    <2> QED  BY <2>1, TermReadingOver, Zenon
  <1>5. TermTypeOK'
    BY <1>2, <1>3, <1>4 DEF TermIInv, TermTypeOK
  <1>6. TermLastWords'
    BY <1>2 DEF TermIInv, TermLastWords
  <1> QED  BY <1>3, <1>4, <1>5, <1>6 DEF TermIInv

LEMMA TermCloseKeeps ==
    ASSUME TermIInv, TermClose
    PROVE  TermIInv'
  <1> USE TermAssumption DEF TermIInv, TermTypeOK, TermIdle, Backends, termHistory
  <1>1. TermTypeOK'
    <2>1. termOp' \in [step : {"idle", "head", "read", "close"}, sid : TermIds \cup {TermNone},
                       backend : Backends, stop : BOOLEAN, held : 0..TermCap]
      BY DEF TermClose
    <2> QED  BY <2>1 DEF TermClose
  <1>2. TermAtWork'
    BY DEF TermClose, TermAtWork
  <1>3. TermStarted'
    BY DEF TermClose, TermAtWork, TermStarted
  <1>4. TermOneBackend'
    BY DEF TermClose, TermAtWork, TermStarted, TermOneBackend
  <1>5. TermStopped'
    BY DEF TermClose, TermAtWork, TermStopped
  <1>6. TermReachable'
    <2>1. termOp.sid \in TermIds /\ termOp.stop
      BY DEF TermClose, TermAtWork
    <2>2. termOp.sid \notin termFailed => termOpen'[termOp.sid] = {}
      BY <2>1 DEF TermClose, TermOneBackend
    <2>3. termProc[termOp.sid] = "runs" => termOp.sid \in termGivenUp
      BY <2>1 DEF TermClose, TermStopped
    <2> QED  BY <2>1, <2>2, <2>3 DEF TermClose, TermReachable
  <1>7. TermLogged' /\ TermHolds'
    BY TermNothingHeld DEF TermClose, TermHolds
  <1>8. TermLastWords'
    BY DEF TermClose, TermLastWords
  <1> QED  BY <1>1, <1>2, <1>3, <1>4, <1>5, <1>6, <1>7, <1>8

LEMMA TermWritesKeeps ==
    ASSUME TermIInv, NEW s \in TermIds, TermWrites(s)
    PROVE  TermIInv'
  <1> USE TermAssumption DEF TermIInv, TermTypeOK, TermIdle, Backends, termHistory
  <1>1. TermTypeOK'
    BY DEF TermWrites
  <1>2. TermAtWork'
    BY DEF TermWrites, TermAtWork
  <1>3. TermStarted'
    BY DEF TermWrites, TermAtWork, TermStarted
  <1>4. TermOneBackend'
    BY DEF TermWrites, TermAtWork, TermStarted, TermOneBackend
  <1>5. TermStopped'
    BY DEF TermWrites, TermAtWork, TermStopped
  <1>6. TermReachable'
    BY DEF TermWrites, TermAtWork, TermStarted, TermOneBackend, TermStopped, TermReachable
  <1>7. TermLogged' /\ TermHolds'
    BY TermSameHeld DEF TermWrites
  <1>8. TermLastWords'
    BY DEF TermWrites, TermLastWords
  <1> QED  BY <1>1, <1>2, <1>3, <1>4, <1>5, <1>6, <1>7, <1>8

LEMMA TermEndsKeeps ==
    ASSUME TermIInv, NEW s \in TermIds, TermEnds(s)
    PROVE  TermIInv'
  <1> USE TermAssumption DEF TermIInv, TermTypeOK, TermIdle, Backends, termHistory
  <1>1. TermTypeOK'
    BY DEF TermEnds
  <1>2. TermAtWork'
    BY DEF TermEnds, TermAtWork
  <1>3. TermStarted'
    BY DEF TermEnds, TermAtWork, TermStarted
  <1>4. TermOneBackend'
    BY DEF TermEnds, TermAtWork, TermStarted, TermOneBackend
  <1>5. TermStopped'
    BY DEF TermEnds, TermAtWork, TermStopped
  <1>6. TermReachable'
    BY DEF TermEnds, TermAtWork, TermStarted, TermOneBackend, TermStopped, TermReachable
  <1>7. TermLogged' /\ TermHolds'
    BY TermSameHeld DEF TermEnds
  <1>8. TermLastWords'
    BY DEF TermEnds, TermLastWords
  <1> QED  BY <1>1, <1>2, <1>3, <1>4, <1>5, <1>6, <1>7, <1>8

LEMMA TermCrashKeeps ==
    ASSUME TermIInv, TermCrash
    PROVE  TermIInv'
  <1> USE TermAssumption DEF TermIInv, TermTypeOK, TermIdle, Backends
  <1>1. /\ termTable' = [s \in TermIds |-> TermNone] /\ termOpen' = [s \in TermIds |-> {}]
        /\ termOp' = TermIdle
        /\ termGivenUp' = termGivenUp \cup {s \in TermIds : termProc[s] = "runs"}
        /\ termLost' = [s \in TermIds |-> termLost[s] \cup TermUnlogged(s)]
        /\ UNCHANGED <<termProc, termMade, termRead, termLog, termFailed, termWhole>>
    BY DEF TermCrash
  <1>2. \A s \in TermIds : /\ TermUnlogged(s)' = {}
                           /\ termRead[s] \in 0..TermMaxOut
                           /\ TermUnlogged(s) \subseteq 1..termRead[s]
    BY <1>1 DEF TermUnlogged, TermHolds
  <1>3. TermTypeOK'
    <2>1. termLost' \in [TermIds -> SUBSET (1..TermMaxOut)]
      BY <1>1, <1>2
    <2> QED  BY <1>1, <2>1
  <1>4. TermAtWork' /\ TermStarted' /\ TermOneBackend' /\ TermStopped' /\ TermReachable' /\ TermLastWords'
    BY <1>1 DEF TermAtWork, TermStarted, TermOneBackend, TermStopped, TermReachable, TermLastWords
  <1>5. TermHolds'
    BY <1>1, <1>2 DEF TermHolds
  <1>6. TermLogged'
    BY <1>1, <1>2 DEF TermLogged
  <1> QED  BY <1>3, <1>4, <1>5, <1>6

LEMMA StepKeeps == TermIInv /\ [TermNext]_termVars => TermIInv'
  <1> SUFFICES ASSUME TermIInv, [TermNext]_termVars
               PROVE  TermIInv'
    OBVIOUS
  <1>1. CASE TermNext
    <2>1. CASE TermHead
      BY <2>1, TermHeadKeeps
    <2>2. CASE TermClose
      BY <2>2, TermCloseKeeps
    <2>3. CASE TermRaises
      BY <2>3, TermRaisesKeeps
    <2>4. CASE TermCrash
      BY <2>4, TermCrashKeeps
    <2>5. ASSUME NEW included \in BOOLEAN, TermAppends(included)
          PROVE  TermIInv'
      BY <2>5, TermAppendsKeeps
    <2>7. CASE TermReads
      BY <2>7, TermReadsKeeps
    <2>6. ASSUME NEW s \in TermIds,
                 TermStart(s) \/ TermPoll(s) \/ TermStop(s) \/ TermWrites(s) \/ TermEnds(s)
          PROVE  TermIInv'
      BY <2>6, TermStartKeeps, TermPollKeeps, TermStopKeeps, TermWritesKeeps, TermEndsKeeps
    <2> QED  BY <1>1, <2>1, <2>2, <2>3, <2>4, <2>5, <2>6, <2>7 DEF TermNext
  <1>2. CASE UNCHANGED termVars
    <2>1. TermLogged' /\ TermHolds'
      BY <1>2, TermSameHeld DEF termVars, termHistory
    <2> QED  BY <1>2, <2>1 DEF termVars, termHistory, TermIInv, TermTypeOK, TermAtWork, TermStarted,
       TermOneBackend, TermStopped, TermReachable, TermLastWords
  <1> QED  BY <1>1, <1>2

LEMMA TermInvariant == TermSpec => []TermIInv
  BY TermInitInv, StepKeeps, PTL DEF TermSpec

-----------------------------------------------------------------------------
\* The variables keep their types; nothing is read that was not written.
THEOREM TermTypeCorrect == TermSpec => []TermTypeOK
  <1>1. TermIInv => TermTypeOK
    BY DEF TermIInv
  <1> QED  BY <1>1, TermInvariant, PTL

\* What mode=stop is for: commands and descriptors of the server's sessions can be
\* reached through the table, unless a start failed or fell back to pipes.
THEOREM SessionsReachable == TermSpec => []TermReachable
  <1>1. TermIInv => TermReachable
    BY DEF TermIInv
  <1> QED  BY <1>1, TermInvariant, PTL

\* The log has what was read, in order and once, but for what a call still holds and
\* what calls held that raised or died between os.read and the append.
THEOREM LogIsComplete == TermSpec => []TermLogged
  <1>1. TermIInv => TermLogged
    BY DEF TermIInv
  <1> QED  BY <1>1, TermInvariant, PTL

\* The last read of a stop comes after the wait, so that it finds the last words.
THEOREM LastWordsLogged == TermSpec => []TermLastWords
  <1>1. TermIInv => TermLastWords
    BY DEF TermIInv
  <1> QED  BY <1>1, TermInvariant, PTL

-----------------------------------------------------------------------------
(***************************************************************************)
(* The agent proxy.                                                        *)
(***************************************************************************)

LEMMA DisclosedInit == PxInit => PxDisclosed
BY DEF PxInit, PxDisclosed

LEMMA DisclosedNext == PxDisclosed /\ [PxNext]_pxVars => PxDisclosed'
<1> SUFFICES ASSUME PxDisclosed, [PxNext]_pxVars  PROVE PxDisclosed'
  OBVIOUS
<1>1. CASE PxRecord
  BY <1>1 DEF PxDisclosed, PxRecord
<1>2. CASE PxCall
  BY <1>2 DEF PxDisclosed, PxCall
<1>3. CASE PxDisconnected
  BY <1>3 DEF PxDisclosed, PxDisconnected
<1>4. CASE PxCancelled
  BY <1>4 DEF PxDisclosed, PxCancelled
<1>5. CASE PxEnd
  BY <1>5 DEF PxDisclosed, PxEnd
<1>6. CASE PxFail
  BY <1>6 DEF PxDisclosed, PxFail
<1>7. CASE PxLeave
  BY <1>7 DEF PxDisclosed, PxLeave
<1>8. ASSUME NEW n \in 0..Len(pxAnswer), NEW finish \in BOOLEAN, PxPiece(n, finish)
      PROVE  PxDisclosed'
  <2>1. pxStep' = pxStep /\ pxAudit' = pxAudit
    BY <1>8 DEF PxPiece
  <2> QED
    BY <2>1 DEF PxDisclosed
<1>9. CASE UNCHANGED pxVars
  BY <1>9 DEF PxDisclosed, pxVars
<1> QED
  BY <1>1, <1>2, <1>3, <1>4, <1>5, <1>6, <1>7, <1>8, <1>9 DEF PxNext

\* openai_chat_completions: with a strict audit the provider is never called without
\* a line in the disclosure file, and no outcome is recorded without its request.
THEOREM CallsDisclosed == PxSpec => []PxDisclosed
<1>1. PxInit => PxDisclosed
  BY DisclosedInit
<1>2. PxDisclosed /\ [PxNext]_pxVars => PxDisclosed'
  BY DisclosedNext
<1> QED
  BY <1>1, <1>2, PTL DEF PxSpec
-----------------------------------------------------------------------------
(***************************************************************************)
(* Words in a row.                                                         *)
(***************************************************************************)

Joined(f, ws, n) == f = [i \in 1..n |-> IF i = 1 THEN ws[i] ELSE f[i - 1] \o ws[i]]

LEMMA JoinedOne ==
  ASSUME NEW ws, NEW n \in Nat, NEW f, Joined(f, ws, n)
  PROVE  \E g : Joined(g, ws, n + 1)
<1> DEFINE h == IF n = 0 THEN ws[1] ELSE f[n] \o ws[n + 1]
           g == [i \in 1..(n + 1) |-> IF i = n + 1 THEN h ELSE f[i]]
<1>1. \A i \in 1..n : g[i] = f[i] /\ f[i] = IF i = 1 THEN ws[i] ELSE f[i - 1] \o ws[i]
  <2>1. \A i \in 1..n : f[i] = IF i = 1 THEN ws[i] ELSE f[i - 1] \o ws[i]
    BY DEF Joined
  <2>2. \A i \in 1..n : g[i] = f[i]
    OBVIOUS
  <2> QED
    BY <2>1, <2>2
<1>2. g[n + 1] = h
  OBVIOUS
<1>3. g = [i \in 1..(n + 1) |-> g[i]]
  OBVIOUS
<1> HIDE DEF g
<1>4. ASSUME NEW i \in 1..(n + 1)  PROVE g[i] = IF i = 1 THEN ws[i] ELSE g[i - 1] \o ws[i]
  <2>1. CASE i = n + 1
    <3>1. CASE n = 0
      BY <2>1, <3>1, <1>2
    <3>2. CASE n # 0
      <4>1. n \in 1..n /\ i # 1 /\ i - 1 = n
        BY <2>1, <3>2
      <4>2. g[n] = f[n]
        BY <4>1, <1>1
      <4> QED
        BY <2>1, <3>2, <4>1, <4>2, <1>2
    <3> QED
      BY <3>1, <3>2
  <2>2. CASE i # n + 1
    <3>1. i \in 1..n
      BY <2>2
    <3>2. CASE i = 1
      BY <3>1, <3>2, <1>1
    <3>3. CASE i # 1
      <4>1. i - 1 \in 1..n
        BY <3>1, <3>3
      <4>2. g[i - 1] = f[i - 1] /\ g[i] = f[i] /\ f[i] = f[i - 1] \o ws[i]
        BY <3>1, <3>3, <4>1, <1>1
      <4> QED
        BY <3>3, <4>2
    <3> QED
      BY <3>2, <3>3
  <2> QED
    BY <2>1, <2>2
<1>5. Joined(g, ws, n + 1)
  BY <1>3, <1>4 DEF Joined
<1> QED
  BY <1>5

LEMMA JoinedExists ==
  ASSUME NEW ws, NEW n \in Nat
  PROVE  \E f : Joined(f, ws, n)
<1> DEFINE G == {i \in Nat : \E f : Joined(f, ws, i)}
<1>1. 0 \in G
  <2> DEFINE g == [i \in 1..0 |-> <<>>]
  <2>1. Joined(g, ws, 0)
    BY DEF Joined
  <2> QED
    BY <2>1
<1>2. \A i \in 0..(n - 1) : i \in G => i + 1 \in G
  BY JoinedOne
<1>3. n \in G
  <2> HIDE DEF G
  <2>1. \A i \in 0..n : i \in G
    BY <1>1, <1>2, UpTo
  <2> QED
    BY <2>1
<1> QED
  BY <1>3

LEMMA FlatJoined ==
  ASSUME NEW W, NEW ws \in Seq(W), ws # <<>>
  PROVE  \E f : Joined(f, ws, Len(ws)) /\ FlattenSeq(ws) = f[Len(ws)]
<1>1. Len(ws) \in Nat /\ Len(ws) # 0
  BY EmptySeq
<1>2. \E f : Joined(f, ws, Len(ws))
  BY <1>1, JoinedExists
<1> QED
  BY <1>1, <1>2 DEF FlattenSeq, Joined

\* Two that join the same words agree.
LEMMA JoinedAgree ==
  ASSUME NEW ws, NEW vs, NEW n \in Nat, NEW m \in Nat, 1 <= n, n <= m,
         NEW f, NEW g, Joined(f, ws, n), Joined(g, vs, m), \A i \in 1..n : ws[i] = vs[i]
  PROVE  f[n] = g[n]
<1> DEFINE G == {i \in 0..n : i = 0 \/ f[i] = g[i]}
<1>1. 0 \in G
  OBVIOUS
<1>2. ASSUME NEW i \in 0..(n - 1), i \in G  PROVE i + 1 \in G
  <2>1. i + 1 \in 1..n /\ i + 1 \in 1..m /\ (i + 1) - 1 = i /\ ws[i + 1] = vs[i + 1]
    OBVIOUS
  <2>2. /\ f[i + 1] = IF i + 1 = 1 THEN ws[i + 1] ELSE f[(i + 1) - 1] \o ws[i + 1]
        /\ g[i + 1] = IF i + 1 = 1 THEN vs[i + 1] ELSE g[(i + 1) - 1] \o vs[i + 1]
    BY <2>1 DEF Joined
  <2>3. i = 0 \/ f[i] = g[i]
    BY <1>2
  <2>4. f[i + 1] = g[i + 1]
    BY <2>1, <2>2, <2>3
  <2> QED
    BY <2>1, <2>4
<1>3. n \in G
  <2> HIDE DEF G
  <2>1. \A i \in 0..n : i \in G
    BY <1>1, <1>2, UpTo
  <2> QED
    BY <2>1
<1> QED
  BY <1>3

LEMMA FlatEmpty == FlattenSeq(<<>>) = <<>>
  BY DEF FlattenSeq

LEMMA FlatOne == ASSUME NEW S, NEW w \in Seq(S) PROVE FlattenSeq(<<w>>) = w
<1>1. <<w>> \in Seq(Seq(S)) /\ <<w>> # <<>> /\ Len(<<w>>) = 1 /\ <<w>>[1] = w
  OBVIOUS
<1>2. PICK f : Joined(f, <<w>>, 1) /\ FlattenSeq(<<w>>) = f[1]
  BY <1>1, FlatJoined
<1> QED
  BY <1>1, <1>2 DEF Joined

LEMMA FlatAppend ==
  ASSUME NEW S, NEW ws \in Seq(Seq(S)), NEW w \in Seq(S)
  PROVE  FlattenSeq(Append(ws, w)) = FlattenSeq(ws) \o w
<1> DEFINE vs == Append(ws, w)
           n == Len(ws)
<1>1. /\ n \in Nat /\ vs \in Seq(Seq(S)) /\ vs # <<>> /\ Len(vs) = n + 1 /\ vs[n + 1] = w
      /\ \A i \in 1..n : vs[i] = ws[i]
  BY AppendProperties
<1>2. PICK g : Joined(g, vs, n + 1) /\ FlattenSeq(vs) = g[n + 1]
  <2> HIDE DEF vs
  <2> QED
    BY <1>1, FlatJoined
<1> HIDE DEF vs
<1>3. CASE n = 0
  <2>1. ws = <<>>
    BY <1>3, EmptySeq
  <2>2. g[1] = w
    BY <1>1, <1>2, <1>3 DEF Joined
  <2>3. <<>> \o w = w
    BY ConcatEmptySeq
  <2> QED
    BY <2>1, <2>2, <2>3, <1>2, <1>3, FlatEmpty DEF vs
<1>4. CASE n # 0
  <2>1. ws # <<>>
    BY <1>4
  <2>2. PICK f : Joined(f, ws, n) /\ FlattenSeq(ws) = f[n]
    BY <2>1, FlatJoined
  <2>3. f[n] = g[n]
    <3> HIDE DEF n
    <3>1. n + 1 \in Nat /\ 1 <= n /\ n <= n + 1 /\ \A i \in 1..n : ws[i] = vs[i]
      BY <1>1, <1>4
    <3> QED
      BY <3>1, <1>1, <2>2, <1>2, JoinedAgree
  <2>4. g[n + 1] = g[n] \o w
    <3>1. n + 1 \in 1..(n + 1) /\ n + 1 # 1 /\ (n + 1) - 1 = n
      BY <1>1, <1>4
    <3> HIDE DEF n
    <3>2. g[n + 1] = IF n + 1 = 1 THEN vs[n + 1] ELSE g[(n + 1) - 1] \o vs[n + 1]
      BY <3>1, <1>2 DEF Joined
    <3> QED
      BY <3>1, <3>2, <1>1
  <2> QED
    BY <2>2, <2>3, <2>4, <1>2 DEF vs
<1> QED
  BY <1>3, <1>4

LEMMA FlatText ==
  ASSUME NEW S, NEW ws \in Seq(Seq(S))
  PROVE  FlattenSeq(ws) \in Seq(S)
<1> DEFINE G == {v \in Seq(Seq(S)) : FlattenSeq(v) \in Seq(S)}
<1>1. <<>> \in G
  <2>1. <<>> \in Seq(S) /\ <<>> \in Seq(Seq(S)) /\ FlattenSeq(<<>>) = <<>>
    BY FlatEmpty
  <2> QED
    BY <2>1
<1>2. \A v \in Seq(Seq(S)), w \in Seq(S) : v \in G => Append(v, w) \in G
  <2> SUFFICES ASSUME NEW v \in Seq(Seq(S)), NEW w \in Seq(S), FlattenSeq(v) \in Seq(S)
               PROVE  Append(v, w) \in Seq(Seq(S)) /\ FlattenSeq(Append(v, w)) \in Seq(S)
    OBVIOUS
  <2>1. Append(v, w) \in Seq(Seq(S))
    BY AppendProperties
  <2>2. FlattenSeq(Append(v, w)) = FlattenSeq(v) \o w
    BY FlatAppend
  <2> QED
    BY <2>1, <2>2, ConcatProperties
<1>3. Seq(Seq(S)) \subseteq G
  <2> HIDE DEF G
  <2> QED
    BY <1>1, <1>2, EndInduction
<1> QED
  BY <1>3

LEMMA FlatCat ==
  ASSUME NEW S, NEW us \in Seq(Seq(S)), NEW ws \in Seq(Seq(S))
  PROVE  FlattenSeq(us \o ws) = FlattenSeq(us) \o FlattenSeq(ws)
<1> DEFINE P(v) == FlattenSeq(us \o v) = FlattenSeq(us) \o FlattenSeq(v)
           G == {v \in Seq(Seq(S)) : P(v)}
<1>0. FlattenSeq(us) \in Seq(S)
  BY FlatText
<1>1. <<>> \in G
  <2>1. us \o <<>> = us /\ FlattenSeq(us) \o <<>> = FlattenSeq(us)
    BY <1>0, ConcatEmptySeq
  <2>2. P(<<>>)
    BY <2>1, FlatEmpty
  <2> QED
    BY <2>2
<1>2. \A v \in Seq(Seq(S)), w \in Seq(S) : v \in G => Append(v, w) \in G
  <2> SUFFICES ASSUME NEW v \in Seq(Seq(S)), NEW w \in Seq(S), P(v)
               PROVE  Append(v, w) \in Seq(Seq(S)) /\ P(Append(v, w))
    OBVIOUS
  <2>1. Append(v, w) \in Seq(Seq(S)) /\ us \o v \in Seq(Seq(S)) /\ FlattenSeq(v) \in Seq(S)
    BY AppendProperties, ConcatProperties, FlatText
  <2>2. us \o Append(v, w) = Append(us \o v, w)
    <3>1. <<w>> \in Seq(Seq(S))
      OBVIOUS
    <3>2. Append(v, w) = v \o <<w>> /\ Append(us \o v, w) = (us \o v) \o <<w>>
      BY <2>1, AppendIsConcat
    <3> QED
      BY <3>1, <3>2, ConcatAssociative
  <2>3. /\ FlattenSeq(Append(us \o v, w)) = FlattenSeq(us \o v) \o w
        /\ FlattenSeq(Append(v, w)) = FlattenSeq(v) \o w
    BY <2>1, FlatAppend
  <2>4. (FlattenSeq(us) \o FlattenSeq(v)) \o w = FlattenSeq(us) \o (FlattenSeq(v) \o w)
    BY <1>0, <2>1, ConcatAssociative
  <2> QED
    BY <2>1, <2>2, <2>3, <2>4
<1>3. Seq(Seq(S)) \subseteq G
  <2> HIDE DEF G
  <2> QED
    BY <1>1, <1>2, EndInduction
<1> QED
  BY <1>3

LEMMA FlatFirst ==
  ASSUME NEW S, NEW w \in Seq(S), NEW ws \in Seq(Seq(S))
  PROVE  FlattenSeq(<<w>> \o ws) = w \o FlattenSeq(ws)
<1>1. <<w>> \in Seq(Seq(S))
  OBVIOUS
<1>2. FlattenSeq(<<w>> \o ws) = FlattenSeq(<<w>>) \o FlattenSeq(ws)
  BY <1>1, FlatCat
<1>3. FlattenSeq(<<w>>) = w
  BY FlatOne
<1> QED
  BY <1>2, <1>3

-----------------------------------------------------------------------------
(***************************************************************************)
(* Replacing: the recursion has a solution, what it makes of a text        *)
(* without matches, and of a text that ends with another.                  *)
(***************************************************************************)

Scan(f, text, length, by, m) ==
    f = [i \in m..(Len(text) + 1) |->
            IF i > Len(text) THEN <<>>
            ELSE IF length[i] = 0 THEN <<text[i]>> \o f[i + 1]
            ELSE <<by>> \o f[i + length[i]]]

Fits(text, length) == \A i \in 1..Len(text) : length[i] \in Nat /\ i + length[i] <= Len(text) + 1

ScanSteps(f, text, length, by, m) ==
    /\ f[Len(text) + 1] = <<>>
    /\ \A i \in m..Len(text) :
          f[i] = IF length[i] = 0 THEN <<text[i]>> \o f[i + 1] ELSE <<by>> \o f[i + length[i]]

LEMMA ScanStep ==
  ASSUME NEW text, Len(text) \in Nat, NEW length, NEW by, NEW m \in 1..(Len(text) + 1), NEW f,
         Scan(f, text, length, by, m)
  PROVE  ScanSteps(f, text, length, by, m)
<1>1. \A i \in m..(Len(text) + 1) :
         f[i] = IF i > Len(text) THEN <<>>
                ELSE IF length[i] = 0 THEN <<text[i]>> \o f[i + 1]
                ELSE <<by>> \o f[i + length[i]]
  BY DEF Scan
<1>2. Len(text) + 1 \in m..(Len(text) + 1) /\ Len(text) + 1 > Len(text)
  OBVIOUS
<1>3. \A i \in m..Len(text) : i \in m..(Len(text) + 1) /\ ~(i > Len(text))
  OBVIOUS
<1>4. f[Len(text) + 1] = <<>>
  BY <1>1, <1>2
<1>5. ASSUME NEW i \in m..Len(text)
      PROVE  f[i] = IF length[i] = 0 THEN <<text[i]>> \o f[i + 1] ELSE <<by>> \o f[i + length[i]]
  BY <1>1, <1>3
<1> QED
  BY <1>4, <1>5 DEF ScanSteps

LEMMA ScanOne ==
  ASSUME NEW text, Len(text) \in Nat, NEW length, Fits(text, length), NEW by,
         NEW m \in 1..Len(text), NEW f, Scan(f, text, length, by, m + 1)
  PROVE  \E g : Scan(g, text, length, by, m)
<1> DEFINE n == Len(text)
           h == IF length[m] = 0 THEN <<text[m]>> \o f[m + 1] ELSE <<by>> \o f[m + length[m]]
           g == [i \in m..(n + 1) |-> IF i = m THEN h ELSE f[i]]
<1>0. n \in Nat /\ m \in 1..n /\ m + 1 \in 1..(n + 1)
  OBVIOUS
<1>1. /\ f[n + 1] = <<>>
      /\ \A i \in (m + 1)..n :
            f[i] = IF length[i] = 0 THEN <<text[i]>> \o f[i + 1] ELSE <<by>> \o f[i + length[i]]
  <2>1. Len(text) \in Nat /\ m + 1 \in 1..(Len(text) + 1)
    OBVIOUS
  <2>2. ScanSteps(f, text, length, by, m + 1)
    BY <2>1, ScanStep
  <2> QED
    BY <2>2 DEF ScanSteps
<1>2. \A i \in (m + 1)..(n + 1) : g[i] = f[i]
  OBVIOUS
<1>3. g[m] = h
  OBVIOUS
<1>4. g = [i \in m..(n + 1) |-> g[i]]
  OBVIOUS
<1>5. \A i \in 1..n : length[i] \in Nat /\ i + length[i] <= n + 1
  BY DEF Fits
<1> HIDE DEF g, n
<1>6. ASSUME NEW i \in m..(n + 1)
      PROVE  g[i] = IF i > n THEN <<>>
                    ELSE IF length[i] = 0 THEN <<text[i]>> \o g[i + 1]
                    ELSE <<by>> \o g[i + length[i]]
  <2>1. CASE i = n + 1
    BY <2>1, <1>0, <1>1, <1>2
  <2>2. CASE i = m
    <3>1. length[m] \in Nat /\ m + length[m] <= n + 1 /\ ~(m > n)
      BY <1>0, <1>5
    <3>2. g[m + 1] = f[m + 1]
      BY <1>0, <1>2
    <3>3. length[m] # 0 => g[m + length[m]] = f[m + length[m]]
      BY <1>0, <1>2, <3>1
    <3> QED
      BY <2>2, <3>1, <3>2, <3>3, <1>3
  <2>3. CASE i # m /\ i # n + 1
    <3>1. i \in (m + 1)..n /\ ~(i > n) /\ i \in 1..n /\ g[i] = f[i]
      BY <2>3, <1>0, <1>2
    <3>2. length[i] \in Nat /\ i + length[i] \in (m + 1)..(n + 1) /\ i + 1 \in (m + 1)..(n + 1)
      BY <3>1, <1>0, <1>5
    <3>3. g[i + 1] = f[i + 1] /\ g[i + length[i]] = f[i + length[i]]
      BY <3>2, <1>2
    <3>4. f[i] = IF length[i] = 0 THEN <<text[i]>> \o f[i + 1] ELSE <<by>> \o f[i + length[i]]
      BY <3>1, <1>1
    <3> QED
      BY <3>1, <3>3, <3>4
  <2> QED
    BY <2>1, <2>2, <2>3
<1>7. Scan(g, text, length, by, m)
  BY <1>4, <1>6 DEF Scan, n
<1> QED
  BY <1>7

LEMMA ScanExists ==
  ASSUME NEW text, Len(text) \in Nat, NEW length, Fits(text, length), NEW by
  PROVE  \E f : Scan(f, text, length, by, 1)
<1> DEFINE n == Len(text)
           G == {k \in 0..n : \E f : Scan(f, text, length, by, n - k + 1)}
<1>0. n \in Nat
  OBVIOUS
<1>1. 0 \in G
  <2> DEFINE g == [i \in (n + 1)..(n + 1) |-> <<>>]
  <2>1. Scan(g, text, length, by, n + 1)
    <3>1. \A i \in (n + 1)..(n + 1) : i > n
      BY <1>0
    <3> QED
      BY <3>1, <1>0 DEF Scan
  <2>2. n - 0 + 1 = n + 1 /\ 0 \in 0..n
    BY <1>0
  <2> HIDE DEF n, g
  <2> QED
    BY <2>1, <2>2
<1>2. ASSUME NEW k \in 0..(n - 1), k \in G  PROVE k + 1 \in G
  <2>1. n - (k + 1) + 1 = n - k /\ n - k + 1 = (n - k) + 1 /\ k + 1 \in 0..n /\ n - k \in 1..n
    BY <1>0
  <2>2. PICK f : Scan(f, text, length, by, (n - k) + 1)
    <3> HIDE DEF n
    <3> QED
      BY <1>2, <2>1
  <2>3. \E g : Scan(g, text, length, by, n - k)
    BY <2>1, <2>2, ScanOne
  <2> HIDE DEF n
  <2> QED
    BY <2>1, <2>3
<1>3. n \in G
  <2> HIDE DEF G, n
  <2>1. \A k \in 0..n : k \in G
    BY <1>0, <1>1, <1>2, UpTo
  <2> QED
    BY <2>1, <1>0
<1>4. n - n + 1 = 1
  BY <1>0
<1> HIDE DEF n
<1> QED
  BY <1>3, <1>4

LEMMA ReplacedScan ==
  ASSUME NEW text, Len(text) \in Nat, NEW length, Fits(text, length), NEW by
  PROVE  \E f : Scan(f, text, length, by, 1) /\ Replaced(text, length, by) = f[1]
<1>1. \E f : Scan(f, text, length, by, 1)
  BY ScanExists
<1> QED
  BY <1>1 DEF Replaced, Scan

\* What is made of a text is a text.
LEMMA ScanText ==
  ASSUME NEW S, NEW text \in Seq(S), NEW length, Fits(text, length), NEW by \in S,
         NEW f, Scan(f, text, length, by, 1)
  PROVE  \A i \in 1..(Len(text) + 1) : f[i] \in Seq(S)
<1> DEFINE n == Len(text)
           G == {k \in 0..n : \A i \in (n - k + 1)..(n + 1) : f[i] \in Seq(S)}
<1>0. n \in Nat /\ \A i \in 1..n : text[i] \in S
  BY ElementOfSeq
<1>1. /\ f[n + 1] = <<>>
      /\ \A i \in 1..n :
            f[i] = IF length[i] = 0 THEN <<text[i]>> \o f[i + 1] ELSE <<by>> \o f[i + length[i]]
  <2>1. Len(text) \in Nat /\ 1 \in 1..(Len(text) + 1)
    OBVIOUS
  <2>2. ScanSteps(f, text, length, by, 1)
    BY <2>1, ScanStep
  <2> QED
    BY <2>2 DEF ScanSteps
<1>2. \A i \in 1..n : length[i] \in Nat /\ i + length[i] <= n + 1
  BY DEF Fits
<1> HIDE DEF n
<1>3. 0 \in G
  <2>1. \A i \in (n - 0 + 1)..(n + 1) : i = n + 1
    BY <1>0
  <2>2. <<>> \in Seq(S)
    OBVIOUS
  <2>3. \A i \in (n - 0 + 1)..(n + 1) : f[i] \in Seq(S)
    BY <2>1, <2>2, <1>1
  <2> QED
    BY <2>3, <1>0
<1>4. ASSUME NEW k \in 0..(n - 1), k \in G  PROVE k + 1 \in G
  <2>1. n - k \in 1..n /\ n - (k + 1) + 1 = n - k /\ k + 1 \in 0..n
    BY <1>0
  <2>2. \A i \in (n - k + 1)..(n + 1) : f[i] \in Seq(S)
    BY <1>4
  <2> DEFINE i == n - k
  <2>3. /\ length[i] \in Nat /\ i + 1 \in (n - k + 1)..(n + 1)
        /\ length[i] # 0 => i + length[i] \in (n - k + 1)..(n + 1)
    BY <2>1, <1>0, <1>2
  <2>4. <<text[i]>> \in Seq(S) /\ <<by>> \in Seq(S)
    BY <2>1, <1>0
  <2>5. /\ f[i + 1] \in Seq(S)
        /\ length[i] # 0 => f[i + length[i]] \in Seq(S)
    BY <2>2, <2>3
  <2>6. f[i] \in Seq(S)
    <3>1. f[i] = IF length[i] = 0 THEN <<text[i]>> \o f[i + 1] ELSE <<by>> \o f[i + length[i]]
      BY <2>1, <1>1
    <3> HIDE DEF i
    <3> QED
      BY <3>1, <2>4, <2>5, ConcatProperties
  <2>7. \A j \in (n - (k + 1) + 1)..(n + 1) : j = i \/ j \in (n - k + 1)..(n + 1)
    BY <2>1, <1>0
  <2> HIDE DEF i
  <2> QED
    BY <2>1, <2>2, <2>6, <2>7
<1>5. n \in G
  <2> HIDE DEF G
  <2>1. \A k \in 0..n : k \in G
    BY <1>0, <1>3, <1>4, UpTo
  <2> QED
    BY <2>1, <1>0
<1>6. n - n + 1 = 1
  BY <1>0
<1> QED
  BY <1>5, <1>6 DEF n

\* Where nothing matches, the text stays.
Unmatched(length, m) == \A i \in 1..m : length[i] = 0

LEMMA ScanPlain ==
  ASSUME NEW S, NEW text \in Seq(S), NEW length, Fits(text, length), NEW by \in S,
         NEW f, Scan(f, text, length, by, 1),
         NEW m \in 0..Len(text), Unmatched(length, m)
  PROVE  f[1] = SubSeq(text, 1, m) \o f[m + 1]
<1> DEFINE n == Len(text)
           P(i) == f[i] = SubSeq(text, i, m) \o f[m + 1]
           G == {k \in 0..m : P(m - k + 1)}
<1>0. n \in Nat /\ m \in 0..n /\ m \in Nat
  OBVIOUS
<1>1. \A i \in 1..n :
            f[i] = IF length[i] = 0 THEN <<text[i]>> \o f[i + 1] ELSE <<by>> \o f[i + length[i]]
  <2>1. Len(text) \in Nat /\ 1 \in 1..(Len(text) + 1)
    BY <1>0
  <2>2. ScanSteps(f, text, length, by, 1)
    BY <2>1, ScanStep
  <2> QED
    BY <2>2 DEF ScanSteps
<1>2. \A i \in 1..(n + 1) : f[i] \in Seq(S)
  BY ScanText
<1>3. 0 \in G
  <2>1. SubSeq(text, m + 1, m) = <<>>
    BY <1>0, SubSeqEmpty
  <2>2. f[m + 1] \in Seq(S)
    BY <1>0, <1>2
  <2>3. P(m + 1)
    BY <2>1, <2>2, ConcatEmptySeq
  <2>4. m - 0 + 1 = m + 1 /\ 0 \in 0..m
    BY <1>0
  <2> HIDE DEF P
  <2> QED
    BY <2>3, <2>4
<1>4. ASSUME NEW k \in 0..(m - 1), k \in G  PROVE k + 1 \in G
  <2> DEFINE i == m - k
  <2>1. /\ i \in 1..n /\ i \in 1..m /\ m - (k + 1) + 1 = i /\ m - k + 1 = i + 1 /\ k + 1 \in 0..m
        /\ m \in i..n /\ i + 1 \in 1..(n + 1) /\ m \in ((i + 1) - 1)..n /\ m + 1 \in 1..(n + 1)
    BY <1>0
  <2>2. P(i + 1)
    <3> HIDE DEF P
    <3> QED
      BY <1>4, <2>1
  <2> HIDE DEF i
  <2>3. f[i] = <<text[i]>> \o f[i + 1]
    BY <2>1, <1>1 DEF Unmatched
  <2>4. SubSeq(text, i, m) = <<text[i]>> \o SubSeq(text, i + 1, m)
    BY <2>1, SubSeqRecursiveFirst
  <2>5. SubSeq(text, i + 1, m) \in Seq(S) /\ f[m + 1] \in Seq(S) /\ <<text[i]>> \in Seq(S)
    <3>1. text[i] \in S
      BY <2>1, ElementOfSeq
    <3> QED
      BY <3>1, <2>1, <1>2, Slice
  <2>6. P(i)
    <3> DEFINE a == <<text[i]>>
               b == SubSeq(text, i + 1, m)
               d == f[m + 1]
    <3>1. a \in Seq(S) /\ b \in Seq(S) /\ d \in Seq(S)
      BY <2>5
    <3>2. f[i] = a \o (b \o d) /\ SubSeq(text, i, m) = a \o b
      BY <2>2, <2>3, <2>4
    <3>3. (a \o b) \o d = a \o (b \o d)
      <4> HIDE DEF a, b, d
      <4> QED
        BY <3>1, ConcatAssociative, SMTT(60)
    <3> QED
      BY <3>2, <3>3
  <2> HIDE DEF P
  <2> QED
    BY <2>1, <2>6
<1>5. m \in G
  <2> HIDE DEF G
  <2>1. \A k \in 0..m : k \in G
    BY <1>0, <1>3, <1>4, UpTo
  <2> QED
    BY <2>1, <1>0
<1>6. m - m + 1 = 1
  BY <1>0
<1>7. P(1)
  <2> HIDE DEF P
  <2> QED
    BY <1>5, <1>6
<1> QED
  BY <1>7

\* From a point on, only what follows counts.
Follows(text, length, c, tail, tailLength) ==
    /\ Len(text) = c + Len(tail)
    /\ \A i \in 1..Len(tail) : text[c + i] = tail[i] /\ length[c + i] = tailLength[i]

LEMMA ScanTail ==
  ASSUME NEW S, NEW text \in Seq(S), NEW length, Fits(text, length), NEW by,
         NEW f, Scan(f, text, length, by, 1),
         NEW tail \in Seq(S), NEW tailLength, Fits(tail, tailLength),
         NEW g, Scan(g, tail, tailLength, by, 1),
         NEW c \in Nat, Follows(text, length, c, tail, tailLength)
  PROVE  f[c + 1] = g[1]
<1> DEFINE n == Len(tail)
           G == {k \in 0..n : \A i \in (n - k + 1)..(n + 1) : f[c + i] = g[i]}
<1>0. n \in Nat /\ Len(text) \in Nat /\ c + n + 1 = Len(text) + 1
  BY DEF Follows
<1>1. /\ g[n + 1] = <<>>
      /\ \A i \in 1..n :
            g[i] = IF tailLength[i] = 0 THEN <<tail[i]>> \o g[i + 1] ELSE <<by>> \o g[i + tailLength[i]]
  <2>1. Len(tail) \in Nat /\ 1 \in 1..(Len(tail) + 1)
    OBVIOUS
  <2>2. ScanSteps(g, tail, tailLength, by, 1)
    BY <2>1, ScanStep
  <2> QED
    BY <2>2 DEF ScanSteps
<1>2. /\ f[Len(text) + 1] = <<>>
      /\ \A i \in 1..Len(text) :
            f[i] = IF length[i] = 0 THEN <<text[i]>> \o f[i + 1] ELSE <<by>> \o f[i + length[i]]
  <2>1. Len(text) \in Nat /\ 1 \in 1..(Len(text) + 1)
    OBVIOUS
  <2>2. ScanSteps(f, text, length, by, 1)
    BY <2>1, ScanStep
  <2> QED
    BY <2>2 DEF ScanSteps
<1>3. \A i \in 1..n : tailLength[i] \in Nat /\ i + tailLength[i] <= n + 1
  BY DEF Fits
<1>4. \A i \in 1..n : text[c + i] = tail[i] /\ length[c + i] = tailLength[i] /\ c + i \in 1..Len(text)
  BY DEF Follows
<1> HIDE DEF n
<1>5. 0 \in G
  <2>1. \A i \in (n - 0 + 1)..(n + 1) : i = n + 1 /\ c + i = Len(text) + 1
    BY <1>0
  <2>2. \A i \in (n - 0 + 1)..(n + 1) : f[c + i] = g[i]
    BY <2>1, <1>1, <1>2
  <2> QED
    BY <2>2, <1>0
<1>6. ASSUME NEW k \in 0..(n - 1), k \in G  PROVE k + 1 \in G
  <2>1. n - k \in 1..n /\ n - (k + 1) + 1 = n - k /\ k + 1 \in 0..n
    BY <1>0
  <2>2. \A i \in (n - k + 1)..(n + 1) : f[c + i] = g[i]
    BY <1>6
  <2> DEFINE i == n - k
  <2>3. /\ tailLength[i] \in Nat /\ i + 1 \in (n - k + 1)..(n + 1)
        /\ tailLength[i] # 0 => i + tailLength[i] \in (n - k + 1)..(n + 1)
    BY <2>1, <1>0, <1>3
  <2>4. /\ f[(c + i) + 1] = g[i + 1]
        /\ tailLength[i] # 0 => f[(c + i) + tailLength[i]] = g[i + tailLength[i]]
    <3>1. (c + i) + 1 = c + (i + 1) /\ (c + i) + tailLength[i] = c + (i + tailLength[i])
      BY <2>3, <1>0
    <3> HIDE DEF i
    <3> QED
      BY <3>1, <2>2, <2>3
  <2>5. f[c + i] = g[i]
    <3>1. g[i] = IF tailLength[i] = 0 THEN <<tail[i]>> \o g[i + 1] ELSE <<by>> \o g[i + tailLength[i]]
      BY <2>1, <1>1
    <3>2. /\ text[c + i] = tail[i] /\ length[c + i] = tailLength[i] /\ c + i \in 1..Len(text)
      BY <2>1, <1>4
    <3>3. f[c + i] = IF length[c + i] = 0 THEN <<text[c + i]>> \o f[(c + i) + 1]
                     ELSE <<by>> \o f[(c + i) + length[c + i]]
      BY <3>2, <1>2
    <3> HIDE DEF i
    <3> QED
      BY <3>1, <3>2, <3>3, <2>4
  <2>6. \A j \in (n - (k + 1) + 1)..(n + 1) : j = i \/ j \in (n - k + 1)..(n + 1)
    BY <2>1, <1>0
  <2> HIDE DEF i
  <2> QED
    BY <2>1, <2>2, <2>5, <2>6
<1>7. n \in G
  <2> HIDE DEF G
  <2>1. \A k \in 0..n : k \in G
    BY <1>0, <1>5, <1>6, UpTo
  <2> QED
    BY <2>1, <1>0
<1>8. 1 \in (n - n + 1)..(n + 1)
  BY <1>0
<1> QED
  BY <1>7, <1>8

-----------------------------------------------------------------------------
(***************************************************************************)
(* Placeholders in a text that quotes them: every Mark is that of a        *)
(* placeholder of the request.                                             *)
(***************************************************************************)

Symbols == STRING \cup {Bar, Mark, Redacted}
Plain == {w \in Seq(Symbols) : \A i \in 1..Len(w) : w[i] # Mark}
Quoted == PxKnown \cup Plain

LEMMA KnownShape ==
  ASSUME NEW p \in PxKnown
  PROVE  /\ p \in Seq(Symbols) /\ Len(p) \in Nat /\ Len(p) > 5
         /\ p[1] = Bar /\ p[2] = Bar /\ p[3] = Mark /\ p[Len(p) - 1] = Bar /\ p[Len(p)] = Bar
         /\ \A i \in 4..Len(p) : p[i] # Mark
         /\ \A i \in 4..(Len(p) - 2) : p[i] = Bar => p[i + 1] # Bar
<1>1. p \in Placeholders
  BY PxAssumption, RangeOfSeq DEF PxKnown
<1>2. /\ p \in Seq(Symbols) /\ Len(p) \in Nat /\ Len(p) > 5 /\ IsPrefix(Opening, p)
      /\ SubSeq(p, Len(p) - 1, Len(p)) = Closing
      /\ \A i \in 4..Len(p) : p[i] # Mark
      /\ \A i \in 4..(Len(p) - 2) : p[i] = Bar => p[i + 1] # Bar
  <2>1. STRING \subseteq Symbols
    BY DEF Symbols
  <2>2. Seq(STRING) \subseteq Seq(Symbols)
    BY <2>1, SeqMonotonic
  <2> QED
    BY <1>1, <2>2 DEF Placeholders
<1>3. p[1] = Bar /\ p[2] = Bar /\ p[3] = Mark
  <2> DEFINE a == SubSeq(p, 1, 3)
  <2>1. Len(Opening) = 3 /\ SubSeq(Opening, 1, 3) = Opening
    <3>1. Opening \in Seq({Bar, Mark}) /\ Len(Opening) = 3
      BY DEF Opening
    <3>2. SubSeq(Opening, 1, Len(Opening)) = Opening
      BY <3>1, SubSeqFull
    <3> QED
      BY <3>1, <3>2
  <2>2. a = Opening
    BY <1>2, <2>1 DEF IsPrefix
  <2>3. a[1] = p[1] /\ a[2] = p[2] /\ a[3] = p[3]
    BY <1>2, Slice
  <2> HIDE DEF a
  <2> QED
    BY <2>2, <2>3 DEF Opening
<1>4. p[Len(p) - 1] = Bar /\ p[Len(p)] = Bar
  <2> DEFINE a == SubSeq(p, Len(p) - 1, Len(p))
  <2>1. a[1] = p[Len(p) - 1] /\ a[2] = p[Len(p)]
    <3>1. Len(p) - 1 \in 1..(Len(p) + 1) /\ Len(p) \in ((Len(p) - 1) - 1)..Len(p)
      BY <1>2
    <3>2. \A i \in 1..(Len(p) - (Len(p) - 1) + 1) : a[i] = p[(Len(p) - 1) + i - 1]
      BY <3>1, <1>2, Slice
    <3> HIDE DEF a
    <3> QED
      BY <3>2, <1>2
  <2>2. a = Closing
    BY <1>2
  <2> HIDE DEF a
  <2> QED
    BY <2>1, <2>2 DEF Closing
<1> QED
  BY <1>2, <1>3, <1>4

LEMMA QuotedText == Quoted \subseteq Seq(Symbols) /\ Seq(Quoted) \subseteq Seq(Seq(Symbols))
<1>1. Quoted \subseteq Seq(Symbols)
  BY KnownShape DEF Quoted, Plain
<1> QED
  BY <1>1, SeqMonotonic

Match(text, i, w) ==
    i + Len(w) - 1 <= Len(text) /\ \A j \in 1..Len(w) : text[i + j - 1] = w[j]

LEMMA AtIs ==
  ASSUME NEW S, NEW text \in Seq(S), NEW w \in Seq(S), NEW i \in Nat \ {0}
  PROVE  At(text, i, w) <=> Match(text, i, w)
<1>1. Len(text) \in Nat /\ Len(w) \in Nat
  OBVIOUS
<1>2. CASE i + Len(w) - 1 > Len(text)
  BY <1>1, <1>2 DEF At, Match
<1>3. CASE i + Len(w) - 1 <= Len(text)
  <2> DEFINE a == SubSeq(text, i, i + Len(w) - 1)
  <2>1. i \in 1..(Len(text) + 1) /\ i + Len(w) - 1 \in (i - 1)..Len(text)
    BY <1>1, <1>3
  <2>2. a \in Seq(S) /\ Len(a) = Len(w) /\ \A j \in 1..Len(w) : a[j] = text[i + j - 1]
    <3>1. /\ a \in Seq(S) /\ Len(a) = (i + Len(w) - 1) - i + 1
          /\ \A j \in 1..((i + Len(w) - 1) - i + 1) : a[j] = text[i + j - 1]
      BY <2>1, Slice
    <3>2. (i + Len(w) - 1) - i + 1 = Len(w)
      BY <1>1
    <3> HIDE DEF a
    <3> QED
      BY <3>1, <3>2
  <2>3. At(text, i, w) <=> a = w
    BY <1>3 DEF At
  <2> HIDE DEF a
  <2>4. (\A j \in 1..Len(w) : a[j] = w[j]) => a = w
    BY <2>2, SeqEqual
  <2> QED
    BY <2>2, <2>3, <2>4, <1>3 DEF Match
<1> QED
  BY <1>1, <1>2, <1>3

\* A Mark is never among the first two symbols.
Early(text) == text \in Seq(Symbols) /\ \A i \in 1..Len(text) : i <= 2 => text[i] # Mark

LEMMA EarlyFirst ==
  ASSUME NEW w \in Quoted, NEW t, Early(t)
  PROVE  Early(w \o t)
<1>1. w \in Seq(Symbols) /\ t \in Seq(Symbols)
  BY QuotedText DEF Early
<1>2. /\ w \o t \in Seq(Symbols) /\ Len(w \o t) = Len(w) + Len(t) /\ Len(w) \in Nat /\ Len(t) \in Nat
      /\ \A i \in 1..Len(w) : (w \o t)[i] = w[i]
      /\ \A i \in 1..Len(t) : (w \o t)[Len(w) + i] = t[i]
  BY <1>1, Cat
<1>3. ASSUME NEW i \in 1..Len(w \o t), i <= 2  PROVE (w \o t)[i] # Mark
  <2>1. CASE i <= Len(w)
    <3>1. (w \o t)[i] = w[i] /\ i \in 1..Len(w)
      BY <2>1, <1>2
    <3>2. CASE w \in PxKnown
      <4>1. w[1] = Bar /\ w[2] = Bar /\ (i = 1 \/ i = 2)
        BY <3>2, <1>3, <1>2, KnownShape
      <4> QED
        BY <3>1, <4>1 DEF Bar, Mark
    <3>3. CASE w \in Plain
      BY <3>1, <3>3 DEF Plain
    <3> QED
      BY <3>2, <3>3 DEF Quoted
  <2>2. CASE i > Len(w)
    <3>1. i - Len(w) \in 1..Len(t) /\ i - Len(w) <= 2 /\ Len(w) + (i - Len(w)) = i
      BY <2>2, <1>2, <1>3
    <3>2. (w \o t)[i] = t[i - Len(w)]
      BY <3>1, <1>2
    <3> QED
      BY <3>1, <3>2 DEF Early
  <2> QED
    BY <2>1, <2>2, <1>2
<1> QED
  BY <1>2, <1>3 DEF Early

LEMMA FlatEarly == ASSUME NEW ws \in Seq(Quoted) PROVE Early(FlattenSeq(ws))
<1> DEFINE G == {v \in Seq(Quoted) : Early(FlattenSeq(v))}
<1>1. <<>> \in G
  <2>1. Early(<<>>)
    BY DEF Early
  <2> QED
    BY <2>1, FlatEmpty
<1>2. ASSUME NEW v \in Seq(Quoted), NEW w \in Quoted, v \in G  PROVE <<w>> \o v \in G
  <2>1. w \in Seq(Symbols) /\ v \in Seq(Seq(Symbols)) /\ <<w>> \in Seq(Quoted)
    BY QuotedText
  <2>2. FlattenSeq(<<w>> \o v) = w \o FlattenSeq(v)
    BY <2>1, FlatFirst
  <2>3. Early(FlattenSeq(<<w>> \o v))
    BY <2>2, <1>2, EarlyFirst
  <2>4. <<w>> \o v \in Seq(Quoted)
    BY <2>1, ConcatProperties
  <2> QED
    BY <2>3, <2>4
<1>3. Seq(Quoted) \subseteq G
  <2> HIDE DEF G
  <2> QED
    BY <1>1, <1>2, FrontInduction
<1> QED
  BY <1>3

\* A placeholder that begins inside a known one, in a text where no Mark comes right
\* after that: it begins where that begins, and is that.
LEMMA KnownInside ==
  ASSUME NEW p \in PxKnown, NEW q \in PxKnown, NEW t \in Seq(Symbols), Early(t),
         NEW i \in 1..Len(p), At(p \o t, i, q)
  PROVE  i = 1 /\ p = q
<1> DEFINE s == p \o t
           m == Len(p)
           n == Len(q)
<1>1. /\ s \in Seq(Symbols) /\ Len(s) = m + Len(t) /\ Len(t) \in Nat /\ m \in Nat
      /\ \A j \in 1..m : s[j] = p[j]
      /\ \A j \in 1..Len(t) : s[m + j] = t[j]
  <2>1. p \in Seq(Symbols)
    BY KnownShape
  <2> QED
    BY <2>1, Cat
<1>2. /\ m > 5 /\ p \in Seq(Symbols)
      /\ p[1] = Bar /\ p[2] = Bar /\ p[3] = Mark /\ p[m - 1] = Bar /\ p[m] = Bar
      /\ \A j \in 4..m : p[j] # Mark
      /\ \A j \in 4..(m - 2) : p[j] = Bar => p[j + 1] # Bar
  BY KnownShape
<1>3. /\ n \in Nat /\ n > 5 /\ q \in Seq(Symbols)
      /\ q[1] = Bar /\ q[2] = Bar /\ q[3] = Mark /\ q[n - 1] = Bar /\ q[n] = Bar
      /\ \A j \in 4..n : q[j] # Mark
      /\ \A j \in 4..(n - 2) : q[j] = Bar => q[j + 1] # Bar
  BY KnownShape
<1>4. i + n - 1 <= Len(s) /\ \A j \in 1..n : s[i + j - 1] = q[j]
  <2>1. i \in Nat \ {0}
    BY <1>1
  <2>2. At(s, i, q)
    OBVIOUS
  <2> HIDE DEF s
  <2>3. Match(s, i, q)
    BY <2>1, <2>2, <1>1, <1>3, AtIs
  <2> QED
    BY <2>3 DEF Match, n
<1>5. \A j \in 1..Len(t) : j <= 2 => s[m + j] # Mark
  BY <1>1 DEF Early
<1>6. Bar # Mark
  BY DEF Bar, Mark
<1> HIDE DEF s, m, n
<1>7. s[i] = Bar /\ s[i + 1] = Bar /\ s[i + 2] = Mark
  <2>1. 1 \in 1..n /\ 2 \in 1..n /\ 3 \in 1..n /\ i + 1 - 1 = i /\ i + 2 - 1 = i + 1 /\ i + 3 - 1 = i + 2
    BY <1>3, <1>1
  <2> QED
    BY <2>1, <1>3, <1>4
<1>8. i \in 1..m /\ i + 2 <= Len(s)
  BY <1>3, <1>4 DEF m
<1>9. i = 1
  <2>1. i # 2
    BY <1>1, <1>2, <1>6, <1>7
  <2>2. i # 3
    BY <1>1, <1>2, <1>6, <1>7
  <2>3. ~(i \in 4..(m - 2))
    BY <1>1, <1>2, <1>6, <1>7
  <2>4. i # m - 1
    <3>1. ASSUME i = m - 1  PROVE i + 2 = m + 1 /\ 1 \in 1..Len(t)
      BY <3>1, <1>1, <1>8
    <3> QED
      BY <3>1, <1>1, <1>5, <1>7
  <2>5. i # m
    <3>1. ASSUME i = m  PROVE i + 2 = m + 2 /\ 2 \in 1..Len(t)
      BY <3>1, <1>1, <1>8
    <3> QED
      BY <3>1, <1>1, <1>5, <1>7
  <2> QED
    BY <2>1, <2>2, <2>3, <2>4, <2>5, <1>1, <1>2, <1>8
<1>10. \A j \in 1..n : s[j] = q[j]
  BY <1>4, <1>9
<1>11. ~(m < n)
  <2> SUFFICES ASSUME m < n  PROVE FALSE
    OBVIOUS
  <2>1. q[m - 1] = Bar /\ q[m] = Bar
    <3>1. m - 1 \in 1..n /\ m \in 1..n /\ m - 1 \in 1..m /\ m \in 1..m
      BY <1>1, <1>2, <1>3
    <3> QED
      BY <3>1, <1>1, <1>2, <1>10
  <2>2. m - 1 \in 4..(n - 2) /\ (m - 1) + 1 = m
    BY <1>1, <1>2, <1>3
  <2> QED
    BY <2>1, <2>2, <1>3
<1>12. ~(n < m)
  <2> SUFFICES ASSUME n < m  PROVE FALSE
    OBVIOUS
  <2>1. p[n - 1] = Bar /\ p[n] = Bar
    <3>1. n - 1 \in 1..n /\ n \in 1..n /\ n - 1 \in 1..m /\ n \in 1..m
      BY <1>1, <1>2, <1>3
    <3> QED
      BY <3>1, <1>1, <1>3, <1>10
  <2>2. n - 1 \in 4..(m - 2) /\ (n - 1) + 1 = n
    BY <1>1, <1>2, <1>3
  <2> QED
    BY <2>1, <2>2, <1>2
<1>13. m = n
  BY <1>1, <1>3, <1>11, <1>12
<1>14. \A j \in 1..m : p[j] = q[j]
  BY <1>1, <1>10, <1>13
<1>15. p = q
  BY <1>2, <1>3, <1>13, <1>14, SeqEqual DEF m, n
<1> QED
  BY <1>9, <1>15

\* None begins inside a word that is not that placeholder.
LEMMA NoneInside ==
  ASSUME NEW u \in Quoted, NEW q \in PxKnown, u # q, NEW t \in Seq(Symbols), Early(t)
  PROVE  \A i \in 1..Len(u) : ~At(u \o t, i, q)
<1> SUFFICES ASSUME NEW i \in 1..Len(u), At(u \o t, i, q)  PROVE FALSE
  OBVIOUS
<1>1. u \notin PxKnown
  BY KnownInside
<1>2. u \in Plain /\ u \in Seq(Symbols)
  BY <1>1, QuotedText DEF Quoted
<1> DEFINE s == u \o t
<1>3. /\ s \in Seq(Symbols) /\ Len(s) = Len(u) + Len(t) /\ Len(t) \in Nat /\ Len(u) \in Nat
      /\ \A j \in 1..Len(u) : s[j] = u[j]
      /\ \A j \in 1..Len(t) : s[Len(u) + j] = t[j]
  BY <1>2, Cat
<1>4. q \in Seq(Symbols) /\ Len(q) \in Nat /\ Len(q) > 5 /\ q[3] = Mark
  BY KnownShape
<1>5. i + Len(q) - 1 <= Len(s) /\ \A j \in 1..Len(q) : s[i + j - 1] = q[j]
  <2>1. i \in Nat \ {0} /\ At(s, i, q)
    BY <1>3
  <2> HIDE DEF s
  <2>2. Match(s, i, q)
    BY <2>1, <1>3, <1>4, AtIs
  <2> QED
    BY <2>2 DEF Match
<1> HIDE DEF s
<1>6. s[i + 2] = Mark /\ i + 2 <= Len(s)
  <2>1. 3 \in 1..Len(q) /\ i + 3 - 1 = i + 2
    BY <1>3, <1>4
  <2> QED
    BY <2>1, <1>3, <1>4, <1>5
<1>7. CASE i + 2 <= Len(u)
  <2>1. i + 2 \in 1..Len(u) /\ s[i + 2] = u[i + 2]
    BY <1>3, <1>7
  <2> QED
    BY <2>1, <1>2, <1>6 DEF Plain
<1>8. CASE i + 2 > Len(u)
  <2> DEFINE k == i + 2 - Len(u)
  <2>1. k \in 1..Len(t) /\ k <= 2 /\ Len(u) + k = i + 2
    BY <1>3, <1>6, <1>8
  <2> QED
    BY <2>1, <1>3, <1>6 DEF Early
<1> QED
  BY <1>3, <1>7, <1>8

-----------------------------------------------------------------------------
(***************************************************************************)
(* Replacing one placeholder replaces the words that are it.               *)
(***************************************************************************)

Lengths(text, w) == [i \in DOMAIN text |-> IF At(text, i, w) THEN Len(w) ELSE 0]

LEMMA LengthsFit ==
  ASSUME NEW S, NEW text \in Seq(S), NEW w \in Seq(S)
  PROVE  /\ Fits(text, Lengths(text, w))
         /\ \A i \in 1..Len(text) : Lengths(text, w)[i] = IF At(text, i, w) THEN Len(w) ELSE 0
<1>1. DOMAIN text = 1..Len(text) /\ Len(text) \in Nat /\ Len(w) \in Nat
  OBVIOUS
<1>2. \A i \in 1..Len(text) : Lengths(text, w)[i] = IF At(text, i, w) THEN Len(w) ELSE 0
  BY <1>1 DEF Lengths
<1>3. \A i \in 1..Len(text) : At(text, i, w) => i + Len(w) <= Len(text) + 1
  BY <1>1 DEF At
<1>4. ASSUME NEW i \in 1..Len(text)
      PROVE  Lengths(text, w)[i] \in Nat /\ i + Lengths(text, w)[i] <= Len(text) + 1
  <2>1. CASE At(text, i, w)
    BY <2>1, <1>1, <1>2, <1>3
  <2>2. CASE ~At(text, i, w)
    BY <2>2, <1>1, <1>2
  <2> QED
    BY <2>1, <2>2
<1> QED
  BY <1>2, <1>4 DEF Fits

WordScan(f, text, w, by) ==
    Scan(f, text, Lengths(text, w), by, 1) /\ WordReplaced(text, w, by) = f[1]

LEMMA WordScanned ==
  ASSUME NEW S, NEW text \in Seq(S), NEW w \in Seq(S), NEW by \in S
  PROVE  (\E f : WordScan(f, text, w, by)) /\ WordReplaced(text, w, by) \in Seq(S)
<1>1. Len(text) \in Nat /\ 1 \in 1..(Len(text) + 1) /\ Fits(text, Lengths(text, w))
  BY LengthsFit
<1>2. PICK f : Scan(f, text, Lengths(text, w), by, 1) /\ Replaced(text, Lengths(text, w), by) = f[1]
  BY <1>1, ReplacedScan
<1>3. WordReplaced(text, w, by) = Replaced(text, Lengths(text, w), by)
  BY DEF WordReplaced, Lengths
<1>4. f[1] \in Seq(S)
  <2>1. \A i \in 1..(Len(text) + 1) : f[i] \in Seq(S)
    BY <1>1, <1>2, ScanText
  <2> QED
    BY <1>1, <2>1
<1>5. WordScan(f, text, w, by)
  BY <1>2, <1>3 DEF WordScan
<1> QED
  BY <1>2, <1>3, <1>4, <1>5

\* What follows a word is replaced as it is by itself.
LEMMA WordTail ==
  ASSUME NEW S, NEW u \in Seq(S), NEW t \in Seq(S), NEW w \in Seq(S), NEW by \in S,
         NEW f, WordScan(f, u \o t, w, by)
  PROVE  f[Len(u) + 1] = WordReplaced(t, w, by)
<1> DEFINE s == u \o t
<1>1. /\ s \in Seq(S) /\ Len(s) = Len(u) + Len(t) /\ Len(u) \in Nat /\ Len(t) \in Nat /\ Len(w) \in Nat
      /\ \A i \in 1..Len(t) : s[Len(u) + i] = t[i]
  BY Cat
<1>2. PICK g : WordScan(g, t, w, by)
  BY WordScanned
<1>3. Scan(f, s, Lengths(s, w), by, 1) /\ Scan(g, t, Lengths(t, w), by, 1) /\ WordReplaced(t, w, by) = g[1]
  BY <1>2 DEF WordScan
<1> HIDE DEF s
<1>4. Fits(s, Lengths(s, w)) /\ Fits(t, Lengths(t, w))
  BY <1>1, LengthsFit
<1>5. ASSUME NEW i \in 1..Len(t)  PROVE Lengths(s, w)[Len(u) + i] = Lengths(t, w)[i]
  <2>1. Len(u) + i \in 1..Len(s) /\ Len(u) + i \in Nat \ {0} /\ i \in Nat \ {0}
    BY <1>1
  <2>2. At(s, Len(u) + i, w) <=> At(t, i, w)
    <3>1. At(t, i, w) <=> Match(t, i, w)
      BY <2>1, AtIs
    <3>2. At(s, Len(u) + i, w) <=> Match(s, Len(u) + i, w)
      BY <2>1, <1>1, AtIs
    <3>3. ASSUME i + Len(w) - 1 <= Len(t), NEW j \in 1..Len(w)
          PROVE  s[(Len(u) + i) + j - 1] = t[i + j - 1]
      <4>1. i + j - 1 \in 1..Len(t) /\ Len(u) + (i + j - 1) = (Len(u) + i) + j - 1
        BY <3>3, <1>1
      <4> QED
        BY <4>1, <1>1
    <3>4. (Len(u) + i) + Len(w) - 1 <= Len(s) <=> i + Len(w) - 1 <= Len(t)
      BY <1>1
    <3> QED
      BY <3>1, <3>2, <3>3, <3>4 DEF Match
  <2>3. /\ Lengths(s, w)[Len(u) + i] = IF At(s, Len(u) + i, w) THEN Len(w) ELSE 0
        /\ Lengths(t, w)[i] = IF At(t, i, w) THEN Len(w) ELSE 0
    BY <2>1, <1>1, LengthsFit
  <2> QED
    BY <2>2, <2>3
<1>6. Follows(s, Lengths(s, w), Len(u), t, Lengths(t, w))
  BY <1>1, <1>5 DEF Follows
<1>7. f[Len(u) + 1] = g[1]
  BY <1>1, <1>3, <1>4, <1>6, ScanTail
<1> QED
  BY <1>3, <1>7

LEMMA WordFirst ==
  ASSUME NEW q \in PxKnown, NEW t \in Seq(Symbols), NEW by \in Symbols
  PROVE  WordReplaced(q \o t, q, by) = <<by>> \o WordReplaced(t, q, by)
<1> DEFINE s == q \o t
<1>1. q \in Seq(Symbols) /\ Len(q) \in Nat /\ Len(q) > 5
  BY KnownShape
<1>2. /\ s \in Seq(Symbols) /\ Len(s) = Len(q) + Len(t) /\ Len(t) \in Nat
      /\ \A i \in 1..Len(q) : s[i] = q[i]
  BY <1>1, Cat
<1> HIDE DEF s
<1>0. PICK f : WordScan(f, s, q, by)
  BY <1>1, <1>2, WordScanned
<1>3. Scan(f, s, Lengths(s, q), by, 1) /\ WordReplaced(s, q, by) = f[1]
  BY <1>0 DEF WordScan
<1>4. f[Len(q) + 1] = WordReplaced(t, q, by)
  <2>1. WordScan(f, q \o t, q, by)
    BY <1>0 DEF s
  <2> QED
    BY <1>1, <2>1, WordTail
<1>5. 1 \in 1..Len(s) /\ 1 \in 1..(Len(s) + 1) /\ 1 \in Nat \ {0} /\ Len(s) \in Nat
  BY <1>1, <1>2
<1>6. At(s, 1, q)
  <2>1. Match(s, 1, q)
    BY <1>1, <1>2 DEF Match
  <2> QED
    BY <2>1, <1>1, <1>2, <1>5, AtIs
<1>7. Lengths(s, q)[1] = Len(q)
  BY <1>1, <1>2, <1>5, <1>6, LengthsFit
<1>8. ScanSteps(f, s, Lengths(s, q), by, 1)
  BY <1>3, <1>5, ScanStep
<1>9. f[1] = <<by>> \o f[1 + Len(q)]
  <2>1. f[1] = IF Lengths(s, q)[1] = 0 THEN <<s[1]>> \o f[1 + 1] ELSE <<by>> \o f[1 + Lengths(s, q)[1]]
    BY <1>5, <1>8 DEF ScanSteps
  <2> QED
    BY <2>1, <1>1, <1>7
<1>10. 1 + Len(q) = Len(q) + 1
  BY <1>1
<1> QED
  BY <1>3, <1>4, <1>9, <1>10 DEF s

LEMMA WordOther ==
  ASSUME NEW u \in Quoted, NEW q \in PxKnown, u # q, NEW t, Early(t), NEW by \in Symbols
  PROVE  WordReplaced(u \o t, q, by) = u \o WordReplaced(t, q, by)
<1> DEFINE s == u \o t
<1>1. q \in Seq(Symbols) /\ u \in Seq(Symbols) /\ t \in Seq(Symbols)
  BY KnownShape, QuotedText DEF Early
<1>2. /\ s \in Seq(Symbols) /\ Len(s) = Len(u) + Len(t) /\ Len(t) \in Nat /\ Len(u) \in Nat
      /\ SubSeq(s, 1, Len(u)) = u
  BY <1>1, Cat, CatSlices
<1>3. \A i \in 1..Len(u) : ~At(s, i, q)
  BY <1>1, NoneInside
<1> HIDE DEF s
<1>0. PICK f : WordScan(f, s, q, by)
  BY <1>1, <1>2, WordScanned
<1>4. Scan(f, s, Lengths(s, q), by, 1) /\ WordReplaced(s, q, by) = f[1]
  BY <1>0 DEF WordScan
<1>5. f[Len(u) + 1] = WordReplaced(t, q, by)
  <2>1. WordScan(f, u \o t, q, by)
    BY <1>0 DEF s
  <2> QED
    BY <1>1, <2>1, WordTail
<1>6. Len(u) \in 0..Len(s) /\ \A i \in 1..Len(u) : i \in 1..Len(s)
  BY <1>2
<1>7. Unmatched(Lengths(s, q), Len(u))
  BY <1>1, <1>2, <1>3, <1>6, LengthsFit DEF Unmatched
<1>8. Fits(s, Lengths(s, q))
  BY <1>1, <1>2, LengthsFit
<1>9. f[1] = SubSeq(s, 1, Len(u)) \o f[Len(u) + 1]
  <2>1. s \in Seq(Symbols) /\ Len(u) \in 0..Len(s) /\ Scan(f, s, Lengths(s, q), by, 1)
    BY <1>2, <1>4, <1>6
  <2> QED
    BY <2>1, <1>7, <1>8, ScanPlain, Zenon
<1> QED
  BY <1>2, <1>4, <1>5, <1>9 DEF s

LEMMA WordEmpty ==
  ASSUME NEW q \in PxKnown, NEW by \in Symbols
  PROVE  WordReplaced(<<>>, q, by) = <<>>
<1>1. q \in Seq(Symbols) /\ <<>> \in Seq(Symbols) /\ Len(<<>>) = 0 /\ 1 \in 1..(Len(<<>>) + 1)
  BY KnownShape
<1>0. PICK f : WordScan(f, <<>>, q, by)
  BY <1>1, WordScanned
<1>2. Scan(f, <<>>, Lengths(<<>>, q), by, 1) /\ WordReplaced(<<>>, q, by) = f[1]
  BY <1>0 DEF WordScan
<1>3. ScanSteps(f, <<>>, Lengths(<<>>, q), by, 1)
  BY <1>1, <1>2, ScanStep
<1> QED
  <2>1. f[Len(<<>>) + 1] = <<>>
    BY <1>3 DEF ScanSteps
  <2> QED
    BY <2>1, <1>2

Swap(u, q, by) == IF u = q THEN <<by>> ELSE u
Swapped(ws, q, by) == [i \in 1..Len(ws) |-> Swap(ws[i], q, by)]

LEMMA SwapQuoted ==
  ASSUME NEW u \in Quoted, NEW q, NEW by \in Symbols \ {Mark}
  PROVE  Swap(u, q, by) \in Quoted
<1>1. <<by>> \in Plain
  <2>1. <<by>> \in Seq(Symbols) /\ Len(<<by>>) = 1 /\ <<by>>[1] = by
    OBVIOUS
  <2> QED
    BY <2>1 DEF Plain
<1> QED
  BY <1>1 DEF Swap, Quoted

LEMMA SwappedFirst ==
  ASSUME NEW W, NEW u \in W, NEW ws \in Seq(W), NEW q, NEW by
  PROVE  Swapped(<<u>> \o ws, q, by) = <<Swap(u, q, by)>> \o Swapped(ws, q, by)
<1> DEFINE V == {Swap(v, q, by) : v \in W}
           vs == <<u>> \o ws
           n == Len(ws)
<1>1. <<u>> \in Seq(W) /\ Len(<<u>>) = 1 /\ <<u>>[1] = u
  OBVIOUS
<1>2. /\ vs \in Seq(W) /\ Len(vs) = 1 + n /\ n \in Nat
      /\ vs[1] = u /\ \A i \in 1..n : vs[1 + i] = ws[i]
  <2>1. /\ vs \in Seq(W) /\ Len(vs) = Len(<<u>>) + n /\ n \in Nat
        /\ \A i \in 1..Len(<<u>>) : vs[i] = <<u>>[i]
        /\ \A i \in 1..n : vs[Len(<<u>>) + i] = ws[i]
    BY <1>1, Cat
  <2> HIDE DEF vs, n
  <2> QED
    BY <2>1, <1>1
<1> HIDE DEF vs
<1>3. Swapped(ws, q, by) \in Seq(V) /\ Len(Swapped(ws, q, by)) = n
  <2>1. \A i \in 1..Len(ws) : ws[i] \in W
    BY ElementOfSeq
  <2> QED
    BY <2>1, <1>2 DEF Swapped
<1>4. Swapped(vs, q, by) \in Seq(V) /\ Len(Swapped(vs, q, by)) = 1 + n
  <2>1. \A i \in 1..Len(vs) : vs[i] \in W
    BY <1>2, ElementOfSeq
  <2> QED
    BY <2>1, <1>2 DEF Swapped
<1>5. <<Swap(u, q, by)>> \in Seq(V) /\ Len(<<Swap(u, q, by)>>) = 1 /\ <<Swap(u, q, by)>>[1] = Swap(u, q, by)
  OBVIOUS
<1> DEFINE r == <<Swap(u, q, by)>> \o Swapped(ws, q, by)
<1>6. /\ r \in Seq(V) /\ Len(r) = 1 + n
      /\ r[1] = Swap(u, q, by) /\ \A i \in 1..n : r[1 + i] = Swapped(ws, q, by)[i]
  <2> DEFINE a == <<Swap(u, q, by)>>
             b == Swapped(ws, q, by)
  <2>1. a \in Seq(V) /\ b \in Seq(V) /\ Len(a) = 1 /\ Len(b) = n
    BY <1>3, <1>5
  <2> HIDE DEF a, b, V
  <2>2. /\ a \o b \in Seq(V) /\ Len(a \o b) = Len(a) + Len(b)
        /\ \A i \in 1..Len(a) : (a \o b)[i] = a[i]
        /\ \A i \in 1..Len(b) : (a \o b)[Len(a) + i] = b[i]
    BY <2>1, Cat
  <2> HIDE DEF n
  <2>3. (a \o b)[1] = a[1] /\ \A i \in 1..n : (a \o b)[1 + i] = b[i]
    BY <2>1, <2>2
  <2> QED
    BY <2>1, <2>2, <2>3, <1>5 DEF a, b
<1> HIDE DEF r, V, n
<1>7. ASSUME NEW i \in 1..(1 + n)  PROVE Swapped(vs, q, by)[i] = r[i]
  <2>1. Swapped(vs, q, by)[i] = Swap(vs[i], q, by)
    BY <1>2 DEF Swapped
  <2>2. CASE i = 1
    BY <2>1, <2>2, <1>2, <1>6
  <2>3. CASE i # 1
    <3>1. i - 1 \in 1..n /\ 1 + (i - 1) = i
      BY <2>3, <1>2
    <3>2. vs[i] = ws[i - 1] /\ r[i] = Swapped(ws, q, by)[i - 1]
      BY <3>1, <1>2, <1>6
    <3>3. Swapped(ws, q, by)[i - 1] = Swap(ws[i - 1], q, by)
      BY <3>1 DEF Swapped, n
    <3> QED
      BY <2>1, <3>2, <3>3
  <2> QED
    BY <2>2, <2>3
<1>8. Swapped(vs, q, by) = r
  BY <1>4, <1>6, <1>7, SeqEqual
<1> QED
  BY <1>8 DEF vs, r

LEMMA WordsReplaced ==
  ASSUME NEW ws \in Seq(Quoted), NEW q \in PxKnown, NEW by \in Symbols \ {Mark}
  PROVE  WordReplaced(FlattenSeq(ws), q, by) = FlattenSeq(Swapped(ws, q, by))
<1> DEFINE P(v) == WordReplaced(FlattenSeq(v), q, by) = FlattenSeq(Swapped(v, q, by))
           G == {v \in Seq(Quoted) : P(v)}
<1>1. <<>> \in G
  <2>1. Swapped(<<>>, q, by) = <<>>
    BY DEF Swapped
  <2>2. P(<<>>)
    BY <2>1, FlatEmpty, WordEmpty
  <2> HIDE DEF P
  <2> QED
    BY <2>2
<1>2. ASSUME NEW v \in Seq(Quoted), NEW u \in Quoted, v \in G  PROVE <<u>> \o v \in G
  <2> DEFINE t == FlattenSeq(v)
             x == Swap(u, q, by)
             y == Swapped(v, q, by)
  <2>1. u \in Seq(Symbols) /\ v \in Seq(Seq(Symbols)) /\ Early(t) /\ t \in Seq(Symbols)
    BY QuotedText, FlatEarly DEF Early
  <2>2. FlattenSeq(<<u>> \o v) = u \o t
    BY <2>1, FlatFirst
  <2>3. x \in Seq(Symbols) /\ y \in Seq(Seq(Symbols))
    <3>1. \A i \in 1..Len(v) : v[i] \in Quoted
      BY ElementOfSeq
    <3>2. \A i \in 1..Len(v) : Swap(v[i], q, by) \in Quoted
      BY <3>1, SwapQuoted
    <3>3. y \in Seq(Quoted)
      <4>1. Len(v) \in Nat
        OBVIOUS
      <4>2. [i \in 1..Len(v) |-> Swap(v[i], q, by)] \in Seq(Quoted)
        BY <3>2, <4>1
      <4> QED
        BY <4>2 DEF Swapped
    <3> QED
      BY <3>3, SwapQuoted, QuotedText
  <2>4. Swapped(<<u>> \o v, q, by) = <<x>> \o y
    BY SwappedFirst
  <2>5. FlattenSeq(<<x>> \o y) = x \o FlattenSeq(y)
    <3> HIDE DEF x, y
    <3> QED
      BY <2>3, FlatFirst
  <2>6. WordReplaced(t, q, by) = FlattenSeq(y)
    BY <1>2
  <2>7. WordReplaced(u \o t, q, by) = x \o WordReplaced(t, q, by)
    <3>1. CASE u = q
      BY <3>1, <2>1, WordFirst DEF Swap
    <3>2. CASE u # q
      <4> HIDE DEF t
      <4>1. WordReplaced(u \o t, q, by) = u \o WordReplaced(t, q, by)
        BY <3>2, <2>1, WordOther
      <4> QED
        BY <4>1, <3>2 DEF Swap
    <3> QED
      BY <3>1, <3>2
  <2>8. P(<<u>> \o v)
    BY <2>2, <2>4, <2>5, <2>6, <2>7
  <2>9. <<u>> \o v \in Seq(Quoted)
    <3>1. <<u>> \in Seq(Quoted)
      OBVIOUS
    <3> QED
      BY <3>1, ConcatProperties
  <2> HIDE DEF P
  <2> QED
    BY <2>8, <2>9
<1>3. Seq(Quoted) \subseteq G
  <2> HIDE DEF G
  <2> QED
    BY <1>1, <1>2, FrontInduction
<1> QED
  BY <1>3

-----------------------------------------------------------------------------
(***************************************************************************)
(* What is made of a text that quotes placeholders: its words, with names  *)
(* for the placeholders.                                                   *)
(***************************************************************************)

NameKept(f, text, n) ==
    f = [k \in 0..n |-> IF k = 0 THEN text
                        ELSE WordReplaced(f[k - 1], PxOrder[k], PxName[PxOrder[k]])]

LEMMA NameKeptOne ==
  ASSUME NEW text, NEW n \in Nat, NEW f, NameKept(f, text, n)
  PROVE  \E g : NameKept(g, text, n + 1)
<1> DEFINE R(k, t) == WordReplaced(t, PxOrder[k], PxName[PxOrder[k]])
           g == [k \in 0..(n + 1) |-> IF k = n + 1 THEN R(n + 1, f[n]) ELSE f[k]]
<1>1. \A k \in 0..n : f[k] = IF k = 0 THEN text ELSE R(k, f[k - 1])
  BY DEF NameKept
<1>2. g[n + 1] = R(n + 1, f[n]) /\ \A k \in 0..n : g[k] = f[k]
  OBVIOUS
<1>3. g = [k \in 0..(n + 1) |-> g[k]]
  OBVIOUS
<1> HIDE DEF g, R
<1>4. ASSUME NEW k \in 0..(n + 1)  PROVE g[k] = IF k = 0 THEN text ELSE R(k, g[k - 1])
  <2>1. CASE k = n + 1
    <3>1. k # 0 /\ k - 1 = n /\ n \in 0..n
      BY <2>1
    <3> QED
      BY <2>1, <3>1, <1>2
  <2>2. CASE k # n + 1
    <3>1. k \in 0..n /\ (k # 0 => k - 1 \in 0..n)
      BY <2>2
    <3> QED
      BY <3>1, <1>1, <1>2
  <2> QED
    BY <2>1, <2>2
<1>5. NameKept(g, text, n + 1)
  BY <1>3, <1>4 DEF NameKept, R
<1> QED
  BY <1>5

LEMMA NameKeptExists ==
  ASSUME NEW text, NEW n \in Nat
  PROVE  \E f : NameKept(f, text, n)
<1> DEFINE G == {k \in Nat : \E f : NameKept(f, text, k)}
<1>1. 0 \in G
  <2> DEFINE g == [k \in 0..0 |-> text]
  <2>1. NameKept(g, text, 0)
    BY DEF NameKept
  <2> QED
    BY <2>1
<1>2. \A k \in 0..(n - 1) : k \in G => k + 1 \in G
  BY NameKeptOne
<1>3. n \in G
  <2> HIDE DEF G
  <2>1. \A k \in 0..n : k \in G
    BY <1>1, <1>2, UpTo
  <2> QED
    BY <2>1
<1> QED
  BY <1>3

Passes == Len(PxOrder)

LEMMA OrderKnown ==
  /\ Passes \in Nat /\ Passes > 0
  /\ \A k \in 1..Passes : PxOrder[k] \in PxKnown
  /\ \A p \in PxKnown : \E k \in 1..Passes : p = PxOrder[k]
<1>1. PxOrder \in Seq(Placeholders) /\ PxOrder # <<>>
  BY PxAssumption
<1>2. DOMAIN PxOrder = 1..Passes /\ Passes \in Nat /\ Passes # 0
  BY <1>1, EmptySeq DEF Passes
<1> QED
  BY <1>2 DEF PxKnown, Range

LEMMA NamedStep ==
  ASSUME NEW text
  PROVE  /\ Named(text)[0] = text
         /\ \A k \in 1..Passes :
               Named(text)[k] = WordReplaced(Named(text)[k - 1], PxOrder[k], PxName[PxOrder[k]])
<1>0. Passes \in Nat
  BY OrderKnown
<1>1. \E f : NameKept(f, text, Passes)
  BY <1>0, NameKeptExists
<1>2. NameKept(Named(text), text, Passes)
  BY <1>1 DEF Named, NameKept, Passes
<1> DEFINE f == Named(text)
<1> HIDE DEF f
<1>3. NameKept(f, text, Passes)
  BY <1>2 DEF f
<1>4. \A k \in 0..Passes : f[k] = IF k = 0 THEN text
                        ELSE WordReplaced(f[k - 1], PxOrder[k], PxName[PxOrder[k]])
  BY <1>3 DEF NameKept
<1>5. f[0] = text
  BY <1>0, <1>4
<1>6. ASSUME NEW k \in 1..Passes
      PROVE  f[k] = WordReplaced(f[k - 1], PxOrder[k], PxName[PxOrder[k]])
  <2>1. k \in 0..Passes /\ k # 0
    BY <1>0
  <2> QED
    BY <2>1, <1>4
<1> QED
  BY <1>5, <1>6 DEF f

LEMMA NameSymbol ==
  ASSUME NEW p \in PxKnown
  PROVE  PxName[p] \in Symbols \ {Mark}
  BY PxAssumption DEF Symbols

\* The words after k passes, and after all.
Put(w, k) == IF \E j \in 1..k : w = PxOrder[j] THEN <<PxName[w]>> ELSE w
Putting(ws, k) == [i \in 1..Len(ws) |-> Put(ws[i], k)]

LEMMA PutQuoted ==
  ASSUME NEW w \in Quoted, NEW k \in 0..Passes
  PROVE  Put(w, k) \in Quoted
<1>1. CASE \E j \in 1..k : w = PxOrder[j]
  <2>1. w \in PxKnown
    BY <1>1, OrderKnown
  <2>2. PxName[w] \in Symbols /\ PxName[w] # Mark
    BY <2>1, NameSymbol
  <2>3. <<PxName[w]>> \in Seq(Symbols) /\ Len(<<PxName[w]>>) = 1 /\ <<PxName[w]>>[1] = PxName[w]
    BY <2>2
  <2>4. <<PxName[w]>> \in Plain
    BY <2>2, <2>3 DEF Plain
  <2> QED
    BY <1>1, <2>4 DEF Put, Quoted
<1>2. CASE ~ \E j \in 1..k : w = PxOrder[j]
  BY <1>2 DEF Put
<1> QED
  BY <1>1, <1>2

LEMMA PuttingQuoted ==
  ASSUME NEW ws \in Seq(Quoted), NEW k \in 0..Passes
  PROVE  Putting(ws, k) \in Seq(Quoted) /\ Len(Putting(ws, k)) = Len(ws)
<1>1. Len(ws) \in Nat /\ \A i \in 1..Len(ws) : ws[i] \in Quoted
  BY ElementOfSeq
<1>2. \A i \in 1..Len(ws) : Put(ws[i], k) \in Quoted
  BY <1>1, PutQuoted
<1>3. [i \in 1..Len(ws) |-> Put(ws[i], k)] \in Seq(Quoted)
  BY <1>1, <1>2
<1>4. Len([i \in 1..Len(ws) |-> Put(ws[i], k)]) = Len(ws)
  BY <1>1
<1> QED
  BY <1>3, <1>4 DEF Putting

LEMMA NotOne == ASSUME NEW x, NEW y, Len(y) \in Nat, Len(y) > 5 PROVE <<x>> # y
<1> SUFFICES ASSUME <<x>> = y  PROVE FALSE
  OBVIOUS
<1>1. Len(<<x>>) = 1
  OBVIOUS
<1>2. Len(y) = 1
  BY <1>1
<1> QED
  BY <1>2

\* A pass puts the name of its placeholder.
LEMMA PutNext ==
  ASSUME NEW w \in Quoted, NEW k \in 1..Passes
  PROVE  Swap(Put(w, k - 1), PxOrder[k], PxName[PxOrder[k]]) = Put(w, k)
<1> DEFINE q == PxOrder[k]
<1>0. q \in PxKnown /\ Len(q) > 5 /\ Len(q) \in Nat
  BY OrderKnown, KnownShape
<1>1. \A j \in 1..k : j = k \/ j \in 1..(k - 1)
  BY OrderKnown
<1>2. \A j \in 1..(k - 1) : j \in 1..k
  BY OrderKnown
<1>3. k \in 1..k
  BY OrderKnown
<1>4. CASE \E j \in 1..(k - 1) : w = PxOrder[j]
  <2>1. Put(w, k - 1) = <<PxName[w]>> /\ Put(w, k) = <<PxName[w]>>
    BY <1>4, <1>2 DEF Put
  <2>2. <<PxName[w]>> # q
    <3> DEFINE x == PxName[w]
    <3> HIDE DEF q, x
    <3>1. <<x>> # q
      BY <1>0, NotOne, Zenon
    <3> QED
      BY <3>1 DEF x
  <2> HIDE DEF q
  <2> QED
    BY <2>1, <2>2 DEF Swap, q
<1>5. CASE ~ \E j \in 1..(k - 1) : w = PxOrder[j]
  <2>1. Put(w, k - 1) = w
    BY <1>5 DEF Put
  <2>2. CASE w = q
    <3>1. Put(w, k) = <<PxName[q]>>
      BY <2>2, <1>3 DEF Put
    <3> QED
      BY <2>1, <2>2, <3>1 DEF Swap
  <2>3. CASE w # q
    <3>1. Put(w, k) = w
      BY <2>3, <1>1, <1>5 DEF Put
    <3> QED
      BY <2>1, <2>3, <3>1 DEF Swap
  <2> QED
    BY <2>2, <2>3
<1> QED
  BY <1>4, <1>5

LEMMA NamedFlat ==
  ASSUME NEW ws \in Seq(Quoted)
  PROVE  \A k \in 0..Passes : Named(FlattenSeq(ws))[k] = FlattenSeq(Putting(ws, k))
<1> DEFINE t == FlattenSeq(ws)
           P(k) == Named(t)[k] = FlattenSeq(Putting(ws, k))
           G == {k \in 0..Passes : P(k)}
<1>0. Passes \in Nat /\ Len(ws) \in Nat /\ \A i \in 1..Len(ws) : ws[i] \in Quoted
  BY OrderKnown, ElementOfSeq
<1>1. 0 \in G
  <2>1. \A i \in 1..Len(ws) : Put(ws[i], 0) = ws[i]
    BY DEF Put
  <2>2. Putting(ws, 0) = ws
    <3>1. 0 \in 0..Passes
      BY <1>0
    <3>2. Putting(ws, 0) \in Seq(Quoted) /\ Len(Putting(ws, 0)) = Len(ws)
      BY <3>1, PuttingQuoted
    <3>3. \A i \in 1..Len(ws) : Putting(ws, 0)[i] = ws[i]
      BY <2>1 DEF Putting
    <3> QED
      BY <3>2, <3>3, SeqEqual
  <2>3. Named(t)[0] = t
    BY NamedStep
  <2>4. P(0)
    BY <2>2, <2>3
  <2> HIDE DEF P
  <2> QED
    BY <2>4, <1>0
<1>2. ASSUME NEW k \in 0..(Passes - 1), k \in G  PROVE k + 1 \in G
  <2> DEFINE q == PxOrder[k + 1]
             vs == Putting(ws, k)
  <2>1. k + 1 \in 1..Passes /\ (k + 1) - 1 = k /\ k + 1 \in 0..Passes /\ k \in 0..Passes
    BY <1>0
  <2>2. q \in PxKnown /\ PxName[q] \in Symbols \ {Mark}
    BY <2>1, OrderKnown, NameSymbol
  <2>3. vs \in Seq(Quoted) /\ Len(vs) = Len(ws)
    BY <2>1, PuttingQuoted
  <2>4. Named(t)[k + 1] = WordReplaced(Named(t)[k], q, PxName[q])
    BY <2>1, NamedStep
  <2>5. Named(t)[k] = FlattenSeq(vs)
    BY <1>2
  <2>6. WordReplaced(FlattenSeq(vs), q, PxName[q]) = FlattenSeq(Swapped(vs, q, PxName[q]))
    <3> HIDE DEF vs, q
    <3> QED
      BY <2>2, <2>3, WordsReplaced
  <2>7. Swapped(vs, q, PxName[q]) = Putting(ws, k + 1)
    <3>1. ASSUME NEW i \in 1..Len(ws)  PROVE Swap(vs[i], q, PxName[q]) = Put(ws[i], k + 1)
      <4>1. vs[i] = Put(ws[i], k)
        BY DEF Putting
      <4>2. Swap(Put(ws[i], (k + 1) - 1), PxOrder[k + 1], PxName[PxOrder[k + 1]]) = Put(ws[i], k + 1)
        BY <1>0, <2>1, PutNext
      <4> QED
        BY <4>1, <4>2, <2>1
    <3> HIDE DEF vs, q
    <3> QED
      BY <3>1, <2>3 DEF Swapped, Putting
  <2>8. P(k + 1)
    BY <2>4, <2>5, <2>6, <2>7
  <2> HIDE DEF P
  <2> QED
    BY <2>1, <2>8
<1>3. \A k \in 0..Passes : k \in G
  <2> HIDE DEF G
  <2> QED
    BY <1>0, <1>1, <1>2, UpTo
<1> QED
  BY <1>3

\* In the end there is no Mark left.
LEMMA PlainFlat ==
  ASSUME NEW ws \in Seq(Plain)
  PROVE  FlattenSeq(ws) \in Plain
<1> DEFINE G == {v \in Seq(Plain) : FlattenSeq(v) \in Plain}
<1>0. Plain \subseteq Seq(Symbols) /\ Seq(Plain) \subseteq Seq(Seq(Symbols))
  <2>1. Plain \subseteq Seq(Symbols)
    BY DEF Plain
  <2> QED
    BY <2>1, SeqMonotonic
<1>1. <<>> \in G
  <2>1. <<>> \in Plain
    BY DEF Plain
  <2> QED
    BY <2>1, FlatEmpty
<1>2. ASSUME NEW v \in Seq(Plain), NEW w \in Plain, v \in G  PROVE Append(v, w) \in G
  <2> DEFINE t == FlattenSeq(v)
  <2>1. FlattenSeq(Append(v, w)) = t \o w /\ Append(v, w) \in Seq(Plain)
    BY <1>0, FlatAppend, AppendProperties
  <2>2. t \in Plain /\ t \in Seq(Symbols) /\ w \in Seq(Symbols)
    BY <1>2, <1>0
  <2> HIDE DEF t
  <2>3. /\ t \o w \in Seq(Symbols) /\ Len(t \o w) = Len(t) + Len(w) /\ Len(t) \in Nat /\ Len(w) \in Nat
        /\ \A i \in 1..Len(t) : (t \o w)[i] = t[i]
        /\ \A i \in 1..Len(w) : (t \o w)[Len(t) + i] = w[i]
    BY <2>2, Cat
  <2>4. ASSUME NEW i \in 1..Len(t \o w)  PROVE (t \o w)[i] # Mark
    <3>1. CASE i <= Len(t)
      BY <3>1, <2>2, <2>3 DEF Plain
    <3>2. CASE i > Len(t)
      <4>1. i - Len(t) \in 1..Len(w) /\ Len(t) + (i - Len(t)) = i
        BY <3>2, <2>3
      <4>2. (t \o w)[i] = w[i - Len(t)]
        BY <4>1, <2>3
      <4> QED
        BY <4>1, <4>2 DEF Plain
    <3> QED
      BY <3>1, <3>2, <2>3
  <2>5. t \o w \in Plain
    BY <2>3, <2>4 DEF Plain
  <2> QED
    BY <2>1, <2>5 DEF t
<1>3. Seq(Plain) \subseteq G
  <2> HIDE DEF G
  <2> QED
    BY <1>1, <1>2, EndInduction
<1> QED
  BY <1>3

-----------------------------------------------------------------------------
\* A text without matches stays as it is.
LEMMA ReplacedPlain ==
  ASSUME NEW S, NEW text \in Seq(S), NEW length, NEW by \in S, Unmatched(length, Len(text))
  PROVE  Replaced(text, length, by) = text
<1>0. Len(text) \in Nat /\ Len(text) \in 0..Len(text)
  OBVIOUS
<1>1. Fits(text, length)
  BY <1>0 DEF Fits, Unmatched
<1>2. PICK f : Scan(f, text, length, by, 1) /\ Replaced(text, length, by) = f[1]
  BY <1>0, <1>1, ReplacedScan
<1>3. f[1] = SubSeq(text, 1, Len(text)) \o f[Len(text) + 1]
  BY <1>0, <1>1, <1>2, ScanPlain, Zenon
<1>4. f[Len(text) + 1] = <<>>
  <2>1. 1 \in 1..(Len(text) + 1)
    BY <1>0
  <2>2. ScanSteps(f, text, length, by, 1)
    BY <2>1, <1>0, <1>2, ScanStep
  <2> QED
    BY <2>2 DEF ScanSteps
<1>5. SubSeq(text, 1, Len(text)) = text
  BY SubSeqFull
<1> QED
  BY <1>2, <1>3, <1>4, <1>5, ConcatEmptySeq

LEMMA NoOpening ==
  ASSUME NEW text \in Plain, NEW i \in 1..Len(text)
  PROVE  ~At(text, i, Opening)
<1>1. text \in Seq(Symbols) /\ Len(text) \in Nat /\ \A j \in 1..Len(text) : text[j] # Mark
  BY DEF Plain
<1>2. Opening \in Seq(Symbols) /\ Len(Opening) = 3 /\ Opening[3] = Mark
  <2>1. Bar \in Symbols /\ Mark \in Symbols
    BY DEF Symbols
  <2> QED
    BY <2>1 DEF Opening
<1>3. i \in Nat \ {0}
  BY <1>1
<1>4. ~Match(text, i, Opening)
  <2> SUFFICES ASSUME Match(text, i, Opening)  PROVE FALSE
    OBVIOUS
  <2>1. i + Len(Opening) - 1 <= Len(text) /\ \A j \in 1..Len(Opening) : text[i + j - 1] = Opening[j]
    BY DEF Match
  <2>2. i + 3 - 1 \in 1..Len(text) /\ text[i + 3 - 1] = Mark
    <3>1. 3 \in 1..Len(Opening) /\ i + 3 - 1 <= Len(text)
      BY <2>1, <1>2
    <3>2. text[i + 3 - 1] = Opening[3]
      BY <3>1, <2>1
    <3> QED
      BY <3>1, <3>2, <1>1, <1>2, <1>3
  <2> QED
    BY <2>2, <1>1
<1> QED
  BY <1>1, <1>2, <1>3, <1>4, AtIs

\* Where there is no Mark, only known placeholders are replaced.
LEMMA DeanonymizedPlain ==
  ASSUME NEW text, Named(text)[Passes] \in Plain
  PROVE  Deanonymized(text) = Named(text)[Passes]
<1> DEFINE n == Named(text)[Passes]
           a == [i \in DOMAIN n |-> Shaped(n, i)]
           s == Replaced(n, a, Redacted)
           b == [i \in DOMAIN s |-> Fragment(s, i)]
<1>1. Deanonymized(text) = Replaced(s, b, Redacted)
  BY DEF Deanonymized, Passes
<1>2. n \in Plain
  OBVIOUS
<1>3. Redacted \in Symbols
  BY DEF Symbols
<1>4. n \in Seq(Symbols) /\ DOMAIN n = 1..Len(n)
  BY <1>2 DEF Plain
<1> HIDE DEF n
<1>5. s = n
  <2>1. \A i \in 1..Len(n) : a[i] = 0
    BY <1>2, <1>4, NoOpening DEF Shaped
  <2>2. Unmatched(a, Len(n))
    BY <2>1 DEF Unmatched
  <2> HIDE DEF a
  <2> QED
    BY <2>2, <1>3, <1>4, ReplacedPlain
<1> HIDE DEF s
<1>6. Replaced(s, b, Redacted) = s
  <2>1. \A i \in 1..Len(s) : b[i] = 0
    BY <1>2, <1>4, <1>5, NoOpening DEF Fragment
  <2>2. Unmatched(b, Len(s))
    BY <2>1 DEF Unmatched
  <2> HIDE DEF b
  <2> QED
    BY <2>2, <1>3, <1>4, <1>5, ReplacedPlain
<1> QED
  BY <1>1, <1>5, <1>6 DEF n

LEMMA PutPlain ==
  ASSUME NEW w \in Quoted
  PROVE  Put(w, Passes) \in Plain
<1>1. CASE w \in PxKnown
  <2>1. PxName[w] \in Symbols /\ PxName[w] # Mark
    BY <1>1, NameSymbol
  <2>2. <<PxName[w]>> \in Seq(Symbols) /\ Len(<<PxName[w]>>) = 1 /\ <<PxName[w]>>[1] = PxName[w]
    BY <2>1
  <2>3. <<PxName[w]>> \in Plain
    BY <2>1, <2>2 DEF Plain
  <2>4. \E j \in 1..Passes : w = PxOrder[j]
    BY <1>1, OrderKnown
  <2> QED
    BY <2>3, <2>4 DEF Put
<1>2. CASE w \notin PxKnown
  <2>1. w \in Plain /\ ~ \E j \in 1..Passes : w = PxOrder[j]
    BY <1>2, OrderKnown DEF Quoted
  <2> QED
    BY <2>1 DEF Put
<1> QED
  BY <1>1, <1>2

\* The answer as the caller should see it.
Spelled(ws) == FlattenSeq(Putting(ws, Passes))

LEMMA DeanonymizedFlat ==
  ASSUME NEW ws \in Seq(Quoted)
  PROVE  Deanonymized(FlattenSeq(ws)) = Spelled(ws)
<1>1. Passes \in Nat /\ Passes \in 0..Passes
  BY OrderKnown
<1>2. Named(FlattenSeq(ws))[Passes] = Spelled(ws)
  BY <1>1, NamedFlat DEF Spelled
<1>3. Putting(ws, Passes) \in Seq(Plain)
  <2>1. \A i \in 1..Len(ws) : Put(ws[i], Passes) \in Plain
    BY ElementOfSeq, PutPlain
  <2>2. Len(ws) \in Nat
    OBVIOUS
  <2> QED
    BY <2>1, <2>2 DEF Putting
<1>4. Spelled(ws) \in Plain
  BY <1>3, PlainFlat DEF Spelled
<1> QED
  BY <1>2, <1>4, DeanonymizedPlain

LEMMA PuttingCat ==
  ASSUME NEW us \in Seq(Quoted), NEW vs \in Seq(Quoted)
  PROVE  Putting(us \o vs, Passes) = Putting(us, Passes) \o Putting(vs, Passes)
<1>0. Passes \in 0..Passes
  BY OrderKnown
<1> DEFINE ws == us \o vs
           a == Putting(us, Passes)
           b == Putting(vs, Passes)
           c == Putting(ws, Passes)
<1>1. /\ ws \in Seq(Quoted) /\ Len(ws) = Len(us) + Len(vs)
      /\ Len(us) \in Nat /\ Len(vs) \in Nat
      /\ \A i \in 1..Len(us) : ws[i] = us[i]
      /\ \A i \in 1..Len(vs) : ws[Len(us) + i] = vs[i]
  BY Cat
<1> HIDE DEF ws
<1>2. a \in Seq(Quoted) /\ Len(a) = Len(us) /\ b \in Seq(Quoted) /\ Len(b) = Len(vs)
  BY <1>0, PuttingQuoted
<1>3. c \in Seq(Quoted) /\ Len(c) = Len(ws)
  BY <1>0, <1>1, PuttingQuoted
<1>4. /\ \A i \in 1..Len(us) : a[i] = Put(us[i], Passes)
      /\ \A i \in 1..Len(vs) : b[i] = Put(vs[i], Passes)
      /\ \A i \in 1..Len(ws) : c[i] = Put(ws[i], Passes)
  BY DEF Putting
<1> HIDE DEF a, b, c
<1>5. /\ a \o b \in Seq(Quoted) /\ Len(a \o b) = Len(a) + Len(b)
      /\ \A i \in 1..Len(a) : (a \o b)[i] = a[i]
      /\ \A i \in 1..Len(b) : (a \o b)[Len(a) + i] = b[i]
  <2>1. a \in Seq(Quoted) /\ b \in Seq(Quoted)
    BY <1>2
  <2> QED
    BY <2>1, Cat
<1>6. ASSUME NEW i \in 1..Len(ws)  PROVE c[i] = (a \o b)[i]
  <2>1. CASE i <= Len(us)
    <3>1. i \in 1..Len(us)
      BY <2>1, <1>1
    <3> QED
      BY <3>1, <1>1, <1>2, <1>4, <1>5
  <2>2. CASE i > Len(us)
    <3> DEFINE j == i - Len(us)
    <3>1. j \in 1..Len(vs) /\ Len(us) + j = i
      BY <2>2, <1>1
    <3> HIDE DEF j
    <3> QED
      BY <3>1, <1>1, <1>2, <1>4, <1>5
  <2> QED
    <3>1. i \in Nat /\ Len(us) \in Nat /\ (i <= Len(us) \/ i > Len(us))
      BY <1>1
    <3> QED
      BY <3>1, <2>1, <2>2
<1>7. c = a \o b
  BY <1>1, <1>2, <1>3, <1>5, <1>6, SeqEqual
<1> QED
  BY <1>7 DEF a, b, c, ws

\* Two quoting texts in a row.
LEMMA DeanonymizedCat ==
  ASSUME NEW us \in Seq(Quoted), NEW vs \in Seq(Quoted)
  PROVE  Deanonymized(FlattenSeq(us) \o FlattenSeq(vs)) =
            Deanonymized(FlattenSeq(us)) \o Deanonymized(FlattenSeq(vs))
<1>1. us \in Seq(Seq(Symbols)) /\ vs \in Seq(Seq(Symbols)) /\ us \o vs \in Seq(Quoted)
  BY QuotedText, ConcatProperties
<1>2. FlattenSeq(us \o vs) = FlattenSeq(us) \o FlattenSeq(vs)
  BY <1>1, FlatCat
<1>3. Deanonymized(FlattenSeq(us \o vs)) = Spelled(us \o vs)
  BY <1>1, DeanonymizedFlat
<1>4. Deanonymized(FlattenSeq(us)) = Spelled(us) /\ Deanonymized(FlattenSeq(vs)) = Spelled(vs)
  BY DeanonymizedFlat
<1>5. Spelled(us \o vs) = Spelled(us) \o Spelled(vs)
  <2>0. Passes \in 0..Passes
    BY OrderKnown
  <2>1. Putting(us, Passes) \in Seq(Seq(Symbols)) /\ Putting(vs, Passes) \in Seq(Seq(Symbols))
    BY <2>0, PuttingQuoted, QuotedText
  <2>2. FlattenSeq(Putting(us, Passes) \o Putting(vs, Passes)) =
          FlattenSeq(Putting(us, Passes)) \o FlattenSeq(Putting(vs, Passes))
    BY <2>1, FlatCat
  <2> QED
    BY <2>2, PuttingCat DEF Spelled
<1> QED
  BY <1>2, <1>3, <1>4, <1>5

-----------------------------------------------------------------------------
(***************************************************************************)
(* Where a text that quotes placeholders may be cut: between words, and    *)
(* inside plain ones.                                                      *)
(***************************************************************************)

LEMMA GreatestIs ==
  ASSUME NEW K \in Nat, NEW S, S \subseteq 0..K, S # {}
  PROVE  Max(S) \in S /\ \A i \in S : i <= Max(S)
<1> DEFINE D == {K - i : i \in S}
<1>0. \A i \in S : i \in 0..K
  OBVIOUS
<1>1. D \subseteq Nat /\ D # {}
  <2>1. \A i \in S : K - i \in Nat
    BY <1>0
  <2>2. PICK i \in S : TRUE
    OBVIOUS
  <2> QED
    BY <2>1, <2>2
<1>2. PICK d \in D : \A k \in D : d <= k
  BY <1>1, LeastNumber
<1>3. PICK g \in S : d = K - g
  BY <1>2
<1>4. ASSUME NEW i \in S  PROVE g >= i
  <2>1. K - i \in D /\ i \in Int /\ g \in Int
    OBVIOUS
  <2>2. d <= K - i
    BY <2>1, <1>2
  <2> QED
    BY <2>1, <2>2, <1>3
<1>5. \E x \in S : \A y \in S : x >= y
  BY <1>4
<1>6. Max(S) \in S /\ \A y \in S : Max(S) >= y
  BY <1>5 DEF Max
<1>7. \A i \in S : i \in Int
  OBVIOUS
<1> QED
  BY <1>6, <1>7

LEMMA LeastIs ==
  ASSUME NEW S, S \subseteq Nat, S # {}
  PROVE  Min(S) \in S /\ \A i \in S : Min(S) <= i
<1>1. \E x \in S : \A y \in S : x <= y
  BY LeastNumber
<1> QED
  BY <1>1 DEF Min

LEMMA LongestIs ==
  /\ MaxLen \in Nat /\ \A p \in PxKnown : Len(p) <= MaxLen
  /\ \E p \in PxKnown : Len(p) = MaxLen
<1> DEFINE S == {Len(p) : p \in PxKnown}
           G == {k \in Nat : \E K \in Nat : \A i \in 1..Passes : i <= k => Len(PxOrder[i]) <= K}
<1>1. Passes \in Nat /\ 1 \in 1..Passes /\ PxOrder[1] \in PxKnown
  BY OrderKnown
<1>2. PICK K \in Nat : \A i \in 1..Passes : Len(PxOrder[i]) <= K
  <2>1. 0 \in G
    OBVIOUS
  <2>2. ASSUME NEW k \in 0..(Passes - 1), k \in G  PROVE k + 1 \in G
    <3>1. PICK K \in Nat : \A i \in 1..Passes : i <= k => Len(PxOrder[i]) <= K
      BY <2>2
    <3> DEFINE n == Len(PxOrder[k + 1])
    <3>2. k \in Nat /\ k + 1 \in 1..Passes /\ n \in Nat
      BY <1>1, OrderKnown, KnownShape
    <3> HIDE DEF n
    <3>3. \A i \in 1..Passes : i <= k + 1 => i <= k \/ i = k + 1
      BY <3>2, <1>1
    <3>4. \A i \in 1..Passes : i <= k => Len(PxOrder[i]) \in Nat
      BY OrderKnown, KnownShape
    <3>5. \A i \in 1..Passes : i <= k + 1 => Len(PxOrder[i]) <= K + n
      BY <3>1, <3>2, <3>3, <3>4 DEF n
    <3>6. K + n \in Nat
      BY <3>2
    <3>7. \E M \in Nat : \A i \in 1..Passes : i <= k + 1 => Len(PxOrder[i]) <= M
      BY <3>5, <3>6, Zenon
    <3>8. k + 1 \in Nat
      BY <3>2
    <3> QED
      BY <3>7, <3>8, Zenon
  <2> HIDE DEF G
  <2>3. Passes \in G
    BY <1>1, <2>1, <2>2, UpTo
  <2> QED
    BY <2>3, <1>1 DEF G
<1>3. ASSUME NEW p \in PxKnown  PROVE Len(p) \in Nat /\ Len(p) <= K
  <2>1. PICK k \in 1..Passes : p = PxOrder[k]
    BY OrderKnown
  <2> QED
    BY <2>1, <1>2, KnownShape
<1> HIDE DEF G
<1>4. S \subseteq 0..K /\ S # {}
  <2>1. \A p \in PxKnown : Len(p) \in 0..K
    BY <1>2, <1>3
  <2> QED
    BY <2>1, <1>1
<1>5. Max(S) \in S /\ \A i \in S : i <= Max(S)
  <2> HIDE DEF S
  <2> QED
    BY <1>2, <1>4, GreatestIs
<1>6. MaxLen = Max(S)
  BY DEF MaxLen
<1>7. MaxLen \in S /\ \A p \in PxKnown : Len(p) \in S
  BY <1>5, <1>6
<1>8. MaxLen \in Nat /\ \E p \in PxKnown : Len(p) = MaxLen
  BY <1>2, <1>4, <1>7
<1>9. \A p \in PxKnown : Len(p) <= MaxLen
  BY <1>5, <1>6, <1>7
<1> QED
  BY <1>8, <1>9

\* What is held back begins a placeholder, and everything that does is held back.
Opens(buffer, i) ==
    /\ i \in 1..Len(buffer) /\ i > Len(buffer) - MaxLen + 1
    /\ \E p \in PxKnown : IsPrefix(From(buffer, i), p)

LEMMA SafeIs ==
  ASSUME NEW buffer, Len(buffer) \in Nat
  PROVE  /\ SafeUpto(buffer) \in 0..Len(buffer)
         /\ SafeUpto(buffer) = Len(buffer) \/ Opens(buffer, SafeUpto(buffer) + 1)
         /\ \A i : Opens(buffer, i) => SafeUpto(buffer) < i
<1> DEFINE n == Len(buffer)
           open == {i \in 1..Len(buffer) :
                    /\ i > Len(buffer) - MaxLen + 1
                    /\ \E p \in PxKnown : IsPrefix(From(buffer, i), p)}
           S == {n} \cup {i - 1 : i \in open}
<1>1. SafeUpto(buffer) = Min(S)
  BY DEF SafeUpto
<1>2. \A i : i \in open <=> Opens(buffer, i)
  BY DEF Opens
<1>3. open \subseteq 1..n /\ n \in Nat
  OBVIOUS
<1> HIDE DEF open, n
<1>4. S \subseteq 0..n /\ S \subseteq Nat /\ S # {}
  BY <1>3
<1>5. Min(S) \in S /\ \A k \in S : Min(S) <= k
  <2> HIDE DEF S
  <2> QED
    BY <1>4, LeastIs
<1> DEFINE c == Min(S)
<1>6. c \in S /\ c \in 0..n /\ \A k \in S : c <= k
  BY <1>4, <1>5
<1> HIDE DEF c
<1>7. c = n \/ c + 1 \in open
  BY <1>3, <1>6
<1>8. ASSUME NEW i \in open  PROVE c < i
  <2>1. i - 1 \in S
    OBVIOUS
  <2>2. c <= i - 1
    BY <2>1, <1>6
  <2> QED
    BY <2>2, <1>3, <1>6
<1> QED
  BY <1>1, <1>2, <1>6, <1>7, <1>8 DEF c, n

Split(text, c) ==
    \E us, vs \in Seq(Quoted) :
        text = FlattenSeq(us) \o FlattenSeq(vs) /\ Len(FlattenSeq(us)) = c

\* The placeholder p stands at s + 1, and has no Mark right after it.
Stands(text, s, p) ==
    /\ s \in Nat /\ s + Len(p) <= Len(text)
    /\ \A j \in 1..Len(p) : text[s + j] = p[j]
    /\ \A j \in 1..2 : s + Len(p) + j <= Len(text) => text[s + Len(p) + j] # Mark

Inside(text, c) == \E p \in PxKnown, s \in Nat : Stands(text, s, p) /\ s < c /\ c < s + Len(p)

LEMMA SplitFirst ==
  ASSUME NEW w \in Quoted, NEW t \in Seq(Symbols), NEW c \in Nat, Split(t, c)
  PROVE  Split(w \o t, Len(w) + c)
<1>1. PICK us \in Seq(Quoted), vs \in Seq(Quoted) :
         t = FlattenSeq(us) \o FlattenSeq(vs) /\ Len(FlattenSeq(us)) = c
  BY DEF Split
<1>2. /\ w \in Seq(Symbols) /\ us \in Seq(Seq(Symbols)) /\ vs \in Seq(Seq(Symbols))
      /\ <<w>> \in Seq(Quoted)
  BY QuotedText
<1> DEFINE xs == <<w>> \o us
<1>3. xs \in Seq(Quoted)
  BY <1>2, ConcatProperties
<1>4. FlattenSeq(xs) = w \o FlattenSeq(us)
  BY <1>2, FlatFirst
<1> HIDE DEF xs
<1>5. FlattenSeq(us) \in Seq(Symbols) /\ FlattenSeq(vs) \in Seq(Symbols)
  BY <1>2, FlatText
<1>6. w \o t = FlattenSeq(xs) \o FlattenSeq(vs)
  BY <1>1, <1>2, <1>4, <1>5, ConcatAssociative
<1>7. Len(FlattenSeq(xs)) = Len(w) + c
  BY <1>1, <1>2, <1>4, <1>5, Cat
<1> QED
  BY <1>3, <1>6, <1>7 DEF Split

LEMMA StandsFirst ==
  ASSUME NEW w \in Seq(Symbols), NEW t \in Seq(Symbols), NEW s \in Nat, NEW p \in PxKnown, Stands(t, s, p)
  PROVE  Stands(w \o t, Len(w) + s, p)
<1> DEFINE r == w \o t
           k == Len(w)
<1>1. /\ Len(r) = k + Len(t) /\ k \in Nat /\ Len(t) \in Nat
      /\ \A i \in 1..Len(t) : r[k + i] = t[i]
  BY Cat
<1>2. Len(p) \in Nat
  BY KnownShape
<1>3. /\ s + Len(p) <= Len(t)
      /\ \A j \in 1..Len(p) : t[s + j] = p[j]
      /\ \A j \in 1..2 : s + Len(p) + j <= Len(t) => t[s + Len(p) + j] # Mark
  BY DEF Stands
<1> HIDE DEF r, k
<1>4. ASSUME NEW j \in 1..Len(p)  PROVE r[(k + s) + j] = p[j]
  <2>1. s + j \in 1..Len(t) /\ (k + s) + j = k + (s + j)
    BY <1>1, <1>2, <1>3
  <2> QED
    BY <2>1, <1>1, <1>3
<1>5. ASSUME NEW j \in 1..2, (k + s) + Len(p) + j <= Len(r)
      PROVE  r[(k + s) + Len(p) + j] # Mark
  <2>1. /\ s + Len(p) + j \in 1..Len(t) /\ s + Len(p) + j <= Len(t)
        /\ (k + s) + Len(p) + j = k + (s + Len(p) + j)
    BY <1>1, <1>2, <1>5
  <2> QED
    BY <2>1, <1>1, <1>3
<1>6. k + s \in Nat /\ (k + s) + Len(p) <= Len(r)
  BY <1>1, <1>2, <1>3
<1> QED
  BY <1>4, <1>5, <1>6 DEF Stands, r, k

\* A cut in the first word.
LEMMA CutFirst ==
  ASSUME NEW w \in Quoted, NEW v \in Seq(Quoted), NEW c \in 0..Len(w)
  PROVE  Split(w \o FlattenSeq(v), c) \/ Inside(w \o FlattenSeq(v), c)
<1> DEFINE t == FlattenSeq(v)
<1>1. w \in Seq(Symbols) /\ v \in Seq(Seq(Symbols)) /\ Early(t) /\ t \in Seq(Symbols)
  BY QuotedText, FlatEarly DEF Early
<1> HIDE DEF t
<1>2. Len(w) \in Nat /\ c \in Nat
  BY <1>1
<1>3. CASE w \in Plain
  <2> DEFINE a == SubSeq(w, 1, c)
             b == SubSeq(w, c + 1, Len(w))
  <2>1. /\ a \in Seq(Symbols) /\ Len(a) = c /\ \A i \in 1..c : a[i] = w[i]
    <3>1. 1 \in 1..(Len(w) + 1) /\ c \in (1 - 1)..Len(w)
      BY <1>2
    <3>2. /\ a \in Seq(Symbols) /\ Len(a) = c - 1 + 1
          /\ \A i \in 1..(c - 1 + 1) : a[i] = w[1 + i - 1]
      BY <3>1, <1>1, Slice
    <3> HIDE DEF a
    <3> QED
      BY <3>2, <1>2
  <2>2. /\ b \in Seq(Symbols) /\ Len(b) = Len(w) - c /\ \A i \in 1..(Len(w) - c) : b[i] = w[c + i]
    <3>1. c + 1 \in 1..(Len(w) + 1) /\ Len(w) \in ((c + 1) - 1)..Len(w)
      BY <1>2
    <3>2. /\ b \in Seq(Symbols) /\ Len(b) = Len(w) - (c + 1) + 1
          /\ \A i \in 1..(Len(w) - (c + 1) + 1) : b[i] = w[(c + 1) + i - 1]
      BY <3>1, <1>1, Slice
    <3> HIDE DEF b
    <3>3. \A i \in 1..(Len(w) - c) : (c + 1) + i - 1 = c + i
      BY <1>2
    <3>4. Len(w) - (c + 1) + 1 = Len(w) - c
      BY <1>2
    <3> QED
      BY <3>2, <3>3, <3>4
  <2>3. w = a \o b
    BY <1>1, Glue
  <2> HIDE DEF a, b
  <2>4. a \in Plain /\ b \in Plain
    <3>1. \A i \in 1..Len(w) : w[i] # Mark
      BY <1>3 DEF Plain
    <3>2. \A i \in 1..Len(a) : a[i] # Mark
      BY <3>1, <2>1, <1>2
    <3>3. ASSUME NEW i \in 1..Len(b)  PROVE b[i] # Mark
      <4>1. c + i \in 1..Len(w) /\ i \in 1..(Len(w) - c)
        BY <2>2, <1>2
      <4> QED
        BY <4>1, <3>1, <2>2
    <3> QED
      BY <3>2, <3>3, <2>1, <2>2 DEF Plain
  <2>5. a \in Quoted /\ b \in Quoted /\ <<a>> \in Seq(Quoted) /\ <<b>> \in Seq(Quoted)
    BY <2>4 DEF Quoted
  <2>6. <<b>> \o v \in Seq(Quoted)
    BY <2>5, ConcatProperties
  <2>7. FlattenSeq(<<a>>) = a /\ FlattenSeq(<<b>> \o v) = b \o t
    BY <2>1, <2>2, <1>1, FlatOne, FlatFirst DEF t
  <2>8. w \o t = a \o (b \o t)
    BY <2>1, <2>2, <2>3, <1>1, ConcatAssociative
  <2>9. Split(w \o t, c)
    BY <2>1, <2>5, <2>6, <2>7, <2>8 DEF Split
  <2> QED
    BY <2>9 DEF t
<1>4. CASE w \in PxKnown /\ c = 0
  <2>1. <<>> \in Seq(Quoted) /\ <<w>> \in Seq(Quoted)
    OBVIOUS
  <2>2. <<w>> \o v \in Seq(Quoted)
    BY <2>1, ConcatProperties
  <2>3. FlattenSeq(<<>>) = <<>> /\ FlattenSeq(<<w>> \o v) = w \o t
    BY <1>1, FlatEmpty, FlatFirst DEF t
  <2>4. w \o t = <<>> \o (w \o t) /\ Len(<<>>) = 0
    <3>1. w \o t \in Seq(Symbols)
      BY <1>1, ConcatProperties
    <3> QED
      BY <3>1, ConcatEmptySeq
  <2>5. Split(w \o t, c)
    BY <2>1, <2>2, <2>3, <2>4, <1>4 DEF Split
  <2> QED
    BY <2>5 DEF t
<1>5. CASE w \in PxKnown /\ c = Len(w)
  <2>1. <<w>> \in Seq(Quoted) /\ FlattenSeq(<<w>>) = w
    BY <1>1, FlatOne
  <2>2. Split(w \o t, c)
    BY <2>1, <1>5 DEF Split, t
  <2> QED
    BY <2>2 DEF t
<1>6. CASE w \in PxKnown /\ c # 0 /\ c # Len(w)
  <2> DEFINE r == w \o t
  <2>1. /\ Len(r) = Len(w) + Len(t) /\ Len(t) \in Nat
        /\ \A i \in 1..Len(w) : r[i] = w[i]
        /\ \A i \in 1..Len(t) : r[Len(w) + i] = t[i]
    BY <1>1, Cat
  <2> HIDE DEF r
  <2>2. \A j \in 1..Len(w) : r[0 + j] = w[j]
    BY <2>1
  <2>3. ASSUME NEW j \in 1..2, 0 + Len(w) + j <= Len(r)  PROVE r[0 + Len(w) + j] # Mark
    <3>1. j \in 1..Len(t) /\ j <= 2 /\ 0 + Len(w) + j = Len(w) + j
      BY <2>1, <2>3, <1>2
    <3> QED
      BY <3>1, <2>1, <1>1 DEF Early
  <2>4. Stands(r, 0, w)
    BY <2>1, <2>2, <2>3, <1>2 DEF Stands
  <2>5. 0 < c /\ c < 0 + Len(w)
    BY <1>2, <1>6
  <2>6. Inside(r, c)
    BY <2>4, <2>5, <1>6 DEF Inside
  <2> QED
    BY <2>6 DEF t, r
<1> QED
  BY <1>3, <1>4, <1>5, <1>6 DEF Quoted

Cuts(text) == \A c \in 0..Len(text) : Split(text, c) \/ Inside(text, c)

LEMMA CutsFirst ==
  ASSUME NEW w \in Quoted, NEW v \in Seq(Quoted), Cuts(FlattenSeq(v))
  PROVE  Cuts(w \o FlattenSeq(v))
<1> DEFINE t == FlattenSeq(v)
<1>1. w \in Seq(Symbols) /\ t \in Seq(Symbols)
  BY QuotedText, FlatEarly DEF Early
<1>2. Len(w \o t) = Len(w) + Len(t) /\ Len(w) \in Nat /\ Len(t) \in Nat
  BY <1>1, Cat
<1> SUFFICES ASSUME NEW c \in 0..Len(w \o t)  PROVE Split(w \o t, c) \/ Inside(w \o t, c)
  BY DEF Cuts
<1>3. CASE c <= Len(w)
  <2>1. c \in 0..Len(w)
    BY <1>2, <1>3
  <2> QED
    BY <2>1, CutFirst
<1>4. CASE c > Len(w)
  <2> DEFINE d == c - Len(w)
  <2>1. d \in 0..Len(t) /\ d \in Nat /\ c = Len(w) + d
    BY <1>2, <1>4
  <2>2. Split(t, d) \/ Inside(t, d)
    BY <2>1 DEF Cuts
  <2> HIDE DEF d, t
  <2>3. CASE Split(t, d)
    BY <2>1, <2>3, <1>1, SplitFirst
  <2>4. CASE Inside(t, d)
    <3>1. PICK p \in PxKnown, s \in Nat : Stands(t, s, p) /\ s < d /\ d < s + Len(p)
      BY <2>4 DEF Inside
    <3>2. Stands(w \o t, Len(w) + s, p)
      BY <3>1, <1>1, StandsFirst
    <3>3. Len(p) \in Nat
      BY KnownShape
    <3>4. Len(w) + s \in Nat /\ Len(w) + s < c /\ c < (Len(w) + s) + Len(p)
      BY <3>1, <3>3, <2>1, <1>2
    <3> QED
      BY <3>2, <3>4 DEF Inside
  <2> QED
    BY <2>2, <2>3, <2>4
<1> QED
  BY <1>2, <1>3, <1>4

LEMMA CutsFlat == ASSUME NEW ws \in Seq(Quoted) PROVE Cuts(FlattenSeq(ws))
<1> DEFINE G == {v \in Seq(Quoted) : Cuts(FlattenSeq(v))}
<1>1. <<>> \in G
  <2>1. Split(<<>>, 0)
    <3>1. <<>> \in Seq(Quoted) /\ <<>> = <<>> \o <<>> /\ Len(<<>>) = 0
      BY ConcatEmptySeq
    <3> QED
      BY <3>1, FlatEmpty DEF Split
  <2>2. Cuts(<<>>)
    BY <2>1 DEF Cuts
  <2> QED
    BY <2>2, FlatEmpty
<1>2. ASSUME NEW v \in Seq(Quoted), NEW w \in Quoted, v \in G  PROVE <<w>> \o v \in G
  <2>1. w \in Seq(Symbols) /\ v \in Seq(Seq(Symbols)) /\ <<w>> \in Seq(Quoted)
    BY QuotedText
  <2>2. FlattenSeq(<<w>> \o v) = w \o FlattenSeq(v)
    BY <2>1, FlatFirst
  <2>3. Cuts(FlattenSeq(<<w>> \o v))
    BY <2>2, <1>2, CutsFirst
  <2>4. <<w>> \o v \in Seq(Quoted)
    BY <2>1, ConcatProperties
  <2> QED
    BY <2>3, <2>4
<1>3. Seq(Quoted) \subseteq G
  <2> HIDE DEF G
  <2> QED
    BY <1>1, <1>2, FrontInduction
<1> QED
  BY <1>3

-----------------------------------------------------------------------------
(***************************************************************************)
(* What is safe to show ends where the text may be cut, unless the piece   *)
(* ends where it severs a placeholder.                                     *)
(***************************************************************************)

LEMMA PrefixIs ==
  ASSUME NEW S, NEW s \in Seq(S), NEW t \in Seq(S)
  PROVE  IsPrefix(s, t) <=> Len(s) <= Len(t) /\ \A j \in 1..Len(s) : s[j] = t[j]
<1>1. Len(s) \in Nat /\ Len(t) \in Nat /\ SubSeq(s, 1, Len(s)) = s
  BY SubSeqFull
<1>2. CASE Len(s) <= Len(t)
  <2> DEFINE a == SubSeq(t, 1, Len(s))
  <2>1. 1 \in 1..(Len(t) + 1) /\ Len(s) \in (1 - 1)..Len(t)
    BY <1>1, <1>2
  <2>2. /\ a \in Seq(S) /\ Len(a) = Len(s) - 1 + 1
        /\ \A j \in 1..(Len(s) - 1 + 1) : a[j] = t[1 + j - 1]
    BY <2>1, Slice
  <2>3. IsPrefix(s, t) <=> s = a
    BY <1>1, <1>2 DEF IsPrefix
  <2> HIDE DEF a
  <2>4. a \in Seq(S) /\ Len(a) = Len(s) /\ \A j \in 1..Len(s) : a[j] = t[j]
    BY <2>2, <1>1
  <2>5. (\A j \in 1..Len(s) : s[j] = a[j]) => s = a
    BY <2>4, SeqEqual
  <2> QED
    BY <2>3, <2>4, <2>5, <1>2
<1>3. CASE ~(Len(s) <= Len(t))
  BY <1>3 DEF IsPrefix
<1> QED
  BY <1>2, <1>3

Begins(text, i, m, p) == m - i + 1 <= Len(p) /\ \A j \in 1..(m - i + 1) : text[i + j - 1] = p[j]

LEMMA OpensIs ==
  ASSUME NEW text \in Seq(Symbols), NEW m \in 0..Len(text), NEW i
  PROVE  Opens(SubSeq(text, 1, m), i) <=>
            i \in 1..m /\ i > m - MaxLen + 1 /\ \E p \in PxKnown : Begins(text, i, m, p)
<1> DEFINE b == SubSeq(text, 1, m)
<1>1. Len(text) \in Nat /\ 1 \in 1..(Len(text) + 1) /\ m \in (1 - 1)..Len(text)
  OBVIOUS
<1>2. b \in Seq(Symbols) /\ Len(b) = m /\ \A j \in 1..m : b[j] = text[j]
  <2>1. /\ b \in Seq(Symbols) /\ Len(b) = m - 1 + 1
        /\ \A j \in 1..(m - 1 + 1) : b[j] = text[1 + j - 1]
    BY <1>1, Slice
  <2> HIDE DEF b
  <2> QED
    BY <2>1, <1>1
<1> HIDE DEF b
<1>3. ASSUME i \in 1..m, NEW p \in PxKnown  PROVE IsPrefix(From(b, i), p) <=> Begins(text, i, m, p)
  <2> DEFINE f == From(b, i)
  <2>1. i \in 1..(Len(b) + 1) /\ m \in (i - 1)..Len(b) /\ i \in Nat /\ m \in Nat
    BY <1>1, <1>2, <1>3
  <2>2. /\ f \in Seq(Symbols) /\ Len(f) = m - i + 1 /\ \A j \in 1..(m - i + 1) : f[j] = b[i + j - 1]
    BY <2>1, <1>2, Slice DEF From
  <2>3. p \in Seq(Symbols)
    BY KnownShape
  <2> HIDE DEF f
  <2>4. IsPrefix(f, p) <=> Len(f) <= Len(p) /\ \A j \in 1..Len(f) : f[j] = p[j]
    BY <2>2, <2>3, PrefixIs
  <2>5. \A j \in 1..(m - i + 1) : f[j] = text[i + j - 1]
    <3>1. \A j \in 1..(m - i + 1) : i + j - 1 \in 1..m
      BY <2>1
    <3> QED
      BY <3>1, <2>2, <1>2
  <2>6. IsPrefix(f, p) <=> Begins(text, i, m, p)
    BY <2>2, <2>4, <2>5 DEF Begins
  <2> QED
    BY <2>6 DEF f
<1>4. Opens(b, i) <=> i \in 1..m /\ i > m - MaxLen + 1 /\ \E p \in PxKnown : IsPrefix(From(b, i), p)
  BY <1>2 DEF Opens
<1>5. Opens(b, i) <=> i \in 1..m /\ i > m - MaxLen + 1 /\ \E p \in PxKnown : Begins(text, i, m, p)
  BY <1>3, <1>4
<1> QED
  BY <1>5 DEF b

\* As Severs, of any text.
SeversHere(text, end) ==
    \E p \in PxKnown, s \in Nat :
        /\ s + Len(p) <= Len(text) /\ \A j \in 1..Len(p) : text[s + j] = p[j]
        /\ \/ Len(p) = MaxLen /\ s + Len(p) = end
           \/ s + Len(p) + 1 = end /\ text[end] = Bar

\* A placeholder that is not complete yet is held back.
LEMMA HeldIncomplete ==
  ASSUME NEW text \in Seq(Symbols), NEW m \in 0..Len(text),
         NEW p \in PxKnown, NEW s \in Nat, Stands(text, s, p), s < m, m <= s + Len(p), m < s + MaxLen
  PROVE  Opens(SubSeq(text, 1, m), s + 1)
<1>1. MaxLen \in Nat /\ Len(p) \in Nat /\ m \in Nat
  BY LongestIs, KnownShape
<1>2. s + 1 \in 1..m /\ s + 1 > m - MaxLen + 1
  BY <1>1
<1>3. Begins(text, s + 1, m, p)
  <2>1. \A j \in 1..Len(p) : text[s + j] = p[j]
    BY DEF Stands
  <2>2. m - (s + 1) + 1 <= Len(p)
    BY <1>1
  <2>3. \A j \in 1..(m - (s + 1) + 1) : j \in 1..Len(p) /\ (s + 1) + j - 1 = s + j
    BY <1>1
  <2> QED
    BY <2>1, <2>2, <2>3 DEF Begins
<1> QED
  BY <1>2, <1>3, OpensIs

\* Where a placeholder is complete, none begins inside it, in what has arrived after
\* it, except with its last symbol.
LEMMA NoneBegins ==
  ASSUME NEW text \in Seq(Symbols), NEW m \in 0..Len(text),
         NEW p \in PxKnown, NEW s \in Nat, Stands(text, s, p), s + Len(p) < m,
         NEW q \in PxKnown, NEW c \in Nat, s < c, c < s + Len(p), Begins(text, c + 1, m, q)
  PROVE  m = s + Len(p) + 1 /\ text[m] = Bar
<1> DEFINE n == Len(p)
<1>1. /\ n \in Nat /\ n > 5 /\ m \in Nat /\ Len(text) \in Nat
      /\ p[1] = Bar /\ p[2] = Bar /\ p[3] = Mark /\ p[n - 1] = Bar /\ p[n] = Bar
      /\ \A j \in 4..n : p[j] # Mark
      /\ \A j \in 4..(n - 2) : p[j] = Bar => p[j + 1] # Bar
  BY KnownShape
<1>2. /\ \A j \in 1..n : text[s + j] = p[j]
      /\ s + n + 1 <= Len(text) => text[s + n + 1] # Mark
      /\ s + n + 2 <= Len(text) => text[s + n + 2] # Mark
  BY DEF Stands
<1>3. Len(q) \in Nat /\ Len(q) > 5 /\ q[1] = Bar /\ q[2] = Bar /\ q[3] = Mark
  BY KnownShape
<1>4. \A j \in 1..(m - (c + 1) + 1) : text[(c + 1) + j - 1] = q[j]
  BY DEF Begins
<1>5. Bar # Mark
  BY DEF Bar, Mark
<1>6. s + n < m /\ s < c /\ c < s + n
  OBVIOUS
<1> HIDE DEF n
<1> DEFINE k == c - s + 1
<1>7. k \in 2..n /\ s + k = c + 1 /\ k \in Nat
  BY <1>1, <1>6
<1> HIDE DEF k
<1>8. text[s + k] = Bar /\ text[s + k + 1] = Bar
  <2>1. /\ 1 \in 1..(m - (c + 1) + 1) /\ 2 \in 1..(m - (c + 1) + 1)
        /\ (c + 1) + 1 - 1 = s + k /\ (c + 1) + 2 - 1 = s + k + 1
    BY <1>1, <1>6, <1>7
  <2> QED
    BY <2>1, <1>3, <1>4
<1>9. s + k + 2 <= m => text[s + k + 2] = Mark
  <2> SUFFICES ASSUME s + k + 2 <= m  PROVE text[s + k + 2] = Mark
    OBVIOUS
  <2>1. 3 \in 1..(m - (c + 1) + 1) /\ (c + 1) + 3 - 1 = s + k + 2
    BY <1>1, <1>6, <1>7
  <2> QED
    BY <2>1, <1>3, <1>4
<1>10. text[s + k] = p[k]
  BY <1>2, <1>7, <1>1
<1>11. k < n => text[s + k + 1] = p[k + 1]
  <2> SUFFICES ASSUME k < n  PROVE text[s + k + 1] = p[k + 1]
    OBVIOUS
  <2>1. k + 1 \in 1..n /\ s + k + 1 = s + (k + 1)
    BY <1>1, <1>7
  <2> QED
    BY <2>1, <1>2
<1>12. k # 2
  BY <1>1, <1>5, <1>8, <1>11
<1>13. k # 3
  BY <1>1, <1>5, <1>8, <1>10
<1>14. ~(k \in 4..(n - 2))
  <2> SUFFICES ASSUME k \in 4..(n - 2)  PROVE FALSE
    OBVIOUS
  <2>1. k < n
    BY <1>1
  <2>2. p[k] = Bar /\ p[k + 1] = Bar
    BY <2>1, <1>8, <1>10, <1>11
  <2> QED
    BY <2>2, <1>1
<1>15. k # n - 1
  <2> SUFFICES ASSUME k = n - 1  PROVE FALSE
    OBVIOUS
  <2>1. s + k + 2 <= m /\ s + k + 2 = s + n + 1 /\ s + n + 1 <= Len(text)
    BY <1>1, <1>6
  <2> QED
    BY <2>1, <1>2, <1>9
<1>16. k = n
  BY <1>1, <1>7, <1>12, <1>13, <1>14, <1>15
<1>17. ~(s + n + 2 <= m)
  <2> SUFFICES ASSUME s + n + 2 <= m  PROVE FALSE
    OBVIOUS
  <2>1. s + n + 2 <= Len(text)
    BY <1>1
  <2> QED
    BY <2>1, <1>2, <1>9, <1>16
<1>18. m = s + n + 1
  BY <1>1, <1>6, <1>17
<1> QED
  BY <1>8, <1>16, <1>18 DEF n

LEMMA SafeSplit ==
  ASSUME NEW ws \in Seq(Quoted), NEW m \in 0..Len(FlattenSeq(ws)), ~SeversHere(FlattenSeq(ws), m)
  PROVE  Split(FlattenSeq(ws), SafeUpto(SubSeq(FlattenSeq(ws), 1, m)))
<1> DEFINE r == FlattenSeq(ws)
           b == SubSeq(r, 1, m)
           c == SafeUpto(b)
<1>1. r \in Seq(Symbols) /\ Len(r) \in Nat /\ m \in 0..Len(r) /\ m \in Nat
  <2>1. r \in Seq(Symbols)
    BY FlatEarly DEF Early
  <2> QED
    BY <2>1
<1>2. Cuts(r)
  BY CutsFlat
<1>3. ~SeversHere(r, m)
  OBVIOUS
<1> HIDE DEF r
<1>4. Len(b) = m
  <2>1. 1 \in 1..(Len(r) + 1) /\ m \in (1 - 1)..Len(r)
    BY <1>1
  <2>2. Len(b) = m - 1 + 1
    BY <2>1, <1>1, Slice
  <2> QED
    BY <2>2, <1>1
<1> HIDE DEF b
<1>5. c \in 0..m /\ (c = m \/ Opens(b, c + 1)) /\ \A i : Opens(b, i) => c < i
  BY <1>1, <1>4, SafeIs
<1> HIDE DEF c
<1>6. ~Inside(r, c)
  <2> SUFFICES ASSUME Inside(r, c)  PROVE FALSE
    OBVIOUS
  <2>1. PICK p \in PxKnown, s \in Nat : Stands(r, s, p) /\ s < c /\ c < s + Len(p)
    BY DEF Inside
  <2>2. MaxLen \in Nat /\ Len(p) \in Nat /\ Len(p) <= MaxLen
    BY LongestIs, KnownShape
  <2>3. s + Len(p) <= Len(r) /\ \A j \in 1..Len(p) : r[s + j] = p[j]
    BY <2>1 DEF Stands
  <2>4. ~(m <= s + Len(p) /\ m < s + MaxLen)
    <3> SUFFICES ASSUME m <= s + Len(p), m < s + MaxLen  PROVE FALSE
      OBVIOUS
    <3>1. s < m
      BY <2>1, <1>1, <1>5
    <3>2. Opens(b, s + 1)
      BY <3>1, <2>1, <1>1, HeldIncomplete DEF b
    <3>3. c < s + 1
      BY <3>2, <1>5
    <3> QED
      BY <3>3, <2>1, <1>1, <1>5
  <2>5. ~(m = s + Len(p) /\ Len(p) = MaxLen)
    BY <2>3, <1>3 DEF SeversHere
  <2>6. s + Len(p) < m
    BY <2>2, <2>4, <2>5, <1>1
  <2>7. c # m /\ c \in Nat
    BY <2>1, <2>2, <2>6, <1>1, <1>5
  <2>8. PICK q \in PxKnown : Begins(r, c + 1, m, q)
    <3>1. Opens(b, c + 1)
      BY <2>7, <1>5
    <3> QED
      BY <3>1, <1>1, OpensIs DEF b
  <2>9. m = s + Len(p) + 1 /\ r[m] = Bar
    BY <2>1, <2>6, <2>7, <2>8, <1>1, NoneBegins
  <2> QED
    BY <2>3, <2>9, <1>3 DEF SeversHere
<1>7. c \in 0..Len(r)
  BY <1>1, <1>5
<1> QED
  BY <1>2, <1>6, <1>7 DEF Cuts, c, b, r

-----------------------------------------------------------------------------
(***************************************************************************)
(* What the caller is shown consists of letters of the answer, names and   *)
(* [REDACTED_SECRET].                                                      *)
(***************************************************************************)

Showable == Letters \cup Range(PxName) \cup {Redacted}

LEMMA WordText ==
  ASSUME NEW w \in PxKnown \cup PxOther
  PROVE  w \in Seq(Letters) /\ w \in Seq(Symbols)
<1>1. w \in Seq(Symbols)
  <2>1. CASE w \in PxKnown
    BY <2>1, KnownShape
  <2>2. CASE w \in PxOther
    <3>1. STRING \subseteq Symbols
      BY DEF Symbols
    <3>2. Seq(STRING) \subseteq Seq(Symbols)
      BY <3>1, SeqMonotonic
    <3> QED
      BY <2>2, <3>2, PxAssumption
  <2> QED
    BY <2>1, <2>2
<1>2. \A i \in DOMAIN w : w[i] \in Range(w)
  BY DEF Range
<1>3. \A i \in DOMAIN w : w[i] \in Letters
  BY <1>2 DEF Letters
<1>4. DOMAIN w = 1..Len(w) /\ Len(w) \in Nat /\ w = [i \in 1..Len(w) |-> w[i]]
  BY <1>1
<1>5. [i \in 1..Len(w) |-> w[i]] \in Seq(Letters)
  BY <1>3, <1>4
<1> QED
  BY <1>1, <1>4, <1>5

LEMMA WordsText ==
  ASSUME NEW ws \in Words
  PROVE  /\ ws \in Seq(PxKnown \cup PxOther)
         /\ FlattenSeq(ws) \in Seq(Letters) /\ FlattenSeq(ws) \in Seq(Symbols)
<1>1. PICK n \in 0..PxMaxWords : ws \in [1..n -> PxKnown \cup PxOther]
  BY DEF Words
<1>2. ws \in Seq(PxKnown \cup PxOther)
  <2>1. n \in Nat
    BY PxAssumption
  <2> QED
    BY <1>1, <2>1
<1>3. PxKnown \cup PxOther \subseteq Seq(Letters) /\ PxKnown \cup PxOther \subseteq Seq(Symbols)
  BY WordText
<1>4. ws \in Seq(Seq(Letters)) /\ ws \in Seq(Seq(Symbols))
  BY <1>2, <1>3, SeqMonotonic
<1> QED
  BY <1>2, <1>4, FlatText

LEMMA AnswerText == Answers \subseteq Seq(Letters) /\ Answers \subseteq Seq(Symbols)
  BY WordsText DEF Answers

LEMMA RunIs ==
  ASSUME NEW text, Len(text) \in Nat, NEW i \in Nat \ {0}, NEW set
  PROVE  Run(text, i, set) \in Nat /\ (Run(text, i, set) = 0 \/ i + Run(text, i, set) <= Len(text) + 1)
<1> DEFINE S == {0} \cup {n \in 1..(Len(text) - i + 1) : \A j \in 0..(n - 1) : text[i + j] \in set}
           K == Len(text)
<1>1. S \subseteq 0..K /\ S # {} /\ K \in Nat
  OBVIOUS
<1>2. Run(text, i, set) = Max(S)
  BY DEF Run
<1>3. \A n \in S : n \in Nat /\ (n = 0 \/ i + n <= K + 1)
  OBVIOUS
<1> HIDE DEF S
<1>4. Max(S) \in S
  BY <1>1, GreatestIs
<1> QED
  BY <1>2, <1>3, <1>4

LEMMA ReplacedText ==
  ASSUME NEW S, NEW text \in Seq(S), NEW length, Fits(text, length), NEW by \in S
  PROVE  Replaced(text, length, by) \in Seq(S)
<1>1. Len(text) \in Nat /\ 1 \in 1..(Len(text) + 1)
  OBVIOUS
<1>2. PICK f : Scan(f, text, length, by, 1) /\ Replaced(text, length, by) = f[1]
  BY <1>1, ReplacedScan
<1>3. \A i \in 1..(Len(text) + 1) : f[i] \in Seq(S)
  BY <1>2, ScanText
<1> QED
  BY <1>1, <1>2, <1>3

LEMMA ShapedFits ==
  ASSUME NEW text, Len(text) \in Nat, NEW i \in 1..Len(text)
  PROVE  Shaped(text, i) \in Nat /\ i + Shaped(text, i) <= Len(text) + 1
<1> DEFINE name == Run(text, i + 3, NameLetters)
<1>1. name \in Nat
  BY RunIs
<1>2. Shaped(text, i) = IF At(text, i, Opening) /\ name > 0 /\ At(text, i + 3 + name, Closing) THEN name + 5 ELSE 0
  BY DEF Shaped
<1> HIDE DEF name
<1>3. ASSUME At(text, i + 3 + name, Closing)  PROVE i + (name + 5) <= Len(text) + 1
  <2>1. Len(Closing) = 2
    BY DEF Closing
  <2>2. (i + 3 + name) + 2 - 1 <= Len(text)
    BY <2>1, <1>3 DEF At
  <2> QED
    BY <2>2, <1>1
<1> QED
  BY <1>1, <1>2, <1>3

LEMMA FragmentFits ==
  ASSUME NEW text, Len(text) \in Nat, NEW i \in 1..Len(text)
  PROVE  Fragment(text, i) \in Nat /\ i + Fragment(text, i) <= Len(text) + 1
<1> DEFINE more == Run(text, i + 3, NameLetters \cup {Bar, Mark})
<1>1. more \in Nat /\ (more = 0 \/ (i + 3) + more <= Len(text) + 1)
  BY RunIs
<1>2. Fragment(text, i) = IF At(text, i, Opening) THEN 3 + more ELSE 0
  BY DEF Fragment
<1> HIDE DEF more
<1>3. ASSUME At(text, i, Opening)  PROVE i + 3 <= Len(text) + 1
  <2>1. Len(Opening) = 3
    BY DEF Opening
  <2>2. i + 3 - 1 <= Len(text)
    BY <2>1, <1>3 DEF At
  <2> QED
    BY <2>2
<1> QED
  BY <1>1, <1>2, <1>3

LEMMA NamedText ==
  ASSUME NEW text \in Seq(Showable)
  PROVE  Named(text)[Passes] \in Seq(Showable)
<1> DEFINE G == {k \in 0..Passes : Named(text)[k] \in Seq(Showable)}
<1>0. Passes \in Nat
  BY OrderKnown
<1>1. 0 \in G
  BY <1>0, NamedStep
<1>2. ASSUME NEW k \in 0..(Passes - 1), k \in G  PROVE k + 1 \in G
  <2> DEFINE q == PxOrder[k + 1]
  <2>1. k + 1 \in 1..Passes /\ (k + 1) - 1 = k /\ k + 1 \in 0..Passes
    BY <1>0
  <2>2. q \in PxKnown /\ PxName[q] \in Showable
    <3>1. q \in PxKnown
      BY <2>1, OrderKnown
    <3>2. DOMAIN PxName = PxKnown
      BY PxAssumption
    <3> HIDE DEF q
    <3> QED
      BY <3>1, <3>2 DEF Showable, Range
  <2>3. q \in Seq(Showable)
    <3>1. q \in Seq(Letters)
      BY <2>2, WordText
    <3>2. Letters \subseteq Showable
      BY DEF Showable
    <3> HIDE DEF q
    <3> QED
      BY <3>1, <3>2, SeqMonotonic
  <2>4. Named(text)[k + 1] = WordReplaced(Named(text)[k], q, PxName[q])
    BY <2>1, NamedStep
  <2>5. WordReplaced(Named(text)[k], q, PxName[q]) \in Seq(Showable)
    <3>1. Named(text)[k] \in Seq(Showable)
      BY <1>2
    <3> HIDE DEF q
    <3> QED
      BY <3>1, <2>2, <2>3, WordScanned
  <2> QED
    BY <2>1, <2>4, <2>5
<1>3. \A k \in 0..Passes : k \in G
  <2> HIDE DEF G
  <2> QED
    BY <1>0, <1>1, <1>2, UpTo
<1> QED
  BY <1>0, <1>3

LEMMA DeanonymizedText ==
  ASSUME NEW text \in Seq(Showable)
  PROVE  Deanonymized(text) \in Seq(Showable)
<1> DEFINE n == Named(text)[Passes]
           a == [i \in DOMAIN n |-> Shaped(n, i)]
           s == Replaced(n, a, Redacted)
           b == [i \in DOMAIN s |-> Fragment(s, i)]
<1>1. Deanonymized(text) = Replaced(s, b, Redacted)
  BY DEF Deanonymized, Passes
<1>2. n \in Seq(Showable)
  BY NamedText
<1>3. Redacted \in Showable
  BY DEF Showable
<1> HIDE DEF n
<1>4. s \in Seq(Showable)
  <2>1. DOMAIN n = 1..Len(n) /\ Len(n) \in Nat
    BY <1>2
  <2>2. \A i \in 1..Len(n) : a[i] \in Nat /\ i + a[i] <= Len(n) + 1
    BY <2>1, ShapedFits
  <2>3. Fits(n, a)
    BY <2>2 DEF Fits
  <2> HIDE DEF a
  <2> QED
    BY <2>3, <1>2, <1>3, ReplacedText
<1> HIDE DEF s
<1>5. Replaced(s, b, Redacted) \in Seq(Showable)
  <2>1. DOMAIN s = 1..Len(s) /\ Len(s) \in Nat
    BY <1>4
  <2>2. \A i \in 1..Len(s) : b[i] \in Nat /\ i + b[i] <= Len(s) + 1
    BY <2>1, FragmentFits
  <2>3. Fits(s, b)
    BY <2>2 DEF Fits
  <2> HIDE DEF b
  <2> QED
    BY <2>3, <1>3, <1>4, ReplacedText
<1> QED
  BY <1>1, <1>5

\* What is kept from some place on is an end of the text.
LEMMA EndIs ==
  ASSUME NEW S, NEW s \in Seq(S), NEW c \in 0..Len(s)
  PROVE  IsSuffix(SubSeq(s, c + 1, Len(s)), s)
<1> DEFINE e == SubSeq(s, c + 1, Len(s))
           n == Len(s)
<1>1. n \in Nat /\ c \in Nat /\ c <= n
  OBVIOUS
<1>2. e \in Seq(S) /\ Len(e) = n - c /\ \A i \in 1..(n - c) : e[i] = s[c + i]
  <2>1. c + 1 \in 1..(Len(s) + 1) /\ Len(s) \in ((c + 1) - 1)..Len(s)
    BY <1>1
  <2>2. /\ e \in Seq(S) /\ Len(e) = n - (c + 1) + 1
        /\ \A i \in 1..(n - (c + 1) + 1) : e[i] = s[(c + 1) + i - 1]
    BY <2>1, Slice
  <2> HIDE DEF e, n
  <2>3. n - (c + 1) + 1 = n - c /\ \A i \in 1..(n - c) : (c + 1) + i - 1 = c + i
    BY <1>1
  <2> QED
    BY <2>2, <2>3
<1> HIDE DEF e
<1>3. \A i \in 1..n : s[i] \in S
  BY ElementOfSeq
<1>4. \A i \in 1..(n - c) : e[i] \in S
  BY <1>2, ElementOfSeq
<1> DEFINE x == Reverse(e)
           y == Reverse(s)
<1>5. x \in Seq(S) /\ Len(x) = n - c /\ \A i \in 1..(n - c) : x[i] = e[((n - c) - i) + 1]
  <2>1. x = [i \in 1..(n - c) |-> e[((n - c) - i) + 1]]
    BY <1>2 DEF Reverse
  <2>2. \A i \in 1..(n - c) : ((n - c) - i) + 1 \in 1..(n - c)
    BY <1>1
  <2>3. \A i \in 1..(n - c) : e[((n - c) - i) + 1] \in S
    BY <2>2, <1>4
  <2> HIDE DEF n, x
  <2>4. n - c \in Nat
    BY <1>1
  <2> QED
    BY <2>1, <2>3, <2>4
<1>6. y \in Seq(S) /\ Len(y) = n /\ \A i \in 1..n : y[i] = s[(n - i) + 1]
  <2>1. y = [i \in 1..n |-> s[(n - i) + 1]]
    BY DEF Reverse
  <2>2. \A i \in 1..n : (n - i) + 1 \in 1..n
    BY <1>1
  <2>3. \A i \in 1..n : s[(n - i) + 1] \in S
    BY <2>2, <1>3
  <2> HIDE DEF n, y
  <2> QED
    BY <2>1, <2>3, <1>1
<1> HIDE DEF x, y, n
<1>7. ASSUME NEW i \in 1..(n - c)  PROVE x[i] = y[i]
  <2>1. ((n - c) - i) + 1 \in 1..(n - c) /\ i \in 1..n /\ c + (((n - c) - i) + 1) = (n - i) + 1
    BY <1>1
  <2> QED
    BY <2>1, <1>2, <1>5, <1>6
<1>8. Len(x) <= Len(y) /\ \A i \in 1..Len(x) : x[i] = y[i]
  BY <1>1, <1>5, <1>6, <1>7
<1>9. IsPrefix(x, y)
  BY <1>5, <1>6, <1>8, PrefixIs
<1> QED
  BY <1>9 DEF IsSuffix, x, y, e, n

-----------------------------------------------------------------------------
(***************************************************************************)
(* The answer that was cut.                                                *)
(***************************************************************************)

Held(c) == c \in 0..pxSent /\ pxBuffer = SubSeq(pxAnswer, c + 1, pxSent)

PxTyped ==
    /\ pxStep \in PxSteps
    /\ pxAnswer \in Answers /\ pxSent \in 0..Len(pxAnswer)
    /\ \E c \in Nat : Held(c)
    /\ pxShown \in Seq(Showable)
    /\ pxGone \in BOOLEAN
    /\ pxAudit \subseteq {"request", "response", "failure"}
    /\ pxMemory \in -1..pxSent /\ pxSevered \in BOOLEAN

\* What was shown is whole words, and what is held back begins with a word.
Uncut ==
    \E us, vs \in Seq(Quoted) :
        /\ pxAnswer = FlattenSeq(us) \o FlattenSeq(vs)
        /\ Held(Len(FlattenSeq(us)))
        /\ pxShown = Deanonymized(FlattenSeq(us))

PxIInv ==
    /\ PxTyped
    /\ pxStep \in {"audit", "call", "stream"} /\ Quoting /\ ~pxSevered => Uncut
    /\ pxStep = "done" /\ Quoting /\ ~pxSevered => pxShown = Deanonymized(pxAnswer)

LEMMA QuotedWord ==
  ASSUME NEW w \in PxKnown \cup PxOther, Mark \in Range(w) => w \in PxKnown
  PROVE  w \in Quoted
<1>1. w \in Seq(Symbols)
  BY WordText
<1>2. CASE Mark \in Range(w)
  BY <1>2 DEF Quoted
<1>3. CASE Mark \notin Range(w)
  <2>1. \A j \in 1..Len(w) : w[j] # Mark
    BY <1>1, <1>3 DEF Range
  <2> QED
    BY <2>1, <1>1 DEF Plain, Quoted
<1> QED
  BY <1>2, <1>3

LEMMA QuotingWords ==
  ASSUME Quoting
  PROVE  \E ws \in Seq(Quoted) : pxAnswer = FlattenSeq(ws)
<1>1. PICK ws \in Words :
         pxAnswer = FlattenSeq(ws) /\ \A i \in DOMAIN ws : Mark \in Range(ws[i]) => ws[i] \in PxKnown
  BY DEF Quoting
<1>2. ws \in Seq(PxKnown \cup PxOther)
  BY WordsText
<1>3. Len(ws) \in Nat /\ DOMAIN ws = 1..Len(ws) /\ ws = [i \in 1..Len(ws) |-> ws[i]]
  BY <1>2
<1>4. ASSUME NEW i \in 1..Len(ws)  PROVE ws[i] \in Quoted
  <2>1. ws[i] \in PxKnown \cup PxOther
    BY <1>2, ElementOfSeq
  <2>2. Mark \in Range(ws[i]) => ws[i] \in PxKnown
    BY <1>1, <1>3
  <2> QED
    BY <2>1, <2>2, QuotedWord
<1>5. [i \in 1..Len(ws) |-> ws[i]] \in Seq(Quoted)
  BY <1>3, <1>4
<1> QED
  BY <1>1, <1>3, <1>5

LEMMA FlatSymbols ==
  ASSUME NEW ws \in Seq(Quoted)
  PROVE  FlattenSeq(ws) \in Seq(Symbols) /\ Len(FlattenSeq(ws)) \in Nat
<1>1. FlattenSeq(ws) \in Seq(Symbols)
  BY FlatEarly DEF Early
<1> QED
  BY <1>1

\* The beginning of what follows a text.
LEMMA AfterFirst ==
  ASSUME NEW S, NEW s \in Seq(S), NEW t \in Seq(S), NEW k \in 0..Len(t), NEW m \in k..Len(t)
  PROVE  SubSeq(s \o t, Len(s) + k + 1, Len(s) + m) = SubSeq(t, k + 1, m)
<1> DEFINE r == s \o t
           n == Len(s)
           a == SubSeq(r, n + k + 1, n + m)
           b == SubSeq(t, k + 1, m)
<1>1. /\ r \in Seq(S) /\ Len(r) = n + Len(t) /\ n \in Nat /\ Len(t) \in Nat
      /\ \A i \in 1..Len(t) : r[n + i] = t[i]
  BY Cat
<1> HIDE DEF r, n
<1>2. m \in Nat /\ k \in Nat /\ k <= m /\ m <= Len(t)
  BY <1>1
<1>3. a \in Seq(S) /\ Len(a) = m - k /\ \A i \in 1..(m - k) : a[i] = r[(n + k + 1) + i - 1]
  <2>1. n + k + 1 \in 1..(Len(r) + 1) /\ n + m \in ((n + k + 1) - 1)..Len(r)
    BY <1>1, <1>2
  <2>2. /\ a \in Seq(S) /\ Len(a) = (n + m) - (n + k + 1) + 1
        /\ \A i \in 1..((n + m) - (n + k + 1) + 1) : a[i] = r[(n + k + 1) + i - 1]
    BY <2>1, <1>1, Slice
  <2>3. (n + m) - (n + k + 1) + 1 = m - k
    BY <1>1, <1>2
  <2> HIDE DEF a
  <2> QED
    BY <2>2, <2>3
<1>4. b \in Seq(S) /\ Len(b) = m - k /\ \A i \in 1..(m - k) : b[i] = t[(k + 1) + i - 1]
  <2>1. k + 1 \in 1..(Len(t) + 1) /\ m \in ((k + 1) - 1)..Len(t)
    BY <1>1, <1>2
  <2>2. /\ b \in Seq(S) /\ Len(b) = m - (k + 1) + 1
        /\ \A i \in 1..(m - (k + 1) + 1) : b[i] = t[(k + 1) + i - 1]
    BY <2>1, <1>1, Slice
  <2>3. m - (k + 1) + 1 = m - k
    BY <1>2
  <2> HIDE DEF b
  <2> QED
    BY <2>2, <2>3
<1> HIDE DEF a, b
<1>5. ASSUME NEW i \in 1..(m - k)  PROVE a[i] = b[i]
  <2>1. (n + k + 1) + i - 1 = n + (k + i) /\ (k + 1) + i - 1 = k + i /\ k + i \in 1..Len(t)
    BY <1>1, <1>2
  <2> QED
    BY <2>1, <1>1, <1>3, <1>4
<1>6. a = b
  BY <1>3, <1>4, <1>5, SeqEqual
<1> QED
  BY <1>6 DEF a, b, r, n

\* A part of a part.
Parted(s, c, e, u) ==
    /\ Len(SubSeq(s, c + 1, e)) = e - c
    /\ SubSeq(SubSeq(s, c + 1, e), 1, u) = SubSeq(s, c + 1, c + u)
    /\ From(SubSeq(s, c + 1, e), u + 1) = SubSeq(s, c + u + 1, e)

LEMMA PartOfPart ==
  ASSUME NEW S, NEW s \in Seq(S), NEW e \in 0..Len(s), NEW c \in 0..e, NEW u \in 0..(e - c)
  PROVE  Parted(s, c, e, u)
<1> DEFINE b == SubSeq(s, c + 1, e)
<1>1. Len(s) \in Nat /\ e \in Nat /\ c \in Nat /\ u \in Nat /\ c + u <= e /\ e <= Len(s)
  OBVIOUS
<1>2. b \in Seq(S) /\ Len(b) = e - c /\ \A i \in 1..(e - c) : b[i] = s[c + i]
  <2>1. c + 1 \in 1..(Len(s) + 1) /\ e \in ((c + 1) - 1)..Len(s)
    BY <1>1
  <2>2. /\ b \in Seq(S) /\ Len(b) = e - (c + 1) + 1
        /\ \A i \in 1..(e - (c + 1) + 1) : b[i] = s[(c + 1) + i - 1]
    BY <2>1, Slice
  <2>3. e - (c + 1) + 1 = e - c /\ \A i \in 1..(e - c) : (c + 1) + i - 1 = c + i
    BY <1>1
  <2> HIDE DEF b
  <2> QED
    BY <2>2, <2>3
<1> HIDE DEF b
<1>3. SubSeq(b, 1, u) = SubSeq(s, c + 1, c + u)
  <2> DEFINE x == SubSeq(b, 1, u)
             y == SubSeq(s, c + 1, c + u)
  <2>1. x \in Seq(S) /\ Len(x) = u /\ \A i \in 1..u : x[i] = b[i]
    <3>1. 1 \in 1..(Len(b) + 1) /\ u \in (1 - 1)..Len(b)
      BY <1>1, <1>2
    <3>2. x \in Seq(S) /\ Len(x) = u - 1 + 1 /\ \A i \in 1..(u - 1 + 1) : x[i] = b[1 + i - 1]
      BY <3>1, <1>2, Slice
    <3> HIDE DEF x
    <3> QED
      BY <3>2, <1>1
  <2>2. y \in Seq(S) /\ Len(y) = u /\ \A i \in 1..u : y[i] = s[c + i]
    <3>1. c + 1 \in 1..(Len(s) + 1) /\ c + u \in ((c + 1) - 1)..Len(s)
      BY <1>1
    <3>2. /\ y \in Seq(S) /\ Len(y) = (c + u) - (c + 1) + 1
          /\ \A i \in 1..((c + u) - (c + 1) + 1) : y[i] = s[(c + 1) + i - 1]
      BY <3>1, Slice
    <3>3. (c + u) - (c + 1) + 1 = u /\ \A i \in 1..u : (c + 1) + i - 1 = c + i
      BY <1>1
    <3> HIDE DEF y
    <3> QED
      BY <3>2, <3>3
  <2> HIDE DEF x, y
  <2>3. \A i \in 1..u : i \in 1..(e - c)
    BY <1>1
  <2>4. x = y
    BY <2>1, <2>2, <2>3, <1>2, SeqEqual
  <2> QED
    BY <2>4 DEF x, y
<1>4. SubSeq(b, u + 1, Len(b)) = SubSeq(s, c + u + 1, e)
  <2> DEFINE x == SubSeq(b, u + 1, Len(b))
             y == SubSeq(s, c + u + 1, e)
             k == e - c - u
  <2>0. k \in Nat /\ k = Len(b) - u /\ Len(b) \in Nat
    BY <1>1, <1>2
  <2> HIDE DEF k
  <2>1. x \in Seq(S) /\ Len(x) = k /\ \A i \in 1..k : x[i] = b[u + i]
    <3>1. u + 1 \in 1..(Len(b) + 1) /\ Len(b) \in ((u + 1) - 1)..Len(b)
      BY <1>1, <2>0
    <3>2. /\ x \in Seq(S) /\ Len(x) = Len(b) - (u + 1) + 1
          /\ \A i \in 1..(Len(b) - (u + 1) + 1) : x[i] = b[(u + 1) + i - 1]
      BY <3>1, <1>2, Slice
    <3>3. Len(b) - (u + 1) + 1 = k /\ \A i \in 1..k : (u + 1) + i - 1 = u + i
      BY <1>1, <2>0
    <3> HIDE DEF x
    <3> QED
      BY <3>2, <3>3
  <2>2. y \in Seq(S) /\ Len(y) = k /\ \A i \in 1..k : y[i] = s[c + (u + i)]
    <3>1. c + u + 1 \in 1..(Len(s) + 1) /\ e \in ((c + u + 1) - 1)..Len(s)
      BY <1>1
    <3>2. /\ y \in Seq(S) /\ Len(y) = e - (c + u + 1) + 1
          /\ \A i \in 1..(e - (c + u + 1) + 1) : y[i] = s[(c + u + 1) + i - 1]
      BY <3>1, Slice
    <3>3. e - (c + u + 1) + 1 = k /\ \A i \in 1..k : (c + u + 1) + i - 1 = c + (u + i)
      BY <1>1, <1>2, <2>0
    <3> HIDE DEF y
    <3> QED
      BY <3>2, <3>3
  <2> HIDE DEF x, y
  <2>3. \A i \in 1..k : u + i \in 1..(e - c)
    BY <1>1, <1>2, <2>0
  <2>4. x = y
    BY <2>1, <2>2, <2>3, <1>2, SeqEqual
  <2> QED
    BY <2>4 DEF x, y
<1> QED
  BY <1>2, <1>3, <1>4 DEF From, Parted, b

LEMMA HereSevers ==
  ASSUME NEW us \in Seq(Quoted), NEW vs \in Seq(Quoted),
         pxAnswer = FlattenSeq(us) \o FlattenSeq(vs),
         NEW m \in 0..Len(FlattenSeq(vs)), SeversHere(FlattenSeq(vs), m)
  PROVE  Severs(Len(FlattenSeq(us)) + m)
<1> DEFINE k == Len(FlattenSeq(us))
           t == FlattenSeq(vs)
<1>1. /\ pxAnswer \in Seq(Symbols) /\ Len(pxAnswer) = k + Len(t) /\ k \in Nat /\ Len(t) \in Nat
      /\ \A i \in 1..Len(t) : pxAnswer[k + i] = t[i]
  BY FlatSymbols, Cat
<1>2. PICK p \in PxKnown, s \in Nat :
         /\ s + Len(p) <= Len(t) /\ \A j \in 1..Len(p) : t[s + j] = p[j]
         /\ \/ Len(p) = MaxLen /\ s + Len(p) = m
            \/ s + Len(p) + 1 = m /\ t[m] = Bar
  BY DEF SeversHere
<1>3. p \in Seq(Symbols) /\ Len(p) \in Nat /\ Len(p) > 5
  BY KnownShape
<1>4. m \in 0..Len(t) /\ s + Len(p) <= Len(t) /\ s \in Nat
  BY <1>2
<1> HIDE DEF k, t
<1>0. PICK i \in Nat : i = k + s + 1
  BY <1>1
<1>5. i \in 1..(k + m) /\ i \in Nat \ {0} /\ m \in Nat
  BY <1>0, <1>1, <1>2, <1>3, <1>4
<1>6. Match(pxAnswer, i, p)
  <2>1. i + Len(p) - 1 <= Len(pxAnswer)
    BY <1>0, <1>1, <1>3, <1>4
  <2>2. ASSUME NEW j \in 1..Len(p)  PROVE pxAnswer[i + j - 1] = p[j]
    <3>0. /\ i = k + s + 1 /\ i \in Nat /\ k \in Nat /\ s \in Nat /\ j \in Nat /\ Len(t) \in Nat
          /\ 1 <= j /\ j <= Len(p) /\ Len(p) \in Nat /\ s + Len(p) <= Len(t)
      BY <1>0, <1>1, <1>3, <1>4
    <3>1. i + j - 1 = k + (s + j) /\ s + j \in 1..Len(t)
      BY <3>0
    <3> QED
      BY <3>1, <1>1, <1>2
  <2> QED
    BY <2>1, <2>2 DEF Match
<1>7. At(pxAnswer, i, p)
  <2> QED
    BY <1>1, <1>3, <1>5, <1>6, AtIs
<1>8. CASE Len(p) = MaxLen /\ s + Len(p) = m
  <2>1. i + Len(p) - 1 = k + m
    <3>1. k \in Nat /\ s \in Nat /\ Len(p) \in Nat /\ s + Len(p) = m
      BY <1>1, <1>3, <1>8
    <3> QED
      BY <3>1, <1>0
  <2>2. Severs(k + m)
    BY <2>1, <1>5, <1>7, <1>8 DEF Severs
  <2> QED
    BY <2>2 DEF k
<1>9. CASE s + Len(p) + 1 = m /\ t[m] = Bar
  <2>1. i + Len(p) = k + m /\ m \in 1..Len(t)
    <3>1. k \in Nat /\ s \in Nat /\ Len(p) \in Nat /\ s + Len(p) + 1 = m
      BY <1>1, <1>3, <1>9
    <3>2. m \in 1..Len(t)
      BY <3>1, <1>1, <1>4
    <3> QED
      BY <3>1, <3>2, <1>0
  <2>2. pxAnswer[k + m] = Bar
    BY <2>1, <1>1, <1>9
  <2>3. Severs(k + m)
    BY <2>1, <2>2, <1>5, <1>7 DEF Severs
  <2> QED
    BY <2>3 DEF k
<1> QED
  BY <1>2, <1>8, <1>9

-----------------------------------------------------------------------------
LEMMA ShowableText == Answers \subseteq Seq(Showable) /\ Answers \subseteq Seq(Symbols)
<1>1. Letters \subseteq Showable
  BY DEF Showable
<1>2. Seq(Letters) \subseteq Seq(Showable)
  BY <1>1, SeqMonotonic
<1> QED
  BY <1>2, AnswerText

LEMMA DeanonymizedNothing == Deanonymized(<<>>) = <<>>
<1>1. <<>> \in Seq(Quoted) /\ Len(<<>>) = 0
  OBVIOUS
<1>2. Deanonymized(<<>>) = Spelled(<<>>)
  BY <1>1, DeanonymizedFlat, FlatEmpty
<1>3. Putting(<<>>, Passes) = <<>>
  <2>1. Passes \in 0..Passes
    BY OrderKnown
  <2>2. Putting(<<>>, Passes) \in Seq(Quoted) /\ Len(Putting(<<>>, Passes)) = 0
    BY <2>1, <1>1, PuttingQuoted
  <2> QED
    BY <2>2, EmptySeq
<1> QED
  BY <1>2, <1>3, FlatEmpty DEF Spelled

LEMMA PxInitIInv == PxInit => PxIInv
<1> SUFFICES ASSUME PxInit  PROVE PxIInv
  OBVIOUS
<1>1. /\ pxStep = "audit" /\ pxAnswer \in Answers /\ pxSent = 0 /\ pxBuffer = <<>> /\ pxShown = <<>>
      /\ pxGone = FALSE /\ pxAudit = {} /\ pxMemory = -1 /\ pxSevered = FALSE
  BY DEF PxInit
<1>2. pxAnswer \in Seq(Symbols)
  BY <1>1, ShowableText
<1>3. Held(0)
  <2>1. SubSeq(pxAnswer, 0 + 1, 0) = <<>>
    BY SubSeqEmpty
  <2> QED
    BY <2>1, <1>1 DEF Held
<1>4. PxTyped
  <2>1. pxSent \in 0..Len(pxAnswer) /\ pxMemory \in -1..pxSent
    BY <1>1, <1>2
  <2>2. pxShown \in Seq(Showable) /\ pxStep \in PxSteps /\ pxGone \in BOOLEAN /\ pxSevered \in BOOLEAN
    <3>1. <<>> \in Seq(Showable) /\ "audit" \in PxSteps
      BY DEF PxSteps
    <3> QED
      BY <3>1, <1>1
  <2>3. pxAudit \subseteq {"request", "response", "failure"} /\ pxAnswer \in Answers
    BY <1>1
  <2>4. \E c \in Nat : Held(c)
    BY <1>3
  <2> QED
    BY <2>1, <2>2, <2>3, <2>4 DEF PxTyped
<1>5. ASSUME Quoting  PROVE Uncut
  <2>1. PICK ws \in Seq(Quoted) : pxAnswer = FlattenSeq(ws)
    BY <1>5, QuotingWords
  <2>2. <<>> \in Seq(Quoted) /\ FlattenSeq(<<>>) = <<>> /\ Len(<<>>) = 0
    BY FlatEmpty
  <2>3. pxAnswer = <<>> \o pxAnswer
    BY <1>2, ConcatEmptySeq
  <2>4. /\ pxAnswer = FlattenSeq(<<>>) \o FlattenSeq(ws)
        /\ Held(Len(FlattenSeq(<<>>)))
        /\ pxShown = Deanonymized(FlattenSeq(<<>>))
    BY <2>1, <2>2, <2>3, <1>1, <1>3, DeanonymizedNothing
  <2> QED
    BY <2>2, <2>4 DEF Uncut
<1> QED
  BY <1>1, <1>4, <1>5 DEF PxIInv

\* What a piece does, with what was held back from c + 1 on.
LEMMA PieceIs ==
  ASSUME PxTyped, NEW c \in Nat, Held(c),
         NEW n \in 0..Len(pxAnswer), NEW finish \in BOOLEAN, PxPiece(n, finish)
  PROVE  LET e == pxSent + n
         IN /\ e \in 0..Len(pxAnswer) /\ e \in Nat /\ c <= e /\ pxSent' = e /\ (finish => e = Len(pxAnswer))
            /\ \E u \in 0..(e - c) :
                  /\ u = IF finish THEN e - c ELSE SafeUpto(SubSeq(pxAnswer, c + 1, e))
                  /\ pxBuffer' = SubSeq(pxAnswer, c + u + 1, e)
                  /\ pxShown' = pxShown \o Deanonymized(SubSeq(pxAnswer, c + 1, c + u))
<1> DEFINE e == pxSent + n
           b == pxBuffer \o SubSeq(pxAnswer, pxSent + 1, e)
           u == IF finish THEN Len(b) ELSE SafeUpto(b)
<1>1. pxAnswer \in Seq(Symbols) /\ pxSent \in 0..Len(pxAnswer) /\ Len(pxAnswer) \in Nat
  BY ShowableText DEF PxTyped
<1>2. c \in 0..pxSent /\ pxBuffer = SubSeq(pxAnswer, c + 1, pxSent)
  BY DEF Held
<1>3. /\ n <= Len(pxAnswer) - pxSent /\ (finish => pxSent + n = Len(pxAnswer)) /\ pxSent' = pxSent + n
      /\ pxShown' = pxShown \o Deanonymized(SubSeq(b, 1, u)) /\ pxBuffer' = From(b, u + 1)
  BY DEF PxPiece
<1>4. e \in 0..Len(pxAnswer) /\ e \in Nat /\ c \in 0..e /\ pxSent \in c..Len(pxAnswer)
  BY <1>1, <1>2, <1>3
<1>5. b = SubSeq(pxAnswer, c + 1, e)
  <2>1. c + 1 \in 1..(Len(pxAnswer) + 1) /\ pxSent \in ((c + 1) - 1)..Len(pxAnswer) /\ e \in pxSent..Len(pxAnswer)
    BY <1>1, <1>2, <1>4
  <2> HIDE DEF e
  <2>2. SubSeq(pxAnswer, c + 1, pxSent) \o SubSeq(pxAnswer, pxSent + 1, e) = SubSeq(pxAnswer, c + 1, e)
    BY <2>1, <1>1, ConcatAdjacentSubSeq
  <2> QED
    BY <2>2, <1>2
<1>6. Len(b) = e - c /\ Len(b) \in Nat
  <2>1. 0 \in 0..(e - c)
    BY <1>4
  <2> HIDE DEF e, b
  <2>2. Parted(pxAnswer, c, e, 0)
    BY <2>1, <1>1, <1>4, PartOfPart
  <2> QED
    BY <2>2, <1>4, <1>5 DEF Parted
<1> HIDE DEF b, e
<1>7. u \in 0..(e - c) /\ u = IF finish THEN e - c ELSE SafeUpto(b)
  BY <1>6, SafeIs
<1> HIDE DEF u
<1>8. SubSeq(b, 1, u) = SubSeq(pxAnswer, c + 1, c + u) /\ From(b, u + 1) = SubSeq(pxAnswer, c + u + 1, e)
  <2>1. Parted(pxAnswer, c, e, u)
    BY <1>1, <1>4, <1>7, PartOfPart
  <2> QED
    BY <2>1, <1>5 DEF Parted
<1>9. /\ u = IF finish THEN e - c ELSE SafeUpto(SubSeq(pxAnswer, c + 1, e))
      /\ pxBuffer' = SubSeq(pxAnswer, c + u + 1, e)
      /\ pxShown' = pxShown \o Deanonymized(SubSeq(pxAnswer, c + 1, c + u))
  <2>1. pxShown' = pxShown \o Deanonymized(SubSeq(b, 1, u)) /\ pxBuffer' = From(b, u + 1)
    BY <1>3 DEF b, u, e
  <2> QED
    BY <2>1, <1>5, <1>7, <1>8
<1>10. c <= e /\ pxSent' = e /\ (finish => e = Len(pxAnswer))
  BY <1>1, <1>2, <1>3, <1>4 DEF e
<1> QED
  BY <1>4, <1>7, <1>9, <1>10 DEF e

LEMMA PieceTyped ==
  ASSUME PxTyped, NEW n \in 0..Len(pxAnswer), NEW finish \in BOOLEAN, PxPiece(n, finish)
  PROVE  PxTyped'
<1>1. PICK c \in Nat : Held(c)
  BY DEF PxTyped
<1>2. PICK e \in Nat : e = pxSent + n
  BY DEF PxTyped
<1>3. /\ e \in 0..Len(pxAnswer) /\ c <= e /\ pxSent' = e
      /\ \E u \in 0..(e - c) :
            /\ pxBuffer' = SubSeq(pxAnswer, c + u + 1, e)
            /\ pxShown' = pxShown \o Deanonymized(SubSeq(pxAnswer, c + 1, c + u))
  BY <1>1, <1>2, PieceIs, Zenon
<1>4. PICK u \in 0..(e - c) :
         /\ pxBuffer' = SubSeq(pxAnswer, c + u + 1, e)
         /\ pxShown' = pxShown \o Deanonymized(SubSeq(pxAnswer, c + 1, c + u))
  BY <1>3
<1>5. /\ pxStep' = pxStep /\ pxAnswer' = pxAnswer /\ pxGone' = pxGone /\ pxAudit' = pxAudit
      /\ pxMemory' = pxMemory /\ pxSevered' = (pxSevered \/ Severs(pxSent + n))
  BY DEF PxPiece, PxUnchanged
<1>6. /\ pxAnswer \in Seq(Showable) /\ pxStep \in PxSteps /\ pxAnswer \in Answers /\ pxShown \in Seq(Showable)
      /\ pxGone \in BOOLEAN /\ pxAudit \subseteq {"request", "response", "failure"}
      /\ pxMemory \in -1..pxSent /\ pxSent \in Nat /\ pxSevered \in BOOLEAN /\ Len(pxAnswer) \in Nat
  BY ShowableText DEF PxTyped
<1>7. \E d \in Nat : Held(d)'
  <2>1. c + u \in Nat /\ c + u \in 0..e
    BY <1>3, <1>2
  <2>2. Held(c + u)'
    BY <2>1, <1>3, <1>4, <1>5 DEF Held
  <2> QED
    BY <2>1, <2>2
<1>8. pxShown' \in Seq(Showable)
  <2> DEFINE x == SubSeq(pxAnswer, c + 1, c + u)
  <2>1. c + 1 \in 1..(Len(pxAnswer) + 1) /\ c + u \in ((c + 1) - 1)..Len(pxAnswer)
    BY <1>3, <1>6
  <2>2. x \in Seq(Showable)
    BY <2>1, <1>6, Slice
  <2> HIDE DEF x
  <2>3. Deanonymized(x) \in Seq(Showable)
    BY <2>2, DeanonymizedText
  <2>4. pxShown' = pxShown \o Deanonymized(x)
    BY <1>4 DEF x
  <2> QED
    BY <2>3, <2>4, <1>6, ConcatProperties
<1>9. pxMemory' \in -1..pxSent' /\ pxSent' \in 0..Len(pxAnswer)
  BY <1>2, <1>3, <1>5, <1>6
<1>10. pxSevered' \in BOOLEAN
  BY <1>5, <1>6 DEF Severs
<1> QED
  BY <1>5, <1>6, <1>7, <1>8, <1>9, <1>10 DEF PxTyped

LEMMA PieceUncut ==
  ASSUME PxTyped, Uncut, NEW n \in 0..Len(pxAnswer), NEW finish \in BOOLEAN, PxPiece(n, finish),
         ~Severs(pxSent + n)
  PROVE  Uncut'
<1>1. PICK us \in Seq(Quoted), vs \in Seq(Quoted) :
         /\ pxAnswer = FlattenSeq(us) \o FlattenSeq(vs)
         /\ Held(Len(FlattenSeq(us)))
         /\ pxShown = Deanonymized(FlattenSeq(us))
  BY DEF Uncut
<1> DEFINE f == FlattenSeq(us)
           t == FlattenSeq(vs)
<1>2. PICK c \in Nat : c = Len(f)
  BY FlatSymbols
<1>3. PICK e \in Nat : e = pxSent + n
  BY DEF PxTyped
<1>4. /\ f \in Seq(Symbols) /\ t \in Seq(Symbols) /\ Len(t) \in Nat
      /\ pxAnswer = f \o t /\ Len(pxAnswer) = c + Len(t) /\ pxAnswer \in Seq(Symbols)
  BY <1>1, <1>2, FlatSymbols, Cat
<1>5. Held(c)
  BY <1>1, <1>2
<1>6. /\ e \in 0..Len(pxAnswer) /\ c <= e /\ pxSent' = e /\ (finish => e = Len(pxAnswer))
      /\ \E u \in 0..(e - c) :
            /\ u = IF finish THEN e - c ELSE SafeUpto(SubSeq(pxAnswer, c + 1, e))
            /\ pxBuffer' = SubSeq(pxAnswer, c + u + 1, e)
            /\ pxShown' = pxShown \o Deanonymized(SubSeq(pxAnswer, c + 1, c + u))
  BY <1>3, <1>5, PieceIs, Zenon
<1>7. PICK u \in 0..(e - c) :
         /\ u = IF finish THEN e - c ELSE SafeUpto(SubSeq(pxAnswer, c + 1, e))
         /\ pxBuffer' = SubSeq(pxAnswer, c + u + 1, e)
         /\ pxShown' = pxShown \o Deanonymized(SubSeq(pxAnswer, c + 1, c + u))
  BY <1>6
<1>8. PICK m \in Nat : m = e - c /\ m \in 0..Len(t) /\ e = c + m
  BY <1>4, <1>6
<1>9. \A k \in 0..Len(t) : SubSeq(pxAnswer, c + 1, c + k) = SubSeq(t, 1, k)
  <2> SUFFICES ASSUME NEW k \in 0..Len(t)  PROVE SubSeq(pxAnswer, c + 1, c + k) = SubSeq(t, 1, k)
    OBVIOUS
  <2>1. 0 \in 0..Len(t) /\ k \in 0..Len(t) /\ c + 0 + 1 = c + 1 /\ 0 + 1 = 1
    BY <1>4
  <2> HIDE DEF f, t
  <2>2. SubSeq(f \o t, Len(f) + 0 + 1, Len(f) + k) = SubSeq(t, 0 + 1, k)
    BY <2>1, <1>4, AfterFirst
  <2> QED
    BY <2>1, <2>2, <1>2, <1>4
<1>10. ~SeversHere(t, m)
  BY <1>1, <1>2, <1>3, <1>8, HereSevers
<1> HIDE DEF f, t
<1>11. Split(t, u)
  <2>1. CASE finish
    <3>1. u = Len(t)
      BY <2>1, <1>4, <1>6, <1>7
    <3>2. <<>> \in Seq(Quoted) /\ FlattenSeq(<<>>) = <<>> /\ t = t \o <<>>
      BY <1>4, FlatEmpty, ConcatEmptySeq
    <3> QED
      BY <3>1, <3>2 DEF Split, t
  <2>2. CASE ~finish
    <3>1. u = SafeUpto(SubSeq(t, 1, m))
      BY <2>2, <1>7, <1>8, <1>9
    <3>2. Split(t, SafeUpto(SubSeq(t, 1, m)))
      BY <1>8, <1>10, SafeSplit DEF t
    <3> QED
      BY <3>1, <3>2
  <2> QED
    BY <2>1, <2>2
<1>12. PICK xs \in Seq(Quoted), ys \in Seq(Quoted) :
          t = FlattenSeq(xs) \o FlattenSeq(ys) /\ Len(FlattenSeq(xs)) = u
  BY <1>11 DEF Split
<1>13. FlattenSeq(xs) \in Seq(Symbols) /\ FlattenSeq(ys) \in Seq(Symbols)
  BY FlatSymbols
<1>14. us \o xs \in Seq(Quoted) /\ FlattenSeq(us \o xs) = f \o FlattenSeq(xs)
  <2>1. us \in Seq(Seq(Symbols)) /\ xs \in Seq(Seq(Symbols))
    BY QuotedText
  <2> QED
    BY <2>1, FlatCat, ConcatProperties DEF f
<1>15. pxAnswer = FlattenSeq(us \o xs) \o FlattenSeq(ys)
  <2> DEFINE x == FlattenSeq(xs)
             y == FlattenSeq(ys)
  <2>1. t = x \o y /\ FlattenSeq(us \o xs) = f \o x
    BY <1>12, <1>14
  <2>0. x \in Seq(Symbols) /\ y \in Seq(Symbols) /\ f \in Seq(Symbols)
    BY <1>4, <1>13
  <2> HIDE DEF x, y
  <2>2. (f \o x) \o y = f \o (x \o y)
    BY <2>0, ConcatAssociative, SMTT(60)
  <2>3. pxAnswer = f \o t
    BY <1>4
  <2> QED
    BY <2>1, <2>2, <2>3 DEF y
<1>16. Len(FlattenSeq(us \o xs)) = c + u
  BY <1>2, <1>4, <1>12, <1>13, <1>14, Cat
<1>17. SubSeq(pxAnswer, c + 1, c + u) = FlattenSeq(xs)
  <2>1. u \in 0..Len(t)
    BY <1>4, <1>6
  <2>2. SubSeq(t, 1, u) = FlattenSeq(xs)
    BY <1>12, <1>13, CatSlices
  <2> QED
    BY <2>1, <2>2, <1>9
<1>18. pxShown' = Deanonymized(FlattenSeq(us \o xs))
  <2>1. pxShown' = Deanonymized(f) \o Deanonymized(FlattenSeq(xs))
    BY <1>1, <1>7, <1>17 DEF f
  <2> QED
    BY <2>1, <1>14, DeanonymizedCat DEF f
<1>19. pxAnswer' = pxAnswer
  BY DEF PxPiece, PxUnchanged
<1>20. Held(Len(FlattenSeq(us \o xs)))'
  <2>1. c + u \in 0..e
    BY <1>6
  <2> QED
    BY <2>1, <1>6, <1>7, <1>16, <1>19 DEF Held
<1> QED
  BY <1>14, <1>15, <1>18, <1>19, <1>20 DEF Uncut

LEMMA EndTyped ==
  ASSUME PxTyped, PxEnd
  PROVE  PxTyped'
<1>1. PICK c \in Nat : Held(c)
  BY DEF PxTyped
<1>2. /\ pxAnswer \in Seq(Showable) /\ pxAnswer \in Answers /\ pxShown \in Seq(Showable)
      /\ pxGone \in BOOLEAN /\ pxAudit \subseteq {"request", "response", "failure"}
      /\ pxSent \in 0..Len(pxAnswer) /\ pxSent \in Nat /\ pxSevered \in BOOLEAN /\ Len(pxAnswer) \in Nat
  BY ShowableText DEF PxTyped
<1>3. /\ pxStep' = "done" /\ pxAnswer' = pxAnswer /\ pxGone' = pxGone /\ pxAudit' = pxAudit \cup {"response"}
      /\ pxMemory' = pxSent /\ pxSevered' = pxSevered /\ pxSent' = pxSent /\ pxBuffer' = <<>>
      /\ pxShown' = pxShown \o Deanonymized(pxBuffer)
  BY DEF PxEnd, PxUnchanged
<1>4. pxBuffer \in Seq(Showable)
  <2>1. c \in 0..pxSent /\ pxBuffer = SubSeq(pxAnswer, c + 1, pxSent)
    BY <1>1 DEF Held
  <2>2. c + 1 \in 1..(Len(pxAnswer) + 1) /\ pxSent \in ((c + 1) - 1)..Len(pxAnswer)
    BY <2>1, <1>2
  <2> QED
    BY <2>1, <2>2, <1>2, Slice
<1>5. pxShown' \in Seq(Showable)
  BY <1>2, <1>3, <1>4, DeanonymizedText, ConcatProperties
<1>6. \E d \in Nat : Held(d)'
  <2>1. SubSeq(pxAnswer, pxSent + 1, pxSent) = <<>>
    <3>1. pxSent + 1 > pxSent
      BY <1>2
    <3> QED
      BY <3>1, <1>2, SubSeqEmpty
  <2>2. pxSent \in 0..pxSent
    BY <1>2
  <2>3. Held(pxSent)'
    BY <2>1, <2>2, <1>3 DEF Held
  <2> QED
    BY <2>3, <1>2, <1>3
<1>7. pxMemory' \in -1..pxSent'
  BY <1>2, <1>3
<1> QED
  BY <1>2, <1>3, <1>5, <1>6, <1>7 DEF PxTyped, PxSteps

LEMMA EndShown ==
  ASSUME PxTyped, Uncut, PxEnd
  PROVE  pxShown' = Deanonymized(pxAnswer)
<1>1. PICK us \in Seq(Quoted), vs \in Seq(Quoted) :
         /\ pxAnswer = FlattenSeq(us) \o FlattenSeq(vs)
         /\ Held(Len(FlattenSeq(us)))
         /\ pxShown = Deanonymized(FlattenSeq(us))
  BY DEF Uncut
<1>2. pxSent = Len(pxAnswer) /\ pxShown' = pxShown \o Deanonymized(pxBuffer)
  BY DEF PxEnd
<1>3. FlattenSeq(us) \in Seq(Symbols) /\ FlattenSeq(vs) \in Seq(Symbols)
  BY FlatSymbols
<1>4. Len(pxAnswer) = Len(FlattenSeq(us)) + Len(FlattenSeq(vs))
  BY <1>1, <1>3, Cat
<1>5. SubSeq(pxAnswer, Len(FlattenSeq(us)) + 1, Len(FlattenSeq(us)) + Len(FlattenSeq(vs))) = FlattenSeq(vs)
  BY <1>1, <1>3, CatSlices
<1>6. pxBuffer = FlattenSeq(vs)
  BY <1>1, <1>2, <1>4, <1>5 DEF Held
<1> QED
  BY <1>1, <1>2, <1>6, DeanonymizedCat

LEMMA PxStepIInv == PxIInv /\ [PxNext]_pxVars => PxIInv'
<1> SUFFICES ASSUME PxIInv, [PxNext]_pxVars  PROVE PxIInv'
  OBVIOUS
<1>1. /\ PxTyped
      /\ pxStep \in {"audit", "call", "stream"} /\ Quoting /\ ~pxSevered => Uncut
      /\ pxStep = "done" /\ Quoting /\ ~pxSevered => pxShown = Deanonymized(pxAnswer)
  BY DEF PxIInv
\* Steps of the request that move no text.
<1> DEFINE Unmoved == UNCHANGED <<pxAnswer, pxSent, pxBuffer, pxShown, pxMemory, pxSevered>>
<1>2. ASSUME Unmoved, pxStep' \in PxSteps, pxGone' \in BOOLEAN,
             pxAudit' \subseteq {"request", "response", "failure"},
             pxStep' # pxStep => pxStep' # "done" /\ pxStep \in {"audit", "call", "stream"}
      PROVE  PxIInv'
  <2>1. \A c : Held(c)' <=> Held(c)
    BY <1>2 DEF Held
  <2>2. PxTyped'
    BY <2>1, <1>1, <1>2 DEF PxTyped
  <2>3. (Quoting' <=> Quoting) /\ pxSevered' = pxSevered /\ (Uncut' <=> Uncut)
    <3>1. Quoting' <=> Quoting
      BY <1>2 DEF Quoting
    <3>2. Uncut' <=> Uncut
      BY <2>1, <1>2 DEF Uncut
    <3> QED
      BY <3>1, <3>2, <1>2
  <2>4. pxStep' \in {"audit", "call", "stream"} /\ Quoting' /\ ~pxSevered' => Uncut'
    BY <2>3, <1>1, <1>2
  <2>5. pxStep' = "done" /\ Quoting' /\ ~pxSevered' => pxShown' = Deanonymized(pxAnswer')
    BY <2>3, <1>1, <1>2
  <2> QED
    BY <2>2, <2>4, <2>5 DEF PxIInv
<1>3. /\ pxStep \in PxSteps /\ pxGone \in BOOLEAN /\ pxAudit \subseteq {"request", "response", "failure"}
  BY <1>1 DEF PxTyped
<1> HIDE DEF Unmoved
<1>4. CASE PxRecord
  <2>1. Unmoved /\ pxStep' \in PxSteps /\ pxStep = "audit" /\ pxStep' # "done" /\ pxGone' = pxGone
        /\ pxAudit' \subseteq {"request", "response", "failure"}
    BY <1>3, <1>4 DEF PxRecord, PxUnchanged, PxSteps, Unmoved
  <2> QED
    BY <2>1, <1>2, <1>3
<1>5. CASE PxCall
  <2>1. Unmoved /\ pxStep' = "stream" /\ pxStep = "call" /\ pxGone' = pxGone /\ pxAudit' = pxAudit
    BY <1>5 DEF PxCall, PxUnchanged, Unmoved
  <2> QED
    BY <2>1, <1>2, <1>3 DEF PxSteps
<1>6. CASE PxDisconnected \/ PxCancelled \/ PxFail
  <2>1. Unmoved /\ pxStep' \in {"left", "failed"} /\ pxStep = "stream" /\ pxGone' = pxGone
        /\ pxAudit' \subseteq {"request", "response", "failure"}
    BY <1>3, <1>6 DEF PxDisconnected, PxCancelled, PxFail, PxUnchanged, Unmoved
  <2> QED
    BY <2>1, <1>2, <1>3 DEF PxSteps
<1>7. CASE PxLeave \/ UNCHANGED pxVars
  <2>1. Unmoved /\ pxStep' = pxStep /\ pxGone' \in BOOLEAN /\ pxAudit' = pxAudit
    BY <1>3, <1>7 DEF PxLeave, pxVars, Unmoved
  <2> QED
    BY <2>1, <1>2, <1>3
<1>8. CASE PxEnd
  <2>1. PxTyped'
    BY <1>1, <1>8, EndTyped
  <2>2. /\ pxStep = "stream" /\ pxStep' = "done" /\ pxAnswer' = pxAnswer /\ pxSevered' = pxSevered
    BY <1>8 DEF PxEnd, PxUnchanged
  <2>3. Quoting' <=> Quoting
    BY <2>2 DEF Quoting
  <2>4. Quoting /\ ~pxSevered => pxShown' = Deanonymized(pxAnswer)
    BY <2>2, <1>1, <1>8, EndShown
  <2> QED
    BY <2>1, <2>2, <2>3, <2>4 DEF PxIInv
<1>9. ASSUME NEW n \in 0..Len(pxAnswer), NEW finish \in BOOLEAN, PxPiece(n, finish)
      PROVE  PxIInv'
  <2>1. PxTyped'
    BY <1>1, <1>9, PieceTyped
  <2>2. /\ pxStep = "stream" /\ pxStep' = "stream" /\ pxAnswer' = pxAnswer
        /\ pxSevered' = (pxSevered \/ Severs(pxSent + n))
    BY <1>9 DEF PxPiece, PxUnchanged
  <2>3. Quoting' <=> Quoting
    BY <2>2 DEF Quoting
  <2>4. ASSUME Quoting', ~pxSevered'  PROVE Uncut'
    <3>1. Uncut /\ ~Severs(pxSent + n)
      BY <2>2, <2>3, <2>4, <1>1
    <3> QED
      BY <3>1, <1>1, <1>9, PieceUncut
  <2> QED
    BY <2>1, <2>2, <2>4 DEF PxIInv
<1> QED
  BY <1>4, <1>5, <1>6, <1>7, <1>8, <1>9 DEF PxNext

LEMMA TypedOK == PxTyped => PxTypeOK
<1> SUFFICES ASSUME PxTyped  PROVE PxTypeOK
  OBVIOUS
<1>1. PICK c \in Nat : Held(c)
  BY DEF PxTyped
<1>2. pxAnswer \in Seq(Symbols) /\ pxSent \in 0..Len(pxAnswer) /\ Len(pxAnswer) \in Nat
  BY ShowableText DEF PxTyped
<1>3. c \in 0..pxSent /\ pxBuffer = SubSeq(pxAnswer, c + 1, pxSent)
  BY <1>1 DEF Held
<1> DEFINE s == SubSeq(pxAnswer, 1, pxSent)
<1>4. s \in Seq(Symbols) /\ Len(s) = pxSent
  <2>1. 1 \in 1..(Len(pxAnswer) + 1) /\ pxSent \in (1 - 1)..Len(pxAnswer)
    BY <1>2
  <2>2. s \in Seq(Symbols) /\ Len(s) = pxSent - 1 + 1
    BY <2>1, <1>2, Slice
  <2> HIDE DEF s
  <2> QED
    BY <2>2, <1>2
<1>5. pxBuffer = SubSeq(s, c + 1, Len(s))
  <2>1. 0 \in 0..pxSent /\ c \in 0..(pxSent - 0)
    BY <1>2, <1>3
  <2>2. Parted(pxAnswer, 0, pxSent, c)
    BY <2>1, <1>2, PartOfPart
  <2>3. From(SubSeq(pxAnswer, 0 + 1, pxSent), c + 1) = SubSeq(pxAnswer, 0 + c + 1, pxSent)
    BY <2>2 DEF Parted
  <2>4. 0 + 1 = 1 /\ 0 + c + 1 = c + 1
    BY <1>3
  <2> QED
    BY <2>3, <2>4, <1>3 DEF From
<1> HIDE DEF s
<1>6. IsSuffix(pxBuffer, s)
  BY <1>3, <1>4, <1>5, EndIs
<1> QED
  BY <1>6 DEF PxTyped, PxTypeOK, Showable, s

\* A request through the agent proxy keeps its types: what is held back is an end of
\* what has arrived, and what was shown is text, names and [REDACTED_SECRET].
THEOREM PxTypeCorrect == PxSpec => []PxTypeOK
<1>1. PxInit => PxIInv
  BY PxInitIInv
<1>2. PxIInv /\ [PxNext]_pxVars => PxIInv'
  BY PxStepIInv
<1>3. PxIInv => PxTypeOK
  BY TypedOK DEF PxIInv
<1> QED
  BY <1>1, <1>2, <1>3, PTL DEF PxSpec

\* However the provider's answer was cut into pieces, the caller of a complete stream
\* has the answer with the names put back, except when a piece severed a
\* placeholder's closing (_agent_proxy_online_stream).
THEOREM NamesRestored == PxSpec => []PxRestored
<1>1. PxInit => PxIInv
  BY PxInitIInv
<1>2. PxIInv /\ [PxNext]_pxVars => PxIInv'
  BY PxStepIInv
<1>3. PxIInv => PxRestored
  BY DEF PxIInv, PxRestored
<1> QED
  BY <1>1, <1>2, <1>3, PTL DEF PxSpec

-----------------------------------------------------------------------------
(***************************************************************************)
(* The services side by side.                                              *)
(***************************************************************************)

\* A step of one leaves the others as they are.
LEMMA ServiceStep ==
  [AllNext]_allVars =>
     /\ [Next]_vars /\ [TxNext]_txVars /\ [MemNext]_memVars /\ [SnapNext]_snapVars
     /\ [PxNext]_pxVars /\ [RateNext]_rateVars /\ [IdxNext]_idxVars /\ [TermNext]_termVars
<1> SUFFICES ASSUME [AllNext]_allVars
             PROVE  /\ [Next]_vars /\ [TxNext]_txVars /\ [MemNext]_memVars /\ [SnapNext]_snapVars
                    /\ [PxNext]_pxVars /\ [RateNext]_rateVars /\ [IdxNext]_idxVars /\ [TermNext]_termVars
  OBVIOUS
<1>1. CASE StatusSteps
  BY <1>1 DEF StatusSteps
<1>2. CASE TransactionSteps
  BY <1>2 DEF TransactionSteps
<1>3. CASE MemorySteps
  BY <1>3 DEF MemorySteps
<1>4. CASE SnapshotSteps
  BY <1>4 DEF SnapshotSteps
<1>5. CASE ProxySteps
  BY <1>5 DEF ProxySteps
<1>6. CASE RateSteps
  BY <1>6 DEF RateSteps
<1>7. CASE IndexSteps
  BY <1>7 DEF IndexSteps
<1>8. CASE TerminalSteps
  BY <1>8 DEF TerminalSteps
<1>9. CASE UNCHANGED allVars
  BY <1>9 DEF allVars
<1> QED
  BY <1>1, <1>2, <1>3, <1>4, <1>5, <1>6, <1>7, <1>8, <1>9 DEF AllNext

\* What the services do together is a behaviour of each: what is proved of one holds here.
LEMMA ServicesApart ==
  AllSpec => /\ Spec /\ TxSpec /\ MemSpec /\ SnapSpec
             /\ PxSpec /\ RateSpec /\ IdxSpec /\ TermSpec
<1>1. AllInit => /\ Init /\ TxInit /\ MemInit /\ SnapInit
                 /\ PxInit /\ RateInit /\ IdxInit /\ TermInit
  BY DEF AllInit
<1> QED
  BY <1>1, ServiceStep, PTL
     DEF AllSpec, Spec, TxSpec, MemSpec, SnapSpec, PxSpec, RateSpec, IdxSpec, TermSpec

\* Every service keeps the types of its state, the bounds of its caches, buckets and
\* journals among them.
THEOREM ServicesTypeCorrect == AllSpec => []ServicesTypeOK
<1>1. TypeOK /\ TxTypeOK /\ MemTypeOK /\ SnapTypeOK /\ PxTypeOK /\ RateTypeOK /\ IdxTypeOK /\ TermTypeOK
        => ServicesTypeOK
  BY DEF ServicesTypeOK
<1>2. Spec => []TypeOK
  BY StatusTypeCorrect
<1> QED
  BY <1>1, <1>2, ServicesApart, TxTypeCorrect, MemTypeCorrect, SnapTypeCorrect,
     PxTypeCorrect, RateTypeCorrect, IdxTypeCorrect, TermTypeCorrect, PTL

=============================================================================
