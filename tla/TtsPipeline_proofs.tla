------------------------- MODULE TtsPipeline_proofs -------------------------
(***************************************************************************)
(* Speech output implements SentencePipeline.                              *)
(*                                                                         *)
(* What a step does to the six places of a sentence is one of three        *)
(* things, and for each of them a lemma over arbitrary sets says that the  *)
(* places stay in order and accounted for, and that the abstract           *)
(* specification takes a step.  The proofs of the actions only have to say *)
(* which of the three it is.                                               *)
(***************************************************************************)
EXTENDS TtsManager_proofs

\* Whoever is further on the way was handed over earlier.
InOrder(P) == \A a, b \in 1 .. 6 : a < b => \A i \in P[a], j \in P[b] : j < i

\* What was handed over is on its way or ended, and not both.
Accounted(P, E, s) ==
    \A i \in Items :
        /\ i <= s <=> (i \in E \/ \E a \in 1 .. 6 : i \in P[a])
        /\ i \in E => \A a \in 1 .. 6 : i \notin P[a]

Good(P, E, s) ==
    /\ s \in Nat /\ E \subseteq Items
    /\ \A a \in 1 .. 6 : P[a] \subseteq Items
    /\ InOrder(P) /\ Accounted(P, E, s)

StageOf(P, E, s) ==
    [i \in Items |->
        IF i > s THEN 0
        ELSE IF i \in E THEN 7
        ELSE IF \E a \in 1 .. 6 : i \in P[a]
               THEN CHOOSE a \in 1 .. 6 : i \in P[a]
               ELSE 8]

LEMMA ItemsAreNumbers == Items \subseteq Nat
BY DEF Items

LEMMA StageAt ==
    ASSUME NEW P, NEW E, NEW s, Good(P, E, s), NEW i \in Items
    PROVE  /\ \A a \in 1 .. 6 : i \in P[a] => StageOf(P, E, s)[i] = a
           /\ i \in E => StageOf(P, E, s)[i] = 7
           /\ i > s => StageOf(P, E, s)[i] = 0
           /\ i > s \/ i \in E \/ \E a \in 1 .. 6 : i \in P[a]
           /\ i > s => i \notin E /\ \A a \in 1 .. 6 : i \notin P[a]
<1>1. s \in Nat /\ i \in Nat
  BY ItemsAreNumbers DEF Good
<1>2. /\ i <= s <=> (i \in E \/ \E a \in 1 .. 6 : i \in P[a])
      /\ i \in E => \A a \in 1 .. 6 : i \notin P[a]
  BY DEF Good, Accounted
<1>3. ASSUME NEW a \in 1 .. 6, NEW b \in 1 .. 6, i \in P[a], i \in P[b]
      PROVE  a = b
  <2>1. ~(i < i)
    BY <1>1
  <2>2. ~(a < b) /\ ~(b < a)
    BY <1>3, <2>1 DEF Good, InOrder
  <2>. QED  BY <2>2
<1>4. ASSUME NEW a \in 1 .. 6, i \in P[a]
      PROVE  StageOf(P, E, s)[i] = a
  <2>1. ~(i > s) /\ i \notin E
    BY <1>1, <1>2, <1>4
  <2>2. StageOf(P, E, s)[i] = CHOOSE b \in 1 .. 6 : i \in P[b]
    BY <1>4, <2>1 DEF StageOf
  <2>3. (CHOOSE b \in 1 .. 6 : i \in P[b]) = a
    BY <1>3, <1>4
  <2>. QED  BY <2>2, <2>3
<1>5. i \in E => StageOf(P, E, s)[i] = 7
  BY <1>1, <1>2 DEF StageOf
<1>6. i > s => StageOf(P, E, s)[i] = 0
  BY DEF StageOf
<1>. QED  BY <1>1, <1>2, <1>4, <1>5, <1>6


-----------------------------------------------------------------------------
(***************************************************************************)
(* What a step may do to the places.                                       *)
(***************************************************************************)
\* A sentence enters the first place.
Entered(P, Q, s, t) ==
    /\ t = s + 1 /\ t \in Items /\ P[1] = {} /\ Q[1] = {t}
    /\ \A a \in 2 .. 6 : Q[a] = P[a]

HandedOver(f, g, t) ==
    /\ f[t] = 0
    /\ \A j \in Items : j < t => f[j] > 1
    /\ g = [f EXCEPT ![t] = 1]

LEMMA Enters ==
    ASSUME NEW P, NEW E, NEW s, NEW Q, NEW t, Good(P, E, s), Entered(P, Q, s, t)
    PROVE  /\ Good(Q, E, t)
           /\ HandedOver(StageOf(P, E, s), StageOf(Q, E, t), t)
<1>0. /\ t = s + 1 /\ t \in Items /\ P[1] = {} /\ Q[1] = {t}
      /\ \A a \in 2 .. 6 : Q[a] = P[a]
  BY DEF Entered
<1>1. s \in Nat /\ Items \subseteq Nat /\ E \subseteq Items /\ t = s + 1 /\ t \in Items
  BY <1>0, ItemsAreNumbers DEF Good
<1>2. \A a \in 1 .. 6 : a = 1 \/ a \in 2 .. 6
  OBVIOUS
<1>3. \A j \in Items : \A a \in 1 .. 6 : j \in P[a] => a \in 2 .. 6 /\ j <= s
  BY <1>0, <1>1, <1>2 DEF Good, Accounted
<1>4. \A a \in 1 .. 6 : P[a] \subseteq Items /\ Q[a] \subseteq Items
  BY <1>0, <1>2 DEF Good
<1>5. InOrder(Q)
  <2>. SUFFICES ASSUME NEW a \in 1 .. 6, NEW b \in 1 .. 6, a < b,
                       NEW i \in Q[a], NEW j \in Q[b]
                PROVE  j < i
    BY DEF InOrder
  <2>1. b \in 2 .. 6 /\ j \in P[b] /\ j \in Items
    BY <1>0, <1>4
  <2>2. CASE a = 1
    BY <1>0, <1>1, <1>3, <2>1, <2>2
  <2>3. CASE a \in 2 .. 6
    BY <1>0, <2>1, <2>3 DEF Good, InOrder
  <2>. QED  BY <1>2, <2>2, <2>3
<1>6. \A i \in Items : (\E a \in 1 .. 6 : i \in Q[a])
                         <=> i = t \/ \E a \in 1 .. 6 : i \in P[a]
  BY <1>0, <1>2
<1>7. Accounted(Q, E, t)
  <2>. SUFFICES ASSUME NEW i \in Items
                PROVE  /\ i <= t <=> (i \in E \/ \E a \in 1 .. 6 : i \in Q[a])
                       /\ i \in E => \A a \in 1 .. 6 : i \notin Q[a]
    BY DEF Accounted
  <2>1. /\ i <= s <=> (i \in E \/ \E a \in 1 .. 6 : i \in P[a])
        /\ i \in E => \A a \in 1 .. 6 : i \notin P[a]
    BY DEF Good, Accounted
  <2>2. i \in Nat /\ (i <= t <=> i <= s \/ i = t)
    BY <1>1
  <2>3. i \in E => i # t
    BY <1>1, <2>1
  <2>. QED  BY <1>6, <2>1, <2>2, <2>3
<1>8. Good(Q, E, t)
  BY <1>1, <1>4, <1>5, <1>7 DEF Good
<1>9. StageOf(P, E, s)[t] = 0
  BY <1>1, StageAt
<1>10. \A j \in Items : j < t => StageOf(P, E, s)[j] > 1
  <2>. SUFFICES ASSUME NEW j \in Items, j < t
                PROVE  StageOf(P, E, s)[j] > 1
    OBVIOUS
  <2>1. ~(j > s)
    BY <1>1
  <2>2. CASE j \in E
    BY <2>2, StageAt
  <2>3. ASSUME NEW a \in 1 .. 6, j \in P[a]
        PROVE  StageOf(P, E, s)[j] > 1
    <3>1. a \in 2 .. 6 /\ StageOf(P, E, s)[j] = a
      BY <1>3, <2>3, StageAt
    <3>. QED  BY <3>1
  <2>. QED  BY <2>1, <2>2, <2>3, StageAt
<1>11. ASSUME NEW i \in Items
       PROVE  StageOf(Q, E, t)[i] = IF i = t THEN 1 ELSE StageOf(P, E, s)[i]
  <2>1. CASE i = t
    <3>1. 1 \in 1 .. 6 /\ i \in Q[1]
      BY <1>0, <2>1
    <3>2. StageOf(Q, E, t)[i] = 1
      BY <1>8, <3>1, StageAt
    <3>. QED  BY <2>1, <3>2
  <2>2. CASE i \in E
    <3>1. i # t
      BY <1>1, <2>2, StageAt
    <3>. QED  BY <1>8, <2>2, <3>1, StageAt
  <2>3. CASE i > s /\ i # t
    <3>1. i > t
      BY <1>1, <2>3
    <3>. QED  BY <1>8, <2>3, <3>1, StageAt
  <2>4. ASSUME NEW a \in 1 .. 6, i \in P[a]
        PROVE  StageOf(Q, E, t)[i] = IF i = t THEN 1 ELSE StageOf(P, E, s)[i]
    <3>1. a \in 2 .. 6 /\ i # t /\ i \in Q[a]
      BY <1>0, <1>1, <1>3, <2>4
    <3>. QED  BY <1>8, <2>4, <3>1, StageAt
  <2>. QED  BY <2>1, <2>2, <2>3, <2>4, StageAt
<1>12. StageOf(Q, E, t) = [StageOf(P, E, s) EXCEPT ![t] = 1]
  BY <1>11 DEF StageOf
<1>. QED  BY <1>8, <1>9, <1>10, <1>12 DEF HandedOver

\* The first of a place goes on to the next one.
LEMMA GoesOn ==
    ASSUME NEW P, NEW E, NEW s, Good(P, E, s), NEW a \in 1 .. 5, NEW i \in P[a],
           \A j \in P[a] : i <= j,
           NEW Q, Q[a] = P[a] \ {i}, Q[a + 1] = P[a + 1] \union {i},
           \A b \in 1 .. 6 : b # a /\ b # a + 1 => Q[b] = P[b]
    PROVE  /\ Good(Q, E, s)
           /\ i \in Items /\ StageOf(P, E, s)[i] = a
           /\ \A j \in Items : j < i => StageOf(P, E, s)[j] > a
           /\ StageOf(Q, E, s) = [StageOf(P, E, s) EXCEPT ![i] = @ + 1]
<1>1. /\ s \in Nat /\ Items \subseteq Nat /\ E \subseteq Items /\ a \in 1 .. 6
      /\ a + 1 \in 1 .. 6
  BY ItemsAreNumbers DEF Good
<1>2. \A b \in 1 .. 6 : P[b] \subseteq Items
  BY DEF Good
<1>3. i \in Items /\ i \in Nat
  BY <1>1, <1>2
<1>4. \A b \in 1 .. 6 : Q[b] \subseteq P[b] \union {i} /\ Q[b] \subseteq Items
  BY <1>1, <1>2, <1>3
<1>5. \A b \in 1 .. 6 : i \in Q[b] <=> b = a + 1
  <2>1. \A b \in 1 .. 6 : i \in P[b] => b = a
    BY <1>1, <1>3, StageAt
  <2>. QED  BY <1>1, <2>1
<1>6. \A b \in 1 .. 6, j \in Items : j # i => (j \in Q[b] <=> j \in P[b])
  BY <1>1
<1>7. InOrder(Q)
  <2>. SUFFICES ASSUME NEW b \in 1 .. 6, NEW d \in 1 .. 6, b < d,
                       NEW j \in Q[b], NEW k \in Q[d]
                PROVE  k < j
    BY DEF InOrder
  <2>1. j \in Items /\ k \in Items
    BY <1>4
  <2>2. CASE j # i /\ k # i
    BY <1>6, <2>1, <2>2 DEF Good, InOrder
  <2>3. CASE j = i
    <3>1. b = a + 1 /\ k # i /\ k \in P[d] /\ a < d
      BY <1>5, <1>6, <2>1, <2>3
    <3>. QED  BY <1>1, <2>3, <3>1 DEF Good, InOrder
  <2>4. CASE k = i /\ j # i
    <3>1. d = a + 1 /\ j \in P[b]
      BY <1>5, <1>6, <2>1, <2>4
    <3>2. CASE b = a
      BY <1>1, <2>1, <2>4, <3>1, <3>2
    <3>3. CASE b < a
      BY <1>1, <2>4, <3>1, <3>3 DEF Good, InOrder
    <3>. QED  BY <3>1, <3>2, <3>3
  <2>. QED  BY <2>2, <2>3, <2>4
<1>8. \A j \in Items : (\E b \in 1 .. 6 : j \in Q[b]) <=> (\E b \in 1 .. 6 : j \in P[b])
  BY <1>1, <1>5, <1>6
<1>9. Accounted(Q, E, s)
  <2>. SUFFICES ASSUME NEW j \in Items
                PROVE  /\ j <= s <=> (j \in E \/ \E b \in 1 .. 6 : j \in Q[b])
                       /\ j \in E => \A b \in 1 .. 6 : j \notin Q[b]
    BY DEF Accounted
  <2>1. /\ j <= s <=> (j \in E \/ \E b \in 1 .. 6 : j \in P[b])
        /\ j \in E => \A b \in 1 .. 6 : j \notin P[b]
    BY DEF Good, Accounted
  <2>. QED  BY <1>8, <2>1
<1>10. Good(Q, E, s)
  BY <1>1, <1>4, <1>7, <1>9 DEF Good
<1>11. StageOf(P, E, s)[i] = a
  BY <1>1, <1>3, StageAt
<1>12. ASSUME NEW j \in Items, j < i
       PROVE  StageOf(P, E, s)[j] > a
  <2>1. i <= s
    BY <1>1, <1>3 DEF Good, Accounted
  <2>2. ~(j > s) /\ j \in Nat
    BY <1>1, <1>3, <1>12, <2>1
  <2>3. CASE j \in E
    BY <2>3, StageAt
  <2>4. ASSUME NEW b \in 1 .. 6, j \in P[b]
        PROVE  StageOf(P, E, s)[j] > a
    <3>1. StageOf(P, E, s)[j] = b
      BY <2>4, StageAt
    <3>2. b # a
      BY <1>3, <1>12, <2>2, <2>4
    <3>3. ~(b < a)
      <4>1. b < a => i < j
        BY <1>1, <2>4 DEF Good, InOrder
      <4>. QED  BY <1>3, <1>12, <2>2, <4>1
    <3>. QED  BY <3>1, <3>2, <3>3
  <2>. QED  BY <2>2, <2>3, <2>4, StageAt
<1>13. ASSUME NEW j \in Items
       PROVE  StageOf(Q, E, s)[j] = IF j = i THEN a + 1 ELSE StageOf(P, E, s)[j]
  <2>1. CASE j = i
    BY <1>1, <1>5, <1>10, <2>1, StageAt
  <2>2. CASE j # i /\ (j \in E \/ j > s)
    BY <1>10, <2>2, StageAt
  <2>3. ASSUME NEW b \in 1 .. 6, j \in P[b], j # i
        PROVE  StageOf(Q, E, s)[j] = StageOf(P, E, s)[j]
    BY <1>6, <1>10, <2>3, StageAt
  <2>. QED  BY <2>1, <2>2, <2>3, StageAt
<1>14. StageOf(Q, E, s) = [StageOf(P, E, s) EXCEPT ![i] = @ + 1]
  <2>1. StageOf(Q, E, s) = [StageOf(P, E, s) EXCEPT ![i] = a + 1]
    BY <1>13 DEF StageOf
  <2>. QED  BY <1>11, <2>1
<1>. QED  BY <1>3, <1>10, <1>11, <1>12, <1>14

\* Sentences leave their places and have ended.
Left(P, Q, E, F, S) ==
    /\ F = E \union S
    /\ \A a \in 1 .. 6 : Q[a] \subseteq P[a]
    /\ S = {i \in Items : \E a \in 1 .. 6 : i \in P[a] /\ i \notin Q[a]}

LEMMA Leave ==
    ASSUME NEW P, NEW E, NEW s, NEW Q, NEW F, NEW S, Good(P, E, s),
           Left(P, Q, E, F, S)
    PROVE  /\ Good(Q, F, s)
           /\ S \in SUBSET Items
           /\ \A i \in S : StageOf(P, E, s)[i] \in 1 .. 6
           /\ StageOf(Q, F, s)
                = [i \in Items |-> IF i \in S THEN 7 ELSE StageOf(P, E, s)[i]]
<1>0. /\ F = E \union S
      /\ \A a \in 1 .. 6 : Q[a] \subseteq P[a]
      /\ S = {i \in Items : \E a \in 1 .. 6 : i \in P[a] /\ i \notin Q[a]}
  BY DEF Left
<1>1. /\ s \in Nat /\ Items \subseteq Nat /\ E \subseteq Items /\ S \subseteq Items
      /\ F = E \union S
  BY <1>0, ItemsAreNumbers DEF Good
<1>2. \A a \in 1 .. 6 : P[a] \subseteq Items /\ Q[a] \subseteq Items
  BY <1>0 DEF Good
<1>3. InOrder(Q)
  BY <1>0 DEF Good, InOrder
<1>4. ASSUME NEW i \in Items, NEW a \in 1 .. 6, NEW b \in 1 .. 6, i \in P[a], i \in P[b]
      PROVE  a = b
  BY <1>4, StageAt
<1>5. \A i \in S, a \in 1 .. 6 : i \notin Q[a]
  BY <1>0, <1>4
<1>6. \A i \in Items : i \notin S => \A a \in 1 .. 6 : i \in Q[a] <=> i \in P[a]
  BY <1>0
<1>7. \A i \in S : \E a \in 1 .. 6 : i \in P[a]
  BY <1>0
<1>8. Accounted(Q, F, s)
  <2>. SUFFICES ASSUME NEW i \in Items
                PROVE  /\ i <= s <=> (i \in F \/ \E a \in 1 .. 6 : i \in Q[a])
                       /\ i \in F => \A a \in 1 .. 6 : i \notin Q[a]
    BY DEF Accounted
  <2>1. /\ i <= s <=> (i \in E \/ \E a \in 1 .. 6 : i \in P[a])
        /\ i \in E => \A a \in 1 .. 6 : i \notin P[a]
    BY DEF Good, Accounted
  <2>. QED  BY <1>1, <1>5, <1>6, <1>7, <2>1
<1>9. Good(Q, F, s)
  BY <1>1, <1>2, <1>3, <1>8 DEF Good
<1>10. \A i \in S : StageOf(P, E, s)[i] \in 1 .. 6
  BY <1>1, <1>7, StageAt
<1>11. ASSUME NEW i \in Items
       PROVE  StageOf(Q, F, s)[i] = IF i \in S THEN 7 ELSE StageOf(P, E, s)[i]
  <2>1. CASE i \in S
    BY <1>1, <1>9, <2>1, StageAt
  <2>2. CASE i \notin S /\ (i \in E \/ i > s)
    BY <1>1, <1>9, <2>2, StageAt
  <2>3. ASSUME NEW a \in 1 .. 6, i \in P[a], i \notin S
        PROVE  StageOf(Q, F, s)[i] = StageOf(P, E, s)[i]
    BY <1>6, <1>9, <2>3, StageAt
  <2>. QED  BY <2>1, <2>2, <2>3, StageAt
<1>12. StageOf(Q, F, s)
         = [i \in Items |-> IF i \in S THEN 7 ELSE StageOf(P, E, s)[i]]
  BY <1>11 DEF StageOf
<1>. QED  BY <1>1, <1>9, <1>10, <1>12

-----------------------------------------------------------------------------
(***************************************************************************)
(* The queues.                                                             *)
(***************************************************************************)
\* The end callbacks in q are those of ever later sentences.
Rises(q) ==
    \A m, n \in 1 .. Len(q) :
        m < n /\ q[m].kind = "send" /\ q[n].kind = "send" => q[m].item < q[n].item

Rising(q) == \A m, n \in 1 .. Len(q) : m < n => q[m] < q[n]

Queued(q) == {q[n] : n \in 1 .. Len(q)}

\* The end callback an element carries, if any.
EndOf(e) == IF e.kind = "send" THEN {e.item} ELSE {}

LEMMA Positions ==
    ASSUME NEW S, NEW q \in Seq(S)
    PROVE  /\ Len(q) \in Nat
           /\ \A e \in S : /\ Append(q, e) \in Seq(S) /\ Len(Append(q, e)) = Len(q) + 1
                           /\ \A n \in 1 .. Len(q) : Append(q, e)[n] = q[n]
                           /\ Append(q, e)[Len(q) + 1] = e
           /\ \A n \in 1 .. Len(q) + 1 : n \in 1 .. Len(q) \/ n = Len(q) + 1
           /\ q # <<>> => /\ Head(q) = q[1] /\ Len(q) >= 1 /\ Len(Tail(q)) = Len(q) - 1
                          /\ Head(q) \in S /\ Tail(q) \in Seq(S)
                          /\ \A n \in 1 .. Len(q) - 1 : Tail(q)[n] = q[n + 1]
<1>1. Len(q) \in Nat
  OBVIOUS
<1>2. ASSUME NEW e \in S
      PROVE  /\ Append(q, e) \in Seq(S) /\ Len(Append(q, e)) = Len(q) + 1
             /\ \A n \in 1 .. Len(q) : Append(q, e)[n] = q[n]
             /\ Append(q, e)[Len(q) + 1] = e
  OBVIOUS
<1>3. \A n \in 1 .. Len(q) + 1 : n \in 1 .. Len(q) \/ n = Len(q) + 1
  BY <1>1
<1>4. ASSUME q # <<>>
      PROVE  /\ Head(q) = q[1] /\ Len(q) >= 1 /\ Len(Tail(q)) = Len(q) - 1
             /\ Head(q) \in S /\ Tail(q) \in Seq(S)
             /\ \A n \in 1 .. Len(q) - 1 : Tail(q)[n] = q[n + 1]
  BY <1>4
<1>. QED  BY <1>1, <1>2, <1>3, <1>4

LEMMA EndsAppended ==
    ASSUME NEW q \in Seq(Elems), NEW e \in Elems
    PROVE  /\ EndsIn(Append(q, e)) = EndsIn(q) \union EndOf(e)
           /\ Rises(q) /\ (\A i \in EndsIn(q), j \in EndOf(e) : i < j)
                => Rises(Append(q, e))
<1>. DEFINE r == Append(q, e)
<1>1. /\ Len(q) \in Nat /\ Len(r) = Len(q) + 1 /\ r[Len(q) + 1] = e
      /\ \A n \in 1 .. Len(q) : r[n] = q[n]
      /\ \A n \in 1 .. Len(q) + 1 : n \in 1 .. Len(q) \/ n = Len(q) + 1
      /\ \A n \in 1 .. Len(q) : n \in 1 .. Len(q) + 1
      /\ Len(q) + 1 \in 1 .. Len(q) + 1
  BY Positions
<1>. HIDE DEF r
<1>2. EndsIn(r) = EndsIn(q) \union EndOf(e)
  <2>1. ASSUME NEW x \in EndsIn(r)
        PROVE  x \in EndsIn(q) \union EndOf(e)
    BY <1>1 DEF EndsIn, EndOf
  <2>2. ASSUME NEW x \in EndsIn(q)
        PROVE  x \in EndsIn(r)
    BY <1>1 DEF EndsIn
  <2>3. ASSUME NEW x \in EndOf(e)
        PROVE  x \in EndsIn(r)
    BY <1>1 DEF EndsIn, EndOf
  <2>. QED  BY <2>1, <2>2, <2>3
<1>3. ASSUME Rises(q), \A i \in EndsIn(q), j \in EndOf(e) : i < j
      PROVE  Rises(r)
  <2>. SUFFICES ASSUME NEW m \in 1 .. Len(r), NEW n \in 1 .. Len(r), m < n,
                       r[m].kind = "send", r[n].kind = "send"
                PROVE  r[m].item < r[n].item
    BY DEF Rises
  <2>1. m \in 1 .. Len(q) /\ r[m] = q[m] /\ q[m].item \in EndsIn(q)
    BY <1>1 DEF EndsIn
  <2>2. CASE n \in 1 .. Len(q)
    BY <1>1, <1>3, <2>1, <2>2 DEF Rises
  <2>3. CASE n = Len(q) + 1
    BY <1>1, <1>3, <2>1, <2>3 DEF EndOf
  <2>. QED  BY <1>1, <2>2, <2>3
<1>. QED  BY <1>2, <1>3 DEF r

LEMMA EndsShortened ==
    ASSUME NEW q \in Seq(Elems), q # <<>>, Rises(q), EndsIn(q) \subseteq Items
    PROVE  /\ EndsIn(Tail(q)) = EndsIn(q) \ EndOf(Head(q))
           /\ EndOf(Head(q)) \subseteq EndsIn(q)
           /\ \A i \in EndOf(Head(q)), j \in EndsIn(q) : i <= j
           /\ Rises(Tail(q))
<1>. DEFINE r == Tail(q)
            e == Head(q)
<1>1. /\ Len(q) \in Nat /\ Len(r) = Len(q) - 1 /\ Len(q) >= 1 /\ e = q[1]
      /\ \A n \in 1 .. Len(q) - 1 : r[n] = q[n + 1]
  BY Positions
<1>. HIDE DEF r, e
<1>2. /\ \A n \in 1 .. Len(r) : n + 1 \in 1 .. Len(q) /\ r[n] = q[n + 1]
      /\ \A n \in 1 .. Len(q) : n = 1 \/ \E m \in 1 .. Len(r) : r[m] = q[n]
      /\ 1 \in 1 .. Len(q)
  <2>1. ASSUME NEW n \in 1 .. Len(r)
        PROVE  n + 1 \in 1 .. Len(q) /\ r[n] = q[n + 1]
    BY <1>1
  <2>2. ASSUME NEW n \in 1 .. Len(q), n # 1
        PROVE  \E m \in 1 .. Len(r) : r[m] = q[n]
    <3>1. n - 1 \in 1 .. Len(r) /\ (n - 1) + 1 = n
      BY <1>1, <2>2
    <3>. QED  BY <2>1, <3>1
  <2>. QED  BY <1>1, <2>1, <2>2
<1>3. EndOf(e) \subseteq EndsIn(q)
  BY <1>1, <1>2 DEF EndOf, EndsIn
<1>4. \A i \in EndOf(e), j \in EndsIn(r) : i < j
  <2>. SUFFICES ASSUME NEW n \in 1 .. Len(r), r[n].kind = "send", e.kind = "send"
                PROVE  e.item < r[n].item
    BY DEF EndOf, EndsIn
  <2>1. 1 < n + 1
    BY <1>1
  <2>. QED  BY <1>1, <1>2, <2>1 DEF Rises
<1>5. EndsIn(r) \subseteq EndsIn(q)
  BY <1>2 DEF EndsIn
<1>6. EndsIn(q) \subseteq EndsIn(r) \union EndOf(e)
  <2>. SUFFICES ASSUME NEW n \in 1 .. Len(q), q[n].kind = "send"
                PROVE  q[n].item \in EndsIn(r) \union EndOf(e)
    BY DEF EndsIn
  <2>1. CASE n = 1
    BY <1>1, <2>1 DEF EndOf
  <2>2. CASE n # 1
    <3>1. PICK m \in 1 .. Len(r) : r[m] = q[n]
      BY <1>2, <2>2
    <3>. QED  BY <3>1 DEF EndsIn
  <2>. QED  BY <2>1, <2>2
<1>7. EndsIn(r) = EndsIn(q) \ EndOf(e)
  <2>1. \A i \in Items : ~(i < i)
    BY ItemsAreNumbers
  <2>. QED  BY <1>3, <1>4, <1>5, <1>6, <2>1
<1>8. \A i \in EndOf(e), j \in EndsIn(q) : i <= j
  <2>1. \A i, j \in EndOf(e) : i = j
    BY DEF EndOf
  <2>2. \A i \in EndOf(e) : i \in Nat
    BY <1>3, ItemsAreNumbers
  <2>3. \A i \in EndOf(e), j \in EndsIn(r) : i < j /\ j \in Nat
    BY <1>4, <1>5, ItemsAreNumbers
  <2>. QED  BY <1>6, <2>1, <2>2, <2>3
<1>9. Rises(r)
  <2>. SUFFICES ASSUME NEW m \in 1 .. Len(r), NEW n \in 1 .. Len(r), m < n,
                       r[m].kind = "send", r[n].kind = "send"
                PROVE  r[m].item < r[n].item
    BY DEF Rises
  <2>1. m + 1 < n + 1
    BY <1>1
  <2>. QED  BY <1>2, <2>1 DEF Rises
<1>. QED  BY <1>3, <1>7, <1>8, <1>9 DEF r, e

LEMMA QueueAppended ==
    ASSUME NEW q \in Seq(Items), NEW i \in Items
    PROVE  /\ Queued(Append(q, i)) = Queued(q) \union {i}
           /\ Rising(q) /\ (\A j \in Queued(q) : j < i) => Rising(Append(q, i))
<1>. DEFINE r == Append(q, i)
<1>1. /\ Len(q) \in Nat /\ Len(r) = Len(q) + 1 /\ r[Len(q) + 1] = i
      /\ \A n \in 1 .. Len(q) : r[n] = q[n]
      /\ \A n \in 1 .. Len(q) + 1 : n \in 1 .. Len(q) \/ n = Len(q) + 1
      /\ \A n \in 1 .. Len(q) : n \in 1 .. Len(q) + 1
      /\ Len(q) + 1 \in 1 .. Len(q) + 1
  BY Positions
<1>. HIDE DEF r
<1>2. Queued(r) \subseteq Queued(q) \union {i}
  BY <1>1 DEF Queued
<1>3. Queued(q) \union {i} \subseteq Queued(r)
  BY <1>1 DEF Queued
<1>4. ASSUME Rising(q), \A j \in Queued(q) : j < i
      PROVE  Rising(r)
  <2>. SUFFICES ASSUME NEW m \in 1 .. Len(r), NEW n \in 1 .. Len(r), m < n
                PROVE  r[m] < r[n]
    BY DEF Rising
  <2>1. m \in 1 .. Len(q) /\ r[m] = q[m] /\ q[m] \in Queued(q)
    BY <1>1 DEF Queued
  <2>2. CASE n \in 1 .. Len(q)
    BY <1>1, <1>4, <2>1, <2>2 DEF Rising
  <2>3. CASE n = Len(q) + 1
    BY <1>1, <1>4, <2>1, <2>3
  <2>. QED  BY <1>1, <2>2, <2>3
<1>. QED  BY <1>2, <1>3, <1>4 DEF r

LEMMA QueueShortened ==
    ASSUME NEW q \in Seq(Items), q # <<>>, Rising(q)
    PROVE  /\ Queued(Tail(q)) = Queued(q) \ {Head(q)}
           /\ Head(q) \in Queued(q) /\ Head(q) \in Items
           /\ \A j \in Queued(q) : Head(q) <= j
           /\ Rising(Tail(q))
<1>. DEFINE r == Tail(q)
            i == Head(q)
<1>1. /\ Len(q) \in Nat /\ Len(r) = Len(q) - 1 /\ Len(q) >= 1 /\ i = q[1] /\ i \in Items
      /\ \A n \in 1 .. Len(q) - 1 : r[n] = q[n + 1]
  BY Positions
<1>0. i \in Nat
  BY <1>1, ItemsAreNumbers
<1>. HIDE DEF r, i
<1>2. /\ \A n \in 1 .. Len(r) : n + 1 \in 1 .. Len(q) /\ r[n] = q[n + 1]
      /\ \A n \in 1 .. Len(q) : n = 1 \/ \E m \in 1 .. Len(r) : r[m] = q[n]
      /\ 1 \in 1 .. Len(q)
  <2>1. ASSUME NEW n \in 1 .. Len(r)
        PROVE  n + 1 \in 1 .. Len(q) /\ r[n] = q[n + 1]
    BY <1>1
  <2>2. ASSUME NEW n \in 1 .. Len(q), n # 1
        PROVE  \E m \in 1 .. Len(r) : r[m] = q[n]
    <3>1. n - 1 \in 1 .. Len(r) /\ (n - 1) + 1 = n
      BY <1>1, <2>2
    <3>. QED  BY <2>1, <3>1
  <2>. QED  BY <1>1, <2>1, <2>2
<1>3. i \in Queued(q)
  BY <1>1, <1>2 DEF Queued
<1>4. \A j \in Queued(r) : i < j
  <2>. SUFFICES ASSUME NEW n \in 1 .. Len(r)
                PROVE  i < r[n]
    BY DEF Queued
  <2>1. 1 < n + 1
    BY <1>1
  <2>. QED  BY <1>1, <1>2, <2>1 DEF Rising
<1>5. Queued(r) \subseteq Queued(q)
  <2>. SUFFICES ASSUME NEW n \in 1 .. Len(r)
                PROVE  r[n] \in Queued(q)
    BY DEF Queued
  <2>. QED  BY <1>2 DEF Queued
<1>6. Queued(q) \subseteq Queued(r) \union {i}
  BY <1>1, <1>2 DEF Queued
<1>7. Queued(r) = Queued(q) \ {i}
  <2>1. ~(i < i)
    BY <1>0
  <2>. QED  BY <1>3, <1>4, <1>5, <1>6, <2>1
<1>8. \A j \in Queued(q) : i <= j
  <2>1. \A j \in Queued(r) : j \in Nat
    <3>1. \A n \in 1 .. Len(q) : q[n] \in Items
      OBVIOUS
    <3>2. \A n \in 1 .. Len(r) : r[n] \in Items
      BY <1>2, <3>1
    <3>. QED  BY <3>2, ItemsAreNumbers DEF Queued
  <2>. QED  BY <1>0, <1>4, <1>6, <2>1
<1>9. Rising(r)
  <2>. SUFFICES ASSUME NEW m \in 1 .. Len(r), NEW n \in 1 .. Len(r), m < n
                PROVE  r[m] < r[n]
    BY DEF Rising
  <2>1. m + 1 < n + 1
    BY <1>1
  <2>. QED  BY <1>2, <2>1 DEF Rising
<1>. QED  BY <1>1, <1>3, <1>7, <1>8, <1>9 DEF r, i

LEMMA EmptyQueues ==
    /\ EndsIn(<<>>) = {} /\ Rises(<<>>)
    /\ Queued(<<>>) = {} /\ Rising(<<>>)
<1>1. 1 .. Len(<<>>) = {}
  OBVIOUS
<1>. QED  BY <1>1 DEF EndsIn, Rises, Queued, Rising

-----------------------------------------------------------------------------
(***************************************************************************)
(* The invariant: the queues, one behind the other, are in order.          *)
(***************************************************************************)
QueuesInv ==
    /\ Rising(ttsQueue) /\ Rises(audioQ) /\ Rises(delayed) /\ Rises(ready)
    /\ cp \in {"pop", "exited"} => citem = 0

OrderInv == Good(Places, ended, seq) /\ QueuesInv

\* The places before and after a step.
LEMMA PlacesAre ==
    /\ Places[1] = (IF tp = "push" THEN {seq} ELSE {})
    /\ Places[2] = Queued(ttsQueue) /\ Places[3] = {citem} \ {0}
    /\ Places[4] = EndsIn(audioQ) /\ Places[5] = EndsIn(delayed)
    /\ Places[6] = EndsIn(ready)
    /\ Places'[1] = (IF tp' = "push" THEN {seq'} ELSE {})
    /\ Places'[2] = Queued(ttsQueue') /\ Places'[3] = {citem'} \ {0}
    /\ Places'[4] = EndsIn(audioQ') /\ Places'[5] = EndsIn(delayed')
    /\ Places'[6] = EndsIn(ready')
BY DEF Places, Queued, EndsIn

\* A place changes only with the variable that holds it.
LEMMA PlacesStay ==
    /\ tp' = tp /\ seq' = seq => Places'[1] = Places[1]
    /\ ttsQueue' = ttsQueue => Places'[2] = Places[2]
    /\ citem' = citem => Places'[3] = Places[3]
    /\ audioQ' = audioQ => Places'[4] = Places[4]
    /\ delayed' = delayed => Places'[5] = Places[5]
    /\ ready' = ready => Places'[6] = Places[6]
BY PlacesAre

LEMMA SixPlaces ==
    /\ \A a \in 1 .. 6 : a = 1 \/ a = 2 \/ a = 3 \/ a = 4 \/ a = 5 \/ a = 6
    /\ \A a \in 1 .. 5 : a = 1 \/ a = 2 \/ a = 3 \/ a = 4 \/ a = 5
    /\ \A a \in 2 .. 6 : a = 2 \/ a = 3 \/ a = 4 \/ a = 5 \/ a = 6
OBVIOUS

LEMMA StageIs ==
    /\ Stage = StageOf(Places, ended, seq)
    /\ Stage' = StageOf(Places', ended', seq')
BY DEF Stage, StageOf

\* The three things a step may do, as steps of the model.
LEMMA StepEnters ==
    ASSUME OrderInv, Entered(Places, Places', seq, seq'), ended' = ended
    PROVE  Good(Places', ended', seq') /\ [Pipeline!Next]_Stage
<1>1. Good(Places, ended, seq)
  BY DEF OrderInv
<1>2. /\ Good(Places', ended, seq')
      /\ HandedOver(StageOf(Places, ended, seq), StageOf(Places', ended, seq'), seq')
  BY <1>1, Enters
<1>3. seq' \in Items
  BY DEF Entered
<1>4. Pipeline!HandOver(seq')
  BY <1>2, StageIs DEF Pipeline!HandOver, HandedOver
<1>. QED  BY <1>2, <1>3, <1>4 DEF Pipeline!Next

LEMMA StepGoesOn ==
    ASSUME OrderInv, NEW a \in 1 .. 5, NEW i \in Places[a],
           \A j \in Places[a] : i <= j,
           Places'[a] = Places[a] \ {i}, Places'[a + 1] = Places[a + 1] \union {i},
           \A b \in 1 .. 6 : b # a /\ b # a + 1 => Places'[b] = Places[b],
           ended' = ended, seq' = seq
    PROVE  Good(Places', ended', seq') /\ [Pipeline!Next]_Stage
<1>1. Good(Places, ended, seq)
  BY DEF OrderInv
<1>2. /\ Good(Places', ended, seq)
      /\ i \in Items /\ StageOf(Places, ended, seq)[i] = a
      /\ \A j \in Items : j < i => StageOf(Places, ended, seq)[j] > a
      /\ StageOf(Places', ended, seq)
           = [StageOf(Places, ended, seq) EXCEPT ![i] = @ + 1]
  BY <1>1, GoesOn
<1>3. Pipeline!Advance(i)
  BY <1>2, StageIs DEF Pipeline!Advance
<1>. QED  BY <1>2, <1>3 DEF Pipeline!Next

LEMMA StepEnds ==
    ASSUME OrderInv, \A a \in 1 .. 6 : Places'[a] \subseteq Places[a],
           ended' = ended \union
               {i \in Items : \E a \in 1 .. 6 : i \in Places[a] /\ i \notin Places'[a]},
           seq' = seq
    PROVE  Good(Places', ended', seq') /\ [Pipeline!Next]_Stage
<1>. DEFINE S == {i \in Items : \E a \in 1 .. 6 : i \in Places[a] /\ i \notin Places'[a]}
<1>1. Good(Places, ended, seq) /\ Left(Places, Places', ended, ended', S)
  BY DEF OrderInv, Left
<1>2. /\ Good(Places', ended', seq)
      /\ S \in SUBSET Items
      /\ \A i \in S : StageOf(Places, ended, seq)[i] \in 1 .. 6
      /\ StageOf(Places', ended', seq)
           = [i \in Items |-> IF i \in S THEN 7 ELSE StageOf(Places, ended, seq)[i]]
  BY <1>1, Leave
<1>3. ended' = ended \union S
  OBVIOUS
<1>. HIDE DEF S
<1>4. Pipeline!End(S)
  BY <1>2, <1>3, StageIs DEF Pipeline!End
<1>. QED  BY <1>2, <1>3, <1>4 DEF Pipeline!Next

\* One sentence ends, from place a.
LEMMA StepEndsIn ==
    ASSUME OrderInv, NEW a \in 1 .. 6, NEW S \in SUBSET Places[a],
           Places'[a] = Places[a] \ S,
           \A b \in 1 .. 6 : b # a => Places'[b] = Places[b],
           ended' = ended \union S, seq' = seq
    PROVE  Good(Places', ended', seq') /\ [Pipeline!Next]_Stage
<1>1. Places[a] \subseteq Items
  BY DEF OrderInv, Good
<1>2. S = {i \in Items : \E b \in 1 .. 6 : i \in Places[b] /\ i \notin Places'[b]}
  BY <1>1
<1>3. \A b \in 1 .. 6 : Places'[b] \subseteq Places[b]
  OBVIOUS
<1>. QED  BY <1>2, <1>3, StepEnds

LEMMA StepKeeps ==
    ASSUME OrderInv, \A a \in 1 .. 6 : Places'[a] = Places[a],
           ended' = ended, seq' = seq
    PROVE  Good(Places', ended', seq') /\ [Pipeline!Next]_Stage
<1>1. \A b \in 1 .. 6 : Places'[b] \subseteq Places[b]
  OBVIOUS
<1>2. ended' = ended \union
          {i \in Items : \E b \in 1 .. 6 : i \in Places[b] /\ i \notin Places'[b]}
  OBVIOUS
<1>. QED  BY <1>1, <1>2, StepEnds

LEMMA OrderStep ==
    ASSUME Good(Places', ended', seq'), QueuesInv'
    PROVE  OrderInv'
BY DEF OrderInv, Good, InOrder, Accounted

-----------------------------------------------------------------------------
(***************************************************************************)
(* The steps.                                                              *)
(***************************************************************************)
\* Most of them leave every sentence where it is.
LEMMA Stays ==
    ASSUME OrderInv, tp # "push", tp' # "push",
           UNCHANGED <<seq, ttsQueue, citem, audioQ, delayed, ready, ended>>,
           cp' \in {"pop", "exited"} => cp \in {"pop", "exited"}
    PROVE  OrderInv' /\ [Pipeline!Next]_Stage
<1>1. \A a \in 1 .. 6 : Places'[a] = Places[a]
  BY PlacesAre, SixPlaces
<1>2. QueuesInv'
  BY DEF OrderInv, QueuesInv
<1>. QED  BY <1>1, <1>2, StepKeeps, OrderStep

LEMMA StaysToo ==
    ASSUME OrderInv,
           UNCHANGED <<tp, seq, ttsQueue, citem, audioQ, delayed, ready, ended>>,
           cp' \in {"pop", "exited"} => cp \in {"pop", "exited"}
    PROVE  OrderInv' /\ [Pipeline!Next]_Stage
<1>1. \A a \in 1 .. 6 : Places'[a] = Places[a]
  BY PlacesAre, SixPlaces
<1>2. QueuesInv'
  BY DEF OrderInv, QueuesInv
<1>. QED  BY <1>1, <1>2, StepKeeps, OrderStep

\* Elements without an end callback come and go unnoticed.
LEMMA Plain ==
    ASSUME OrderInv, audioQ \in Seq(Elems), NEW e \in Elems, e.kind # "send",
           audioQ' = Append(audioQ, e),
           tp = "push" => tp' = "push", tp' = "push" => tp = "push",
           UNCHANGED <<seq, ttsQueue, citem, delayed, ready, ended>>,
           cp' \in {"pop", "exited"} => cp \in {"pop", "exited"}
    PROVE  OrderInv' /\ [Pipeline!Next]_Stage
<1>1. EndOf(e) = {}
  BY DEF EndOf
<1>2. EndsIn(audioQ') = EndsIn(audioQ) /\ (Rises(audioQ) => Rises(audioQ'))
  BY <1>1, EndsAppended
<1>3. \A a \in 1 .. 6 : Places'[a] = Places[a]
  BY <1>2, PlacesAre, SixPlaces
<1>4. QueuesInv'
  BY <1>2 DEF OrderInv, QueuesInv
<1>. QED  BY <1>3, <1>4, StepKeeps, OrderStep

LEMMA Typed ==
    ASSUME Types, Inv
    PROVE  /\ audioQ \in Seq(Elems) /\ delayed \in Seq(Elems) /\ ready \in Seq(Elems)
           /\ ttsQueue \in Seq(Items) /\ seq \in Nat
           /\ EndsIn(audioQ) \subseteq Items /\ EndsIn(delayed) \subseteq Items
           /\ EndsIn(ready) \subseteq Items
           /\ cp \notin {"pop", "exited"} => citem \in Items /\ citem # 0
<1>1. audioQ \in Seq(Elems) /\ delayed \in Seq(Elems) /\ ready \in Seq(Elems)
  BY DEF Types, AudioOK
<1>2. cp \notin {"pop", "exited"} => citem \in Items /\ citem # 0
  BY DEF Inv, KnownInv, Items
<1>. QED  BY <1>1, <1>2, SoundEnds DEF Types, QueueOK, SeqOK, Inv, CallbackInv

LEMMA TurnSpeaksOn ==
    ASSUME Types, Inv, OrderInv, TurnSpeaks
    PROVE  OrderInv' /\ [Pipeline!Next]_Stage
<1>1. CASE TurnDone(turn)
  BY <1>1, StaysToo DEF TurnSpeaks, itemVars, consumerVars, delayVars
<1>2. CASE ~TurnDone(turn)
  <2>1. /\ seq' = seq + 1 /\ tp = "speak" /\ tp' = "push"
        /\ UNCHANGED <<ttsQueue, cp, citem, audioQ, delayed, ready, ended>>
    BY <1>2 DEF TurnSpeaks, consumerVars, delayVars
  <2>2. seq + 1 \in Items
    <3>1. Types'
      BY TurnSpeaksInv
    <3>2. seq + 1 \in 0 .. NumTurns * Sentences /\ seq \in Nat
      BY <2>1, <3>1 DEF Types, SeqOK
    <3>. QED  BY <3>2 DEF Items
  <2>3. Entered(Places, Places', seq, seq')
    BY <2>1, <2>2, PlacesAre, SixPlaces DEF Entered
  <2>4. QueuesInv'
    BY <2>1 DEF OrderInv, QueuesInv
  <2>. QED  BY <2>1, <2>3, <2>4, StepEnters, OrderStep
<1>. QED  BY <1>1, <1>2

LEMMA TurnPushesOn ==
    ASSUME Types, Inv, OrderInv, TurnPushes
    PROVE  OrderInv' /\ [Pipeline!Next]_Stage
<1>1. /\ tp = "push" /\ tp' = "speak" /\ seq' = seq /\ seq \in Items
      /\ UNCHANGED <<cp, citem, audioQ, delayed, ready>>
  BY DEF TurnPushes, itemVars, consumerVars, delayVars, Types, SeqOK, Inv, CountInv, Items
<1>2. /\ seq \in Places[1] /\ Places[1] = {seq} /\ Places'[1] = {} /\ 1 \in 1 .. 6
      /\ 2 \in 1 .. 6
  BY <1>1, PlacesAre
<1>3. ttsQueue \in Seq(Items) /\ Rising(ttsQueue)
  BY Typed DEF OrderInv, QueuesInv
<1>4. CASE ttsQueue' = Append(ttsQueue, seq) /\ ended' = ended
  <2>1. \A j \in Queued(ttsQueue) : j < seq
    BY <1>2, PlacesAre DEF OrderInv, Good, InOrder
  <2>2. Queued(ttsQueue') = Queued(ttsQueue) \union {seq} /\ Rising(ttsQueue')
    BY <1>1, <1>3, <1>4, <2>1, QueueAppended
  <2>3. /\ Places'[1] = Places[1] \ {seq} /\ Places'[1 + 1] = Places[1 + 1] \union {seq}
        /\ \A b \in 1 .. 6 : b # 1 /\ b # 1 + 1 => Places'[b] = Places[b]
    BY <1>1, <1>2, <2>2, PlacesAre, SixPlaces
  <2>4. \A j \in Places[1] : seq <= j
    BY <1>2, Typed
  <2>5. QueuesInv'
    BY <1>1, <2>2 DEF OrderInv, QueuesInv
  <2>6. 1 \in 1 .. 5
    OBVIOUS
  <2>. QED  BY <1>1, <1>2, <1>4, <2>3, <2>4, <2>5, <2>6, StepGoesOn, OrderStep
<1>5. CASE ttsQueue' = ttsQueue /\ ended' = ended \union {seq}
  <2>1. /\ Places'[1] = Places[1] \ {seq} /\ {seq} \in SUBSET Places[1]
        /\ \A b \in 1 .. 6 : b # 1 => Places'[b] = Places[b]
    BY <1>1, <1>2, <1>5, PlacesAre, SixPlaces
  <2>2. QueuesInv'
    BY <1>1, <1>5 DEF OrderInv, QueuesInv
  <2>. QED  BY <1>1, <1>2, <1>5, <2>1, <2>2, StepEndsIn, OrderStep
<1>. QED  BY <1>4, <1>5 DEF TurnPushes

LEMMA ConsumerEndsOn ==
    ASSUME Types, Inv, OrderInv, cp \notin {"pop", "exited"}, ConsumerEnds(citem),
           UNCHANGED <<tp, seq, ttsQueue, audioQ, delayed, ready>>
    PROVE  OrderInv' /\ [Pipeline!Next]_Stage
<1>1. citem \in Items /\ citem # 0 /\ ended' = ended \union {citem} /\ citem' = 0
  BY Typed DEF ConsumerEnds
<1>2. 3 \in 1 .. 6 /\ Places[3] = {citem} /\ Places'[3] = {}
  BY <1>1, PlacesAre
<1>3. /\ Places'[3] = Places[3] \ {citem} /\ {citem} \in SUBSET Places[3]
      /\ \A b \in 1 .. 6 : b # 3 => Places'[b] = Places[b]
  BY <1>2, PlacesAre, SixPlaces
<1>4. QueuesInv'
  BY <1>1 DEF OrderInv, QueuesInv
<1>. QED  BY <1>1, <1>2, <1>3, <1>4, StepEndsIn, OrderStep

LEMMA ConsumerPopsOn ==
    ASSUME Types, Inv, OrderInv, ConsumerPops
    PROVE  OrderInv' /\ [Pipeline!Next]_Stage
<1>. DEFINE i == Head(ttsQueue)
<1>1. /\ cp = "pop" /\ ttsQueue # <<>> /\ ttsQueue' = Tail(ttsQueue)
      /\ UNCHANGED <<tp, seq, audioQ, delayed, ready>>
      /\ \/ ended' = ended \union {i} /\ cp' = "pop" /\ citem' = 0
         \/ cp' = "bind" /\ citem' = i /\ ended' = ended
  BY DEF ConsumerPops, ConsumerEnds, turnVars, itemVars, delayVars
<1>2. ttsQueue \in Seq(Items) /\ Rising(ttsQueue) /\ citem = 0
  BY <1>1, Typed DEF OrderInv, QueuesInv
<1>3. /\ Queued(ttsQueue') = Queued(ttsQueue) \ {i} /\ i \in Queued(ttsQueue)
      /\ \A j \in Queued(ttsQueue) : i <= j
      /\ i \in Items /\ Rising(ttsQueue')
  BY <1>1, <1>2, QueueShortened
<1>. HIDE DEF i
<1>4. i # 0
  BY <1>3 DEF Items
<1>5. i \in Places[2] /\ Places'[2] = Places[2] \ {i} /\ Places[3] = {}
  BY <1>2, <1>3, PlacesAre
<1>6. QueuesInv'
  BY <1>1, <1>3 DEF OrderInv, QueuesInv
<1>7. CASE cp' = "bind" /\ citem' = i /\ ended' = ended
  <2>1. /\ Places'[2 + 1] = Places[2 + 1] \union {i}
        /\ \A b \in 1 .. 6 : b # 2 /\ b # 2 + 1 => Places'[b] = Places[b]
    BY <1>1, <1>4, <1>5, <1>7, PlacesAre, SixPlaces
  <2>2. 2 \in 1 .. 5 /\ \A j \in Places[2] : i <= j
    BY <1>3, PlacesAre
  <2>. QED  BY <1>1, <1>5, <1>6, <1>7, <2>1, <2>2, StepGoesOn, OrderStep
<1>8. CASE ended' = ended \union {i} /\ cp' = "pop" /\ citem' = 0
  <2>0. /\ Places'[1] = Places[1] /\ Places'[3] = Places[3]
        /\ Places'[4] = Places[4] /\ Places'[5] = Places[5] /\ Places'[6] = Places[6]
    BY <1>1, <1>2, <1>8, PlacesStay
  <2>1. \A b \in 1 .. 6 : b # 2 => Places'[b] = Places[b]
    BY <2>0, SixPlaces
  <2>2. 2 \in 1 .. 6 /\ {i} \in SUBSET Places[2]
    BY <1>5
  <2>. QED  BY <1>1, <1>5, <1>6, <1>8, <2>1, <2>2, StepEndsIn, OrderStep
<1>. QED  BY <1>1, <1>7, <1>8

LEMMA ConsumerEnqueuesOn ==
    ASSUME Types, Inv, OrderInv, ConsumerEnqueues
    PROVE  OrderInv' /\ [Pipeline!Next]_Stage
<1>. DEFINE e == Elem(cp, itemGen[citem], citem)
<1>1. /\ cp \in {"sstart", "frame", "send"} /\ audioQ' = Append(audioQ, e)
      /\ UNCHANGED <<tp, seq, ttsQueue, delayed, ready, ended>>
      /\ citem' = IF cp = "send" THEN 0 ELSE citem
      /\ cp # "send" => cp' \in {"frame", "send"}
      /\ cp = "send" => cp' = "pop"
  BY DEF ConsumerEnqueues, turnVars, itemVars, delayVars
<1>2. citem \in Items /\ citem # 0 /\ audioQ \in Seq(Elems)
  BY <1>1, Typed
<1>3. e \in Elems /\ e.kind = cp /\ e.item = citem
  BY <1>1, <1>2 DEF Types, ItemOK, Elem, Elems, Kinds
<1>. HIDE DEF e
<1>4. CASE cp # "send"
  BY <1>1, <1>2, <1>3, <1>4, Plain
<1>5. CASE cp = "send"
  <2>1. EndOf(e) = {citem}
    BY <1>3, <1>5 DEF EndOf
  <2>2. citem \in Places[3] /\ Places[3] = {citem} /\ Places'[3] = {}
    BY <1>1, <1>2, <1>5, PlacesAre
  <2>3. \A j \in EndsIn(audioQ) : j < citem
    <3>1. 3 \in 1 .. 6 /\ 4 \in 1 .. 6 /\ 3 < 4
      OBVIOUS
    <3>. QED  BY <2>2, <3>1, PlacesAre DEF OrderInv, Good, InOrder
  <2>4. EndsIn(audioQ') = EndsIn(audioQ) \union {citem} /\ Rises(audioQ')
    BY <1>1, <1>2, <1>3, <2>1, <2>3, EndsAppended DEF OrderInv, QueuesInv
  <2>5. /\ Places'[3] = Places[3] \ {citem}
        /\ Places'[3 + 1] = Places[3 + 1] \union {citem}
        /\ \A b \in 1 .. 6 : b # 3 /\ b # 3 + 1 => Places'[b] = Places[b]
    BY <1>1, <2>2, <2>4, PlacesAre, SixPlaces
  <2>6. 3 \in 1 .. 5 /\ \A j \in Places[3] : citem <= j
    BY <1>2, <2>2, ItemsAreNumbers
  <2>7. QueuesInv'
    BY <1>1, <1>5, <2>4 DEF OrderInv, QueuesInv
  <2>. QED  BY <1>1, <2>2, <2>5, <2>6, <2>7, StepGoesOn, OrderStep
<1>. QED  BY <1>4, <1>5

\* The sentence whose end callback an element carries.
LEMMA OneEnd ==
    ASSUME NEW e \in Elems
    PROVE  /\ EndsIn(<<e>>) = EndOf(e)
           /\ EndOf(e) = {} \/ EndOf(e) = {e.item}
<1>1. /\ Len(<<e>>) = 1 /\ <<e>>[1] = e
      /\ \A n \in 1 .. 1 : n = 1
      /\ 1 \in 1 .. 1
  OBVIOUS
<1>. QED  BY <1>1 DEF EndsIn, EndOf

LEMMA DelayFiresOn ==
    ASSUME Types, Inv, OrderInv, DelayFires
    PROVE  OrderInv' /\ [Pipeline!Next]_Stage
<1>. DEFINE e == Head(delayed)
<1>1. /\ delayed # <<>> /\ delayed' = Tail(delayed)
      /\ UNCHANGED <<tp, seq, ttsQueue, cp, citem, audioQ>>
      /\ \/ ended' = ended \union EndsIn(<<e>>) /\ ready' = ready
         \/ ended' = ended /\ ready' = Append(ready, e)
  BY DEF DelayFires, turnVars, itemVars, consumerVars
<1>2. delayed \in Seq(Elems) /\ ready \in Seq(Elems) /\ e \in Elems
  BY <1>1, Typed, Positions
<1>3. /\ EndsIn(delayed') = EndsIn(delayed) \ EndOf(e)
      /\ EndOf(e) \subseteq EndsIn(delayed)
      /\ \A i \in EndOf(e), j \in EndsIn(delayed) : i <= j
      /\ Rises(delayed')
  BY <1>1, <1>2, Typed, EndsShortened DEF OrderInv, QueuesInv
<1>. HIDE DEF e
<1>4. /\ EndOf(e) \subseteq Places[5] /\ Places'[5] = Places[5] \ EndOf(e)
      /\ \A i \in EndOf(e), j \in Places[5] : i <= j
  BY <1>3, PlacesAre
<1>5. CASE ended' = ended \union EndsIn(<<e>>) /\ ready' = ready
  <2>1. EndsIn(<<e>>) = EndOf(e)
    BY <1>2, OneEnd
  <2>2. /\ Places'[1] = Places[1] /\ Places'[2] = Places[2]
        /\ Places'[3] = Places[3] /\ Places'[4] = Places[4] /\ Places'[6] = Places[6]
    BY <1>1, <1>5, PlacesStay
  <2>3. /\ 5 \in 1 .. 6 /\ EndOf(e) \in SUBSET Places[5]
        /\ \A b \in 1 .. 6 : b # 5 => Places'[b] = Places[b]
    BY <1>4, <2>2, SixPlaces
  <2>4. QueuesInv'
    BY <1>1, <1>3, <1>5 DEF OrderInv, QueuesInv
  <2>. QED  BY <1>1, <1>4, <1>5, <2>1, <2>3, <2>4, StepEndsIn, OrderStep
<1>6. CASE ended' = ended /\ ready' = Append(ready, e)
  <2>1. \A i \in EndsIn(ready), j \in EndOf(e) : i < j
    <3>1. 5 \in 1 .. 6 /\ 6 \in 1 .. 6 /\ 5 < 6
      OBVIOUS
    <3>. QED  BY <1>4, <3>1, PlacesAre DEF OrderInv, Good, InOrder
  <2>2. EndsIn(ready') = EndsIn(ready) \union EndOf(e) /\ Rises(ready')
    BY <1>2, <1>6, <2>1, EndsAppended DEF OrderInv, QueuesInv
  <2>3. QueuesInv'
    BY <1>1, <1>3, <2>2 DEF OrderInv, QueuesInv
  <2>4. /\ Places'[1] = Places[1] /\ Places'[2] = Places[2]
        /\ Places'[3] = Places[3] /\ Places'[4] = Places[4]
        /\ Places'[6] = Places[6] \union EndOf(e)
    <3>1. Places[6] = EndsIn(ready) /\ Places'[6] = EndsIn(ready')
      BY PlacesAre
    <3>. QED  BY <1>1, <1>6, <2>2, <3>1, PlacesStay
  <2>5. CASE EndOf(e) = {}
    <3>1. Places'[5] = Places[5] /\ Places'[6] = Places[6]
      BY <1>4, <2>4, <2>5
    <3>2. \A b \in 1 .. 6 : Places'[b] = Places[b]
      BY <2>4, <3>1, SixPlaces
    <3>. QED  BY <1>1, <1>6, <2>3, <3>2, StepKeeps, OrderStep
  <2>6. CASE EndOf(e) = {e.item}
    <3>1. /\ Places'[5 + 1] = Places[5 + 1] \union {e.item}
          /\ \A b \in 1 .. 6 : b # 5 /\ b # 5 + 1 => Places'[b] = Places[b]
      BY <2>4, <2>6, SixPlaces
    <3>2. /\ 5 \in 1 .. 5 /\ e.item \in Places[5] /\ Places'[5] = Places[5] \ {e.item}
          /\ \A j \in Places[5] : e.item <= j
      BY <1>4, <2>6
    <3>. QED  BY <1>1, <1>6, <2>3, <3>1, <3>2, StepGoesOn, OrderStep
  <2>. QED  BY <1>2, <2>5, <2>6, OneEnd
<1>. QED  BY <1>1, <1>5, <1>6

LEMMA SenderMarksOn ==
    ASSUME Types, Inv, OrderInv, SenderMarks
    PROVE  OrderInv' /\ [Pipeline!Next]_Stage
<1>. DEFINE e == Head(ready)
<1>1. /\ ready # <<>> /\ ready' = Tail(ready) /\ ended' = ended \union EndsIn(<<e>>)
      /\ UNCHANGED <<tp, seq, ttsQueue, cp, citem, audioQ, delayed>>
  BY DEF SenderMarks, turnVars, itemVars, consumerVars
<1>2. ready \in Seq(Elems) /\ e \in Elems
  BY <1>1, Typed, Positions
<1>3. /\ EndsIn(ready') = EndsIn(ready) \ EndOf(e) /\ EndOf(e) \subseteq EndsIn(ready)
      /\ Rises(ready')
  BY <1>1, <1>2, Typed, EndsShortened DEF OrderInv, QueuesInv
<1>4. EndsIn(<<e>>) = EndOf(e)
  BY <1>2, OneEnd
<1>. HIDE DEF e
<1>5. /\ 6 \in 1 .. 6 /\ EndOf(e) \in SUBSET Places[6]
      /\ Places'[6] = Places[6] \ EndOf(e)
  BY <1>3, PlacesAre
<1>6. /\ Places'[1] = Places[1] /\ Places'[2] = Places[2]
      /\ Places'[3] = Places[3] /\ Places'[4] = Places[4] /\ Places'[5] = Places[5]
  BY <1>1, PlacesStay
<1>7. \A b \in 1 .. 6 : b # 6 => Places'[b] = Places[b]
  BY <1>6, SixPlaces
<1>8. QueuesInv'
  BY <1>1, <1>3 DEF OrderInv, QueuesInv
<1>. QED  BY <1>1, <1>4, <1>5, <1>7, <1>8, StepEndsIn, OrderStep

LEMMA SenderTakesOn ==
    ASSUME Types, Inv, OrderInv, SenderTakes
    PROVE  OrderInv' /\ [Pipeline!Next]_Stage
<1>. DEFINE e == Head(audioQ)
<1>1. /\ audioQ # <<>> /\ audioQ' = Tail(audioQ)
      /\ UNCHANGED <<tp, seq, ttsQueue, cp, citem, ready>>
      /\ \/ ended' = ended \union EndsIn(<<e>>) /\ delayed' = delayed
         \/ ended' = ended /\ delayed' = Append(delayed, e)
         \/ ended' = ended /\ delayed' = delayed /\ e.kind # "send"
  BY DEF SenderTakes, turnVars, itemVars, consumerVars
<1>2. audioQ \in Seq(Elems) /\ delayed \in Seq(Elems) /\ e \in Elems
  BY <1>1, Typed, Positions
<1>3. /\ EndsIn(audioQ') = EndsIn(audioQ) \ EndOf(e) /\ EndOf(e) \subseteq EndsIn(audioQ)
      /\ \A i \in EndOf(e), j \in EndsIn(audioQ) : i <= j
      /\ Rises(audioQ')
  BY <1>1, <1>2, Typed, EndsShortened DEF OrderInv, QueuesInv
<1>. HIDE DEF e
<1>4. /\ EndOf(e) \subseteq Places[4] /\ Places'[4] = Places[4] \ EndOf(e)
      /\ \A i \in EndOf(e), j \in Places[4] : i <= j
  BY <1>3, PlacesAre
<1>5. CASE ended' = ended \union EndsIn(<<e>>) /\ delayed' = delayed
  <2>1. EndsIn(<<e>>) = EndOf(e)
    BY <1>2, OneEnd
  <2>2. /\ Places'[1] = Places[1] /\ Places'[2] = Places[2]
        /\ Places'[3] = Places[3] /\ Places'[5] = Places[5] /\ Places'[6] = Places[6]
    BY <1>1, <1>5, PlacesStay
  <2>3. /\ 4 \in 1 .. 6 /\ EndOf(e) \in SUBSET Places[4]
        /\ \A b \in 1 .. 6 : b # 4 => Places'[b] = Places[b]
    BY <1>4, <2>2, SixPlaces
  <2>4. QueuesInv'
    BY <1>1, <1>3, <1>5 DEF OrderInv, QueuesInv
  <2>. QED  BY <1>1, <1>4, <1>5, <2>1, <2>3, <2>4, StepEndsIn, OrderStep
<1>6. CASE ended' = ended /\ delayed' = Append(delayed, e)
  <2>1. \A i \in EndsIn(delayed), j \in EndOf(e) : i < j
    <3>1. 4 \in 1 .. 6 /\ 5 \in 1 .. 6 /\ 4 < 5
      OBVIOUS
    <3>. QED  BY <1>4, <3>1, PlacesAre DEF OrderInv, Good, InOrder
  <2>2. EndsIn(delayed') = EndsIn(delayed) \union EndOf(e) /\ Rises(delayed')
    BY <1>2, <1>6, <2>1, EndsAppended DEF OrderInv, QueuesInv
  <2>3. QueuesInv'
    BY <1>1, <1>3, <2>2 DEF OrderInv, QueuesInv
  <2>4. /\ Places'[1] = Places[1] /\ Places'[2] = Places[2]
        /\ Places'[3] = Places[3] /\ Places'[6] = Places[6]
        /\ Places'[5] = Places[5] \union EndOf(e)
    <3>1. Places[5] = EndsIn(delayed) /\ Places'[5] = EndsIn(delayed')
      BY PlacesAre
    <3>. QED  BY <1>1, <1>6, <2>2, <3>1, PlacesStay
  <2>5. CASE EndOf(e) = {}
    <3>1. Places'[4] = Places[4] /\ Places'[5] = Places[5]
      BY <1>4, <2>4, <2>5
    <3>2. \A b \in 1 .. 6 : Places'[b] = Places[b]
      BY <2>4, <3>1, SixPlaces
    <3>. QED  BY <1>1, <1>6, <2>3, <3>2, StepKeeps, OrderStep
  <2>6. CASE EndOf(e) = {e.item}
    <3>1. /\ Places'[4 + 1] = Places[4 + 1] \union {e.item}
          /\ \A b \in 1 .. 6 : b # 4 /\ b # 4 + 1 => Places'[b] = Places[b]
      BY <2>4, <2>6, SixPlaces
    <3>2. /\ 4 \in 1 .. 5 /\ e.item \in Places[4] /\ Places'[4] = Places[4] \ {e.item}
          /\ \A j \in Places[4] : e.item <= j
      BY <1>4, <2>6
    <3>. QED  BY <1>1, <1>6, <2>3, <3>1, <3>2, StepGoesOn, OrderStep
  <2>. QED  BY <1>2, <2>5, <2>6, OneEnd
<1>7. CASE ended' = ended /\ delayed' = delayed /\ e.kind # "send"
  <2>1. EndOf(e) = {}
    BY <1>7 DEF EndOf
  <2>2. \A b \in 1 .. 6 : Places'[b] = Places[b]
    BY <1>1, <1>4, <1>7, <2>1, PlacesAre, SixPlaces
  <2>3. QueuesInv'
    BY <1>1, <1>3, <1>7 DEF OrderInv, QueuesInv
  <2>. QED  BY <1>1, <1>7, <2>2, <2>3, StepKeeps, OrderStep
<1>. QED  BY <1>1, <1>5, <1>6, <1>7

\* Both drains of the sender: the first and the last of its queues are empty.
LEMMA DrainOutputOn ==
    ASSUME Types, Inv, OrderInv, DrainOutput,
           UNCHANGED <<tp, seq, ttsQueue, cp, citem, delayed>>
    PROVE  OrderInv' /\ [Pipeline!Next]_Stage
<1>1. /\ audioQ' = <<>> /\ ready' = <<>>
      /\ ended' = ended \union EndsIn(audioQ) \union EndsIn(ready)
  BY DEF DrainOutput
<1>2. /\ Places'[4] = {} /\ Places'[6] = {}
      /\ \A b \in 1 .. 6 : b # 4 /\ b # 6 => Places'[b] = Places[b]
  BY <1>1, EmptyQueues, PlacesAre, SixPlaces
<1>3. \A b \in 1 .. 6 : Places'[b] \subseteq Places[b]
  BY <1>2, SixPlaces
<1>4. EndsIn(audioQ) \union EndsIn(ready)
        = {i \in Items : \E b \in 1 .. 6 : i \in Places[b] /\ i \notin Places'[b]}
  <2>1. /\ Places[4] \subseteq Items /\ Places[6] \subseteq Items /\ 4 \in 1 .. 6
        /\ 6 \in 1 .. 6
    BY DEF OrderInv, Good
  <2>2. EndsIn(audioQ) = Places[4] /\ EndsIn(ready) = Places[6]
    BY PlacesAre
  <2>3. Places[4] \union Places[6]
          = {i \in Items : \E b \in 1 .. 6 : i \in Places[b] /\ i \notin Places'[b]}
    BY <1>2, <2>1
  <2>. QED  BY <2>2, <2>3
<1>5. QueuesInv'
  BY <1>1, EmptyQueues DEF OrderInv, QueuesInv
<1>6. ended' = ended \union (EndsIn(audioQ) \union EndsIn(ready))
  BY <1>1
<1>. QED  BY <1>3, <1>4, <1>5, <1>6, StepEnds, OrderStep

LEMMA CallDrainsOn ==
    ASSUME Types, Inv, OrderInv, NEW c \in Calls, CallDrains(c)
    PROVE  OrderInv' /\ [Pipeline!Next]_Stage
<1>1. /\ ttsQueue' = <<>> /\ ended' = ended \union Queued(ttsQueue)
      /\ UNCHANGED <<tp, seq, cp, citem, audioQ, delayed, ready>>
  BY DEF CallDrains, Queued, turnVars, itemVars, consumerVars, delayVars
<1>2. Places[2] = Queued(ttsQueue) /\ Places'[2] = {}
  BY <1>1, EmptyQueues, PlacesAre
<1>3. /\ 2 \in 1 .. 6 /\ Queued(ttsQueue) \in SUBSET Places[2]
      /\ Places'[2] = Places[2] \ Queued(ttsQueue)
  BY <1>2
<1>4. /\ Places'[1] = Places[1] /\ Places'[3] = Places[3]
      /\ Places'[4] = Places[4] /\ Places'[5] = Places[5] /\ Places'[6] = Places[6]
  BY <1>1, PlacesStay
<1>5. \A b \in 1 .. 6 : b # 2 => Places'[b] = Places[b]
  BY <1>4, SixPlaces
<1>6. QueuesInv'
  BY <1>1, EmptyQueues DEF OrderInv, QueuesInv
<1>. QED  BY <1>1, <1>3, <1>5, <1>6, StepEndsIn, OrderStep

-----------------------------------------------------------------------------
(***************************************************************************)
(* Every step.                                                             *)
(***************************************************************************)
LEMMA TurnOn ==
    ASSUME Types, Inv, OrderInv, Turn
    PROVE  OrderInv' /\ [Pipeline!Next]_Stage
<1>. USE DEF turnVars, itemVars, consumerVars, delayVars
<1>1. CASE TurnStarts \/ TurnDrains
  BY <1>1, Stays DEF TurnStarts, TurnDrains
<1>2. ASSUME NEW kind, NEW next, TurnEnqueues(kind, next),
             <<kind, next>> \in {<<"tstart", "speak">>, <<"tstop", "idle">>}
      PROVE  OrderInv' /\ [Pipeline!Next]_Stage
  <2>1. /\ tp # "push" /\ tp' # "push"
        /\ UNCHANGED <<seq, ttsQueue, cp, citem, delayed, ready, ended>>
    BY <1>2 DEF TurnEnqueues
  <2>2. CASE audioQ' = audioQ
    BY <2>1, <2>2, Stays
  <2>3. CASE audioQ' = Append(audioQ, Elem(kind, tgen, 0))
    <3>1. Elem(kind, tgen, 0) \in Elems /\ Elem(kind, tgen, 0).kind # "send"
      BY <1>2 DEF Types, TurnOK, Elem, Elems, Kinds
    <3>. QED  BY <2>1, <2>3, <3>1, Typed, Plain
  <2>. QED  BY <1>2, <2>2, <2>3 DEF TurnEnqueues
<1>3. CASE EnqueueTtsStart
  BY <1>2, <1>3 DEF EnqueueTtsStart
<1>4. CASE EnqueueTtsStop
  BY <1>2, <1>4 DEF EnqueueTtsStop
<1>. QED  BY <1>1, <1>3, <1>4, TurnSpeaksOn, TurnPushesOn DEF Turn

LEMMA ConsumerOn ==
    ASSUME Types, Inv, OrderInv, Consumer
    PROVE  OrderInv' /\ [Pipeline!Next]_Stage
<1>. USE DEF turnVars, itemVars, consumerVars, delayVars
<1>1. CASE ConsumerBinds \/ ConsumerHasNoFrame \/ ConsumerExits
  BY <1>1, StaysToo DEF ConsumerBinds, ConsumerHasNoFrame, ConsumerExits
<1>2. CASE ConsumerWaits
  BY <1>2, StaysToo, ConsumerEndsOn DEF ConsumerWaits
<1>3. CASE ConsumerRechecks
  BY <1>3, StaysToo, ConsumerEndsOn DEF ConsumerRechecks
<1>4. CASE ConsumerGivesUp
  BY <1>4, ConsumerEndsOn DEF ConsumerGivesUp
<1>. QED  BY <1>1, <1>2, <1>3, <1>4, ConsumerPopsOn, ConsumerEnqueuesOn DEF Consumer

LEMMA SenderOn ==
    ASSUME Types, Inv, OrderInv, Sender
    PROVE  OrderInv' /\ [Pipeline!Next]_Stage
<1>. USE DEF turnVars, itemVars, consumerVars, delayVars
<1>1. CASE SenderSends \/ SenderStops \/ SenderExits
  BY <1>1, StaysToo DEF SenderSends, SenderStops, SenderExits
<1>2. CASE SenderInterrupted \/ SenderLeaves
  BY <1>2, DrainOutputOn DEF SenderInterrupted, SenderLeaves
<1>. QED  BY <1>1, <1>2, SenderMarksOn, SenderTakesOn DEF Sender

LEMMA CallOn ==
    ASSUME Types, Inv, OrderInv, NEW c \in Calls,
           Call(c) \/ StopBegins(c) \/ MediaBegins(c) \/ CallTimesOut(c) \/ MediaPlays(c)
    PROVE  OrderInv' /\ [Pipeline!Next]_Stage
<1>. USE DEF turnVars, itemVars, consumerVars, delayVars
<1>1. CASE \/ CallClears(c) \/ CallStores(c) \/ CallRecords(c) \/ CallBumps(c)
           \/ CallRotates(c)
  BY <1>1, StaysToo DEF CallClears, CallStores, CallRecords, CallBumps, CallRotates
<1>2. CASE CallOffers(c) \/ CallReturns(c) \/ CallFinishes(c) \/ MediaEnds(c)
  BY <1>2, StaysToo DEF CallOffers, CallReturns, CallFinishes, MediaEnds
<1>3. CASE StopBegins(c) \/ MediaBegins(c) \/ CallTimesOut(c)
  BY <1>3, StaysToo DEF StopBegins, MediaBegins, CallTimesOut
<1>4. CASE MediaPlays(c)
  <2>1. Elem("media", gen, 0) \in Elems /\ Elem("media", gen, 0).kind # "send"
    BY DEF Types, GenOK, Elem, Elems, Kinds
  <2>2. /\ audioQ' = Append(audioQ, Elem("media", gen, 0))
        /\ UNCHANGED <<tp, seq, ttsQueue, cp, citem, delayed, ready, ended>>
    BY <1>4 DEF MediaPlays
  <2>. QED  BY <2>1, <2>2, Typed, Plain
<1>. QED  BY <1>1, <1>2, <1>3, <1>4, CallDrainsOn DEF Call

LEMMA EveryStep ==
    Types /\ Inv /\ OrderInv /\ [Next]_vars => OrderInv' /\ [Pipeline!Next]_Stage
<1>. SUFFICES ASSUME Types, Inv, OrderInv, [Next]_vars
              PROVE  OrderInv' /\ [Pipeline!Next]_Stage
  OBVIOUS
<1>1. CASE CloseSession \/ UNCHANGED vars
  BY <1>1, StaysToo DEF CloseSession, vars, turnVars, itemVars, consumerVars, delayVars
<1>. QED  BY <1>1, TurnOn, ConsumerOn, DelayFiresOn, SenderOn, CallOn DEF Next

LEMMA FirstStage == Init => OrderInv /\ Pipeline!Init
<1>. SUFFICES ASSUME Init PROVE OrderInv /\ Pipeline!Init
  OBVIOUS
<1>1. /\ seq = 0 /\ ended = {} /\ tp = "idle" /\ citem = 0 /\ cp = "pop"
      /\ ttsQueue = <<>> /\ audioQ = <<>> /\ delayed = <<>> /\ ready = <<>>
  BY DEF Init
<1>2. \A a \in 1 .. 6 : Places[a] = {}
  BY <1>1, EmptyQueues, PlacesAre, SixPlaces
<1>3. \A i \in Items : i > 0 /\ ~(i <= 0)
  BY DEF Items
<1>4. Good(Places, ended, seq)
  BY <1>1, <1>2, <1>3 DEF Good, InOrder, Accounted
<1>5. QueuesInv
  BY <1>1, EmptyQueues DEF QueuesInv
<1>6. Stage = [i \in Items |-> 0]
  BY <1>1, <1>3 DEF Stage
<1>. QED  BY <1>4, <1>5, <1>6 DEF OrderInv, Pipeline!Init

-----------------------------------------------------------------------------
\* Speech output is a SentencePipeline: for any number of turns, sentences and
\* interruptions, of whatever kind and in whatever order, the sentences pushed
\* to ttsQueue keep their order through handleTts, sessionAudioQueue and the
\* delay loop, and the end callback of each one that leaves this way, played,
\* dropped, drained or given up, is called once: waitForTTSTurnDrain does not
\* wait for one that is lost.
THEOREM TtsImplementsPipeline == Spec => PipelineSpec
<1>1. Spec => []OrderInv
  <2>1. Types /\ Inv /\ OrderInv /\ [Next]_vars => OrderInv'
    BY EveryStep
  <2>2. Init => OrderInv
    BY FirstStage
  <2>. QED  BY <2>1, <2>2, AlwaysInv, PTL DEF Spec
<1>2. Init => Pipeline!Init
  BY FirstStage
<1>3. Types /\ Inv /\ OrderInv /\ [Next]_vars => [Pipeline!Next]_Stage
  BY EveryStep
<1>. QED  BY <1>1, <1>2, <1>3, AlwaysInv, PTL DEF Spec, PipelineSpec, Pipeline!Spec

\* Every sentence that has its number is in one place of the pipeline or its
\* end callback has been called, never both; the places are in order.
THEOREM TtsSentencesAccounted ==
    Spec => [](InOrder(Places) /\ Accounted(Places, ended, seq))
<1>1. Spec => []OrderInv
  <2>1. Types /\ Inv /\ OrderInv /\ [Next]_vars => OrderInv'
    BY EveryStep
  <2>2. Init => OrderInv
    BY FirstStage
  <2>. QED  BY <2>1, <2>2, AlwaysInv, PTL DEF Spec
<1>2. OrderInv => InOrder(Places) /\ Accounted(Places, ended, seq)
  BY DEF OrderInv, Good
<1>. QED  BY <1>1, <1>2, PTL
=============================================================================
