---------------------------- MODULE DeliveryProofs ----------------------------
(***************************************************************************)
(* Proofs about Delivery: its types for any number of workers, and, for one*)
(* worker, the order of the first copies and, from it, that the venue works*)
(* on every event of an order once and in order, as EventOrder promises:   *)
(* for any orders, any batches and any faults.                             *)
(*                                                                         *)
(* The argument goes against the flow: nothing is in the topic, or may     *)
(* still be written there, unless everything committed before it began is; *)
(* a batch holds what comes before what it holds; and when a later row of  *)
(* an order exists, the earlier ones have been decided.  With two workers a*)
(* batch does not hold what the other one has, and the order is lost.      *)
(*                                                                         *)
(* At the venue, the inbox holds what stands in a first part of the topic. *)
(* As the first copies are in order, what it knows of an order is always a *)
(* beginning of what was committed of it, so what is new is what is next.  *)
(***************************************************************************)
EXTENDS Delivery, SetSums, SequenceTheorems, TLAPS

\* The deployment runs one instance of the worker.
OneWorker == \A v, w \in Workers : v = w

\* Identifiers are given out in order, and to an order one at a time.
RowsFollow ==
  /\ \A id \in Ids : id > last <=> row[id] = "none"
  /\ \A id, earlier \in Ids :
       earlier < id /\ agg[earlier] = agg[id] /\ row[id] # "none" => row[earlier] # "inserted"

\* What was committed when a row was inserted has a lower identifier, and holds
\* all that was ever committed before it of its order.
PastIsPast ==
  /\ \A id \in Ids : \A earlier \in past[id] :
       earlier \in Ids /\ earlier < id /\ Committed(earlier) /\ row[id] # "none"
  /\ \A id, earlier \in Ids :
       earlier < id /\ agg[earlier] = agg[id] /\ row[id] # "none" /\ Committed(earlier) =>
         earlier \in past[id]

\* What is held, sent, published and late.
WorkIsTrue ==
  /\ \A w \in Workers : \A id \in held[w] : row[id] = "waiting"
  /\ \A w \in Workers : \A id \in sent[w] : id \in held[w] /\ id \in InTopic
  /\ \A id \in Ids : row[id] = "published" => id \in InTopic
  /\ \A id \in InTopic : Committed(id)
  /\ \A id \in late : Committed(id)

\* A batch holds what comes before what it holds.
HeldFromTheFront ==
  \A w \in Workers : \A id \in held[w] : \A earlier \in past[id] :
    row[earlier] = "waiting" => earlier \in held[w]

\* Everything before it is in the topic.
Announced(id) == \A earlier \in past[id] : earlier \in InTopic

LateComesAfter == \A id \in late : Announced(id)

\* First, of any sequence.
FirstIn(q, id) == CHOOSE k \in 1..Len(q) : q[k] = id /\ \A j \in 1..(k - 1) : q[j] # id

FirstsInOrder ==
  \A id \in InTopic : \A earlier \in past[id] :
    earlier \in InTopic /\ FirstIn(topic, earlier) < FirstIn(topic, id)

IInv ==
  /\ TypeOK
  /\ RowsFollow
  /\ PastIsPast
  /\ WorkIsTrue
  /\ HeldFromTheFront
  /\ LateComesAfter
  /\ FirstsInOrder

----------------------------------------------------------------------------
(* Least identifiers and first copies *)

LEMMA LowestIs ==
  ASSUME DeliveryAssumption, NEW ids \in SUBSET Ids, ids # {}
  PROVE  Lowest(ids) \in ids /\ \A other \in ids : Lowest(ids) <= other
<1>1. ids \in SUBSET Nat
  BY DEF Ids
<1>2. \E id \in ids : \A other \in ids : id <= other
  BY <1>1, LeastOf
<1> QED BY <1>2 DEF Lowest

LEMMA FirstInIs ==
  ASSUME NEW q \in Seq(Ids), NEW id, NEW k \in 1..Len(q), q[k] = id
  PROVE  /\ FirstIn(q, id) \in 1..Len(q) /\ q[FirstIn(q, id)] = id
         /\ \A j \in 1..(FirstIn(q, id) - 1) : q[j] # id
<1> DEFINE T == {j \in 1..Len(q) : q[j] = id}
<1>0. Len(q) \in Nat
  BY LenProperties
<1>1. T \in SUBSET Nat /\ k \in T
  OBVIOUS
<1>2. PICK x \in T : \A y \in T : x <= y
  BY <1>1, LeastOf
<1>3. x \in 1..Len(q) /\ q[x] = id
  BY <1>2
<1>4. \A j \in 1..(x - 1) : q[j] # id
  <2> SUFFICES ASSUME NEW j \in 1..(x - 1), q[j] = id PROVE FALSE
    OBVIOUS
  <2>1. j \in Nat /\ x \in Nat /\ j < x /\ j \in 1..Len(q)
    BY <1>0, <1>3
  <2> QED BY <1>2, <2>1
<1> HIDE DEF T
<1> QED BY <1>3, <1>4 DEF FirstIn

LEMMA FirstInIsUnique ==
  ASSUME NEW q \in Seq(Ids), NEW id, NEW k \in 1..Len(q), q[k] = id,
         \A j \in 1..(k - 1) : q[j] # id
  PROVE  FirstIn(q, id) = k
<1> DEFINE f == FirstIn(q, id)
<1>0. Len(q) \in Nat
  BY LenProperties
<1>1. f \in 1..Len(q) /\ q[f] = id /\ \A j \in 1..(f - 1) : q[j] # id
  BY FirstInIs
<1>2. f \in Nat /\ k \in Nat /\ f >= 1 /\ k >= 1
  BY <1>0, <1>1
<1>3. ~(f < k)
  BY <1>1, <1>2
<1>4. ~(k < f)
  BY <1>1, <1>2
<1>5. f = k
  BY <1>2, <1>3, <1>4
<1> QED BY <1>5

\* What is appended comes after every first copy there was.
LEMMA FirstsOfALongerTopic ==
  ASSUME NEW q \in Seq(Ids), NEW e \in Ids
  PROVE  /\ \A id \in {q[k] : k \in 1..Len(q)} :
              FirstIn(Append(q, e), id) = FirstIn(q, id) /\ FirstIn(q, id) \in 1..Len(q)
         /\ e \notin {q[k] : k \in 1..Len(q)} => FirstIn(Append(q, e), e) = Len(q) + 1
<1>1. /\ Append(q, e) \in Seq(Ids) /\ Len(q) \in Nat /\ Len(Append(q, e)) = Len(q) + 1
      /\ \A k \in 1..Len(q) : Append(q, e)[k] = q[k]
      /\ Append(q, e)[Len(q) + 1] = e
  BY AppendProperties, LenProperties
<1>2. ASSUME NEW id \in {q[k] : k \in 1..Len(q)}
      PROVE  FirstIn(Append(q, e), id) = FirstIn(q, id) /\ FirstIn(q, id) \in 1..Len(q)
  <2> DEFINE f == FirstIn(q, id)
  <2>1. f \in 1..Len(q) /\ q[f] = id /\ \A j \in 1..(f - 1) : q[j] # id
    BY <1>2, FirstInIs
  <2>2. f \in 1..Len(Append(q, e)) /\ \A j \in 1..(f - 1) : j \in 1..Len(q)
    BY <1>1, <2>1
  <2>3. Append(q, e)[f] = id /\ \A j \in 1..(f - 1) : Append(q, e)[j] # id
    BY <1>1, <2>1, <2>2
  <2> HIDE DEF f
  <2>4. FirstIn(Append(q, e), id) = f
    BY <1>1, <2>2, <2>3, FirstInIsUnique
  <2> QED BY <2>1, <2>4 DEF f
<1>3. ASSUME e \notin {q[k] : k \in 1..Len(q)}
      PROVE  FirstIn(Append(q, e), e) = Len(q) + 1
  <2>1. Len(q) + 1 \in 1..Len(Append(q, e)) /\ (Len(q) + 1) - 1 = Len(q)
    BY <1>1
  <2>2. \A j \in 1..((Len(q) + 1) - 1) : Append(q, e)[j] # e
    BY <1>1, <1>3, <2>1
  <2> QED BY <1>1, <2>1, <2>2, FirstInIsUnique
<1> QED BY <1>2, <1>3

LEMMA FirstCopies == FirstsInOrder => FirstCopiesInOrder
BY DEF FirstsInOrder, FirstCopiesInOrder, First, FirstIn

----------------------------------------------------------------------------
(* What is picked out of a sequence *)

\* f[i] is what is picked out of the first i places.
Picking(f, q, S, n) ==
  f = [i \in 0..n |-> IF i = 0 THEN <<>>
                      ELSE IF q[i] \in S THEN Append(f[i - 1], q[i]) ELSE f[i - 1]]

PickUp(q, S) == CHOOSE f : Picking(f, q, S, Len(q))

LEMMA PickingExists == ASSUME NEW q, NEW S, NEW n \in Nat PROVE \E f : Picking(f, q, S, n)
<1> DEFINE Bad == {m \in Nat : ~\E f : Picking(f, q, S, m)}
<1>1. SUFFICES ASSUME Bad # {} PROVE FALSE
  OBVIOUS
<1>2. PICK m \in Bad : \A k \in Bad : m <= k
  BY <1>1, LeastOf
<1>3. CASE m = 0
  <2> DEFINE f == [i \in 0..0 |-> <<>>]
  <2>1. Picking(f, q, S, 0)
    BY DEF Picking
  <2> QED BY <1>2, <1>3, <2>1
<1>4. CASE m # 0
  <2>1. m - 1 \in Nat /\ m - 1 \notin Bad
    BY <1>2, <1>4
  <2>2. PICK g : Picking(g, q, S, m - 1)
    BY <2>1
  <2> DEFINE Longer(f) == [i \in 0..m |-> IF i = 0 THEN <<>>
                             ELSE IF q[i] \in S THEN Append(f[i - 1], q[i]) ELSE f[i - 1]]
  <2>3. \A i \in 0..m : i # 0 => Longer(g)[i - 1] = g[i - 1]
    <3> SUFFICES ASSUME NEW i \in 0..m, i # 0 PROVE Longer(g)[i - 1] = g[i - 1]
      OBVIOUS
    <3>1. i - 1 \in 0..m /\ i - 1 \in 0..(m - 1)
      OBVIOUS
    <3>2. g[i - 1] = IF i - 1 = 0 THEN <<>>
                     ELSE IF q[i - 1] \in S THEN Append(g[(i - 1) - 1], q[i - 1])
                                            ELSE g[(i - 1) - 1]
      BY <2>2, <3>1 DEF Picking
    <3> QED BY <3>1, <3>2
  <2>4. Longer(Longer(g)) = Longer(g)
    BY <2>3
  <2>5. Picking(Longer(g), q, S, m)
    BY <2>4 DEF Picking
  <2> QED BY <1>2, <2>5
<1> QED BY <1>3, <1>4

LEMMA PickUpIs ==
  ASSUME NEW q, Len(q) \in Nat, NEW S
  PROVE  /\ PickUp(q, S)[0] = <<>>
         /\ \A i \in 1..Len(q) :
              PickUp(q, S)[i] = IF q[i] \in S THEN Append(PickUp(q, S)[i - 1], q[i])
                                              ELSE PickUp(q, S)[i - 1]
         /\ Picks(q, S) = PickUp(q, S)[Len(q)]
<1> DEFINE f == PickUp(q, S)
<1>1. Picking(f, q, S, Len(q))
  BY PickingExists DEF PickUp
<1>2. Picks(q, S) = f[Len(q)]
  BY DEF Picks, PickUp, Picking
<1> HIDE DEF f
<1>3. \A i \in 0..Len(q) : f[i] = IF i = 0 THEN <<>>
                      ELSE IF q[i] \in S THEN Append(f[i - 1], q[i]) ELSE f[i - 1]
  BY <1>1 DEF Picking
<1>4. f[0] = <<>> /\ \A i \in 1..Len(q) : f[i] = IF q[i] \in S THEN Append(f[i - 1], q[i])
                                                              ELSE f[i - 1]
  BY <1>3
<1> QED BY <1>2, <1>4 DEF f

Alike(q, S, t, T, m) == \A k \in 1..m : q[k] = t[k] /\ (q[k] \in S <=> t[k] \in T)

\* Two sequences and two sets that agree up to a place are picked from alike.
LEMMA PicksAgree ==
  ASSUME NEW q, NEW t, NEW S, NEW T, NEW m \in Nat, Len(q) \in Nat, Len(t) \in Nat,
         m <= Len(q), m <= Len(t), Alike(q, S, t, T, m)
  PROVE  PickUp(q, S)[m] = PickUp(t, T)[m]
<1> DEFINE f == PickUp(q, S)
           g == PickUp(t, T)
           Bad == {k \in Nat : k <= m /\ f[k] # g[k]}
<1>1. SUFFICES ASSUME Bad # {} PROVE FALSE
  OBVIOUS
<1>2. Bad \in SUBSET Nat
  OBVIOUS
<1>3. \A k : k \in Bad <=> k \in Nat /\ k <= m /\ f[k] # g[k]
  OBVIOUS
<1>4. /\ f[0] = <<>> /\ g[0] = <<>>
      /\ \A i \in 1..Len(q) : f[i] = IF q[i] \in S THEN Append(f[i - 1], q[i]) ELSE f[i - 1]
      /\ \A i \in 1..Len(t) : g[i] = IF t[i] \in T THEN Append(g[i - 1], t[i]) ELSE g[i - 1]
  BY PickUpIs
<1> HIDE DEF f, g, Bad
<1>5. PICK k \in Bad : \A j \in Bad : k <= j
  BY <1>1, <1>2, LeastOf
<1>6. k \in 1..m /\ k \in 1..Len(q) /\ k \in 1..Len(t)
  BY <1>3, <1>4, <1>5
<1>7. k - 1 \in Nat /\ k - 1 <= m /\ k - 1 \notin Bad
  BY <1>5, <1>6
<1>8. f[k - 1] = g[k - 1]
  BY <1>3, <1>7
<1>9. f[k] = g[k]
  BY <1>4, <1>6, <1>8 DEF Alike
<1> QED BY <1>3, <1>9

LEMMA SamePicks ==
  ASSUME NEW q, Len(q) \in Nat, NEW S, NEW T, \A k \in 1..Len(q) : q[k] \in S <=> q[k] \in T
  PROVE  Picks(q, S) = Picks(q, T)
<1>1. PickUp(q, S)[Len(q)] = PickUp(q, T)[Len(q)]
  <2> DEFINE m == Len(q)
  <2>1. m \in Nat /\ m <= Len(q)
    OBVIOUS
  <2>2. Alike(q, S, q, T, m)
    BY DEF Alike
  <2> HIDE DEF m
  <2>3. PickUp(q, S)[m] = PickUp(q, T)[m]
    BY <2>1, <2>2, PicksAgree
  <2> QED BY <2>3 DEF m
<1>2. Picks(q, S) = PickUp(q, S)[Len(q)] /\ Picks(q, T) = PickUp(q, T)[Len(q)]
  BY PickUpIs
<1> QED BY <1>1, <1>2

LEMMA PickUpTyped ==
  ASSUME NEW X, NEW q \in Seq(X), NEW S, NEW m \in Nat, m <= Len(q)
  PROVE  PickUp(q, S)[m] \in Seq(X)
<1> DEFINE f == PickUp(q, S)
           Bad == {k \in Nat : k <= Len(q) /\ f[k] \notin Seq(X)}
<1>0. Len(q) \in Nat
  BY LenProperties
<1>1. SUFFICES ASSUME Bad # {} PROVE FALSE
  OBVIOUS
<1>2. Bad \in SUBSET Nat
  OBVIOUS
<1>3. \A k : k \in Bad <=> k \in Nat /\ k <= Len(q) /\ f[k] \notin Seq(X)
  OBVIOUS
<1>4. /\ f[0] = <<>>
      /\ \A i \in 1..Len(q) : f[i] = IF q[i] \in S THEN Append(f[i - 1], q[i]) ELSE f[i - 1]
  BY <1>0, PickUpIs
<1> HIDE DEF f, Bad
<1>5. PICK k \in Bad : \A j \in Bad : k <= j
  BY <1>1, <1>2, LeastOf
<1>6. k \in 1..Len(q)
  <2>1. f[0] \in Seq(X)
    BY <1>4, EmptySeq
  <2> QED BY <1>0, <1>3, <1>5, <2>1
<1>7. k - 1 \in Nat /\ k - 1 <= Len(q) /\ k - 1 \notin Bad
  BY <1>0, <1>5, <1>6
<1>8. f[k - 1] \in Seq(X) /\ q[k] \in X
  BY <1>3, <1>6, <1>7, ElementOfSeq
<1>9. f[k] \in Seq(X)
  <2>1. Append(f[k - 1], q[k]) \in Seq(X)
    BY <1>8, AppendProperties
  <2>2. f[k] = Append(f[k - 1], q[k]) \/ f[k] = f[k - 1]
    BY <1>4, <1>6
  <2> QED BY <1>8, <2>1, <2>2
<1> QED BY <1>3, <1>9

\* Nothing is picked after the first m places.
Rests(q, S, m, n) == \A k \in (m + 1)..n : q[k] \notin S

Begins(s, t) == Len(s) <= Len(t) /\ \A j \in 1..Len(s) : t[j] = s[j]

\* What is picked further on leaves what was picked before.
LEMMA PickUpGrows ==
  ASSUME NEW X, NEW q \in Seq(X), NEW S, NEW m \in Nat, NEW n \in Nat, m <= n, n <= Len(q)
  PROVE  /\ Begins(PickUp(q, S)[m], PickUp(q, S)[n])
         /\ Rests(q, S, m, n) => PickUp(q, S)[n] = PickUp(q, S)[m]
<1> DEFINE f == PickUp(q, S)
           Starts(k) == /\ Begins(f[m], f[k])
                        /\ Rests(q, S, m, k) => f[k] = f[m]
           Bad == {k \in Nat : m <= k /\ k <= Len(q) /\ ~Starts(k)}
<1>0. Len(q) \in Nat
  BY LenProperties
<1>1. SUFFICES ASSUME Bad # {} PROVE FALSE
  OBVIOUS
<1>2. Bad \in SUBSET Nat
  OBVIOUS
<1>3. \A k : k \in Bad <=> k \in Nat /\ m <= k /\ k <= Len(q) /\ ~Starts(k)
  OBVIOUS
<1>4. /\ \A i \in 1..Len(q) : f[i] = IF q[i] \in S THEN Append(f[i - 1], q[i]) ELSE f[i - 1]
      /\ \A i \in Nat : i <= Len(q) => f[i] \in Seq(X)
  BY <1>0, PickUpIs, PickUpTyped
<1> HIDE DEF f, Bad
<1>5. PICK k \in Bad : \A j \in Bad : k <= j
  BY <1>1, <1>2, LeastOf
<1>6. k \in 1..Len(q) /\ m < k
  <2>1. Starts(m)
    <3>1. Len(f[m]) \in Nat
      BY <1>0, <1>4, LenProperties
    <3> QED BY <3>1 DEF Begins
  <2>2. k \in Nat /\ m <= k /\ k <= Len(q) /\ ~Starts(k)
    BY <1>3
  <2>3. k # m
    BY <2>1, <2>2
  <2> QED BY <1>0, <2>2, <2>3
<1>7. k - 1 \in Nat /\ m <= k - 1 /\ k - 1 <= Len(q) /\ k - 1 \notin Bad
  BY <1>0, <1>5, <1>6
<1>8. Starts(k - 1)
  BY <1>3, <1>7
<1>9. f[k - 1] \in Seq(X) /\ f[m] \in Seq(X) /\ q[k] \in X
  BY <1>0, <1>4, <1>6, <1>7, ElementOfSeq
<1>10. Len(f[k - 1]) \in Nat /\ Len(f[m]) \in Nat
  BY <1>9, LenProperties
<1>11. CASE q[k] \in S
  <2>1. f[k] = Append(f[k - 1], q[k])
    BY <1>4, <1>6, <1>11
  <2>2. Len(f[k]) = Len(f[k - 1]) + 1 /\ \A j \in 1..Len(f[k - 1]) : f[k][j] = f[k - 1][j]
    BY <1>9, <2>1, AppendProperties
  <2>3. Len(f[m]) <= Len(f[k])
    BY <1>8, <1>10, <2>2 DEF Begins
  <2>4. \A j \in 1..Len(f[m]) : f[k][j] = f[m][j]
    <3> SUFFICES ASSUME NEW j \in 1..Len(f[m]) PROVE f[k][j] = f[m][j]
      OBVIOUS
    <3>1. j \in 1..Len(f[k - 1])
      BY <1>8, <1>10 DEF Begins
    <3>2. f[k - 1][j] = f[m][j]
      BY <1>8 DEF Begins
    <3> QED BY <2>2, <3>1, <3>2
  <2>5. ~Rests(q, S, m, k)
    BY <1>6, <1>11 DEF Rests
  <2> QED BY <1>3, <2>3, <2>4, <2>5 DEF Begins
<1>12. CASE q[k] \notin S
  <2>1. f[k] = f[k - 1]
    BY <1>4, <1>6, <1>12
  <2>2. Rests(q, S, m, k) => Rests(q, S, m, k - 1)
    <3>1. (m + 1)..(k - 1) \subseteq (m + 1)..k
      BY <1>6
    <3> QED BY <3>1 DEF Rests
  <2>3. Starts(k)
    BY <1>8, <2>1, <2>2
  <2> QED BY <1>3, <2>3
<1> QED BY <1>11, <1>12

LEMMA NothingMoreToPick ==
  ASSUME NEW X, NEW q \in Seq(X), NEW S, NEW m \in Nat, m <= Len(q),
         \A k \in (m + 1)..Len(q) : q[k] \notin S
  PROVE  PickUp(q, S)[Len(q)] = PickUp(q, S)[m]
<1> DEFINE n == Len(q)
<1>1. n \in Nat /\ m <= n /\ n <= Len(q)
  BY LenProperties
<1>2. Rests(q, S, m, n)
  BY DEF Rests
<1> HIDE DEF n
<1>3. PickUp(q, S)[n] = PickUp(q, S)[m]
  BY <1>1, <1>2, PickUpGrows
<1> QED BY <1>3 DEF n

LEMMA PickedStays ==
  ASSUME NEW X, NEW q \in Seq(X), NEW S, NEW m \in Nat, m <= Len(q)
  PROVE  Begins(PickUp(q, S)[m], PickUp(q, S)[Len(q)])
<1> DEFINE n == Len(q)
<1>1. n \in Nat /\ m <= n /\ n <= Len(q)
  BY LenProperties
<1> HIDE DEF n
<1>2. Begins(PickUp(q, S)[m], PickUp(q, S)[n])
  BY <1>1, PickUpGrows
<1> QED BY <1>2 DEF n

LEMMA PicksOfMore ==
  ASSUME NEW X, NEW q \in Seq(X), NEW e \in X, NEW S
  PROVE  Picks(Append(q, e), S) = IF e \in S THEN Append(Picks(q, S), e) ELSE Picks(q, S)
<1> DEFINE t == Append(q, e)
<1>1. /\ Len(q) \in Nat /\ Len(t) = Len(q) + 1 /\ t[Len(q) + 1] = e
      /\ \A k \in 1..Len(q) : t[k] = q[k]
  BY AppendProperties, LenProperties
<1> HIDE DEF t
<1>2. PickUp(t, S)[Len(q)] = PickUp(q, S)[Len(q)]
  <2> DEFINE m == Len(q)
  <2>1. m \in Nat /\ m <= Len(q) /\ m <= Len(t) /\ Alike(t, S, q, S, m)
    BY <1>1 DEF Alike
  <2> HIDE DEF m
  <2>2. PickUp(t, S)[m] = PickUp(q, S)[m]
    BY <1>1, <2>1, PicksAgree
  <2> QED BY <2>2 DEF m
<1>3. Picks(t, S) = IF t[Len(t)] \in S THEN Append(PickUp(t, S)[Len(t) - 1], t[Len(t)])
                                       ELSE PickUp(t, S)[Len(t) - 1]
  <2>1. Len(t) \in Nat /\ Len(t) \in 1..Len(t)
    BY <1>1
  <2>2. \A i \in 1..Len(t) :
          PickUp(t, S)[i] = IF t[i] \in S THEN Append(PickUp(t, S)[i - 1], t[i])
                                          ELSE PickUp(t, S)[i - 1]
    BY <2>1, PickUpIs
  <2>3. Picks(t, S) = PickUp(t, S)[Len(t)]
    BY <2>1, PickUpIs
  <2> QED BY <2>1, <2>2, <2>3
<1>4. Len(t) - 1 = Len(q) /\ t[Len(t)] = e /\ Picks(q, S) = PickUp(q, S)[Len(q)]
  BY <1>1, PickUpIs
<1> QED BY <1>2, <1>3, <1>4 DEF t

\* The rows in the order of their identifiers.
LEMMA RowsInOrder ==
  ASSUME DeliveryAssumption
  PROVE  /\ InOrderOfId \in Seq(Ids) /\ Len(InOrderOfId) = MaxEvents /\ MaxEvents \in Nat
         /\ \A k \in Ids : InOrderOfId[k] = k
<1>1. MaxEvents \in Nat
  BY DEF DeliveryAssumption
<1>2. InOrderOfId = [k \in 1..MaxEvents |-> k]
  BY DEF InOrderOfId, Ids
<1>3. \A k \in 1..MaxEvents : k \in Ids
  BY DEF Ids
<1>4. [k \in 1..MaxEvents |-> k] \in Seq(Ids)
  BY <1>1, <1>3, IsASeq
<1>5. Len([k \in 1..MaxEvents |-> k]) = MaxEvents
  BY <1>1
<1> QED BY <1>1, <1>2, <1>4, <1>5 DEF Ids

\* Picked in the order of the identifiers, a row that comes after all others is
\* the last one.
LEMMA PicksALastRow ==
  ASSUME DeliveryAssumption, NEW S, NEW id \in Ids, \A x \in Ids : x >= id => x \notin S
  PROVE  Picks(InOrderOfId, S \union {id}) = Append(Picks(InOrderOfId, S), id)
<1> DEFINE q == InOrderOfId
           T == S \union {id}
<1>1. q \in Seq(Ids) /\ Len(q) = MaxEvents /\ MaxEvents \in Nat /\ \A k \in Ids : q[k] = k
  BY RowsInOrder
<1>2. id \in Nat /\ id - 1 \in Nat /\ id - 1 <= id /\ id <= Len(q) /\ id \in 1..Len(q)
  BY <1>1 DEF Ids
<1>3. \A k \in 1..(id - 1) : k \in Ids /\ q[k] = k
  BY <1>1, <1>2 DEF Ids
<1>4. Alike(q, S, q, T, id - 1)
  BY <1>2, <1>3 DEF Alike
<1>5. /\ \A k \in id..Len(q) : q[k] \notin S
      /\ \A k \in (id + 1)..Len(q) : q[k] \notin T
  BY <1>1, <1>2 DEF Ids
<1>6. q[id] = id /\ id \in T
  BY <1>1
<1> HIDE DEF q, T
<1>7. PickUp(q, S)[id - 1] = PickUp(q, T)[id - 1]
  <2>1. id - 1 <= Len(q) /\ Len(q) \in Nat
    BY <1>1, <1>2
  <2> QED BY <1>2, <1>4, <2>1, PicksAgree
<1>8. PickUp(q, T)[id] = Append(PickUp(q, T)[id - 1], id)
  <2>1. \A i \in 1..Len(q) :
          PickUp(q, T)[i] = IF q[i] \in T THEN Append(PickUp(q, T)[i - 1], q[i])
                                          ELSE PickUp(q, T)[i - 1]
    BY <1>1, PickUpIs
  <2> QED BY <1>2, <1>6, <2>1
<1>9. PickUp(q, T)[Len(q)] = PickUp(q, T)[id]
  BY <1>1, <1>2, <1>5, NothingMoreToPick
<1>10. PickUp(q, S)[Len(q)] = PickUp(q, S)[id - 1]
  <2>1. (id - 1) + 1 = id /\ id - 1 <= Len(q)
    BY <1>1, <1>2
  <2> QED BY <1>1, <1>2, <1>5, <2>1, NothingMoreToPick
<1>11. Picks(q, T) = PickUp(q, T)[Len(q)] /\ Picks(q, S) = PickUp(q, S)[Len(q)]
  BY <1>1, PickUpIs
<1> QED BY <1>7, <1>8, <1>9, <1>10, <1>11 DEF q, T

\* Of what all is picked, the first that is missing from a beginning comes next.
LEMMA PicksTheNextRow ==
  ASSUME DeliveryAssumption, NEW K, NEW W, NEW id \in Ids, id \in W,
         \A x \in Ids : x >= id => x \notin K,
         \A x \in Ids : x < id => (x \in K <=> x \in W)
  PROVE  /\ Len(Picks(InOrderOfId, K)) < Len(Picks(InOrderOfId, W))
         /\ Picks(InOrderOfId, W)[Len(Picks(InOrderOfId, K)) + 1] = id
<1> DEFINE q == InOrderOfId
           f == PickUp(q, K)
           g == PickUp(q, W)
<1>1. q \in Seq(Ids) /\ Len(q) = MaxEvents /\ MaxEvents \in Nat /\ \A k \in Ids : q[k] = k
  BY RowsInOrder
<1>2. id \in Nat /\ id - 1 \in Nat /\ id - 1 <= id /\ id <= Len(q) /\ id \in 1..Len(q)
  BY <1>1 DEF Ids
<1>3. \A k \in 1..(id - 1) : k \in Ids /\ q[k] = k
  BY <1>1, <1>2 DEF Ids
<1>4. Alike(q, K, q, W, id - 1)
  BY <1>2, <1>3 DEF Alike
<1>5. \A k \in id..Len(q) : q[k] \notin K
  BY <1>1, <1>2 DEF Ids
<1>6. q[id] = id
  BY <1>1
<1> HIDE DEF q
<1>0. id - 1 <= Len(q) /\ Len(q) \in Nat /\ (id - 1) + 1 = id
  BY <1>1, <1>2
<1>7. f[id - 1] = g[id - 1]
  BY <1>0, <1>2, <1>4, PicksAgree
<1>8. g[id] = Append(g[id - 1], id)
  <2>1. \A i \in 1..Len(q) : g[i] = IF q[i] \in W THEN Append(g[i - 1], q[i]) ELSE g[i - 1]
    BY <1>0, PickUpIs
  <2> QED BY <1>2, <1>6, <2>1
<1>9. f[Len(q)] = f[id - 1]
  BY <1>0, <1>1, <1>2, <1>5, NothingMoreToPick
<1>10. Begins(g[id], g[Len(q)])
  BY <1>0, <1>1, <1>2, PickedStays
<1>11. Picks(q, K) = f[Len(q)] /\ Picks(q, W) = g[Len(q)]
  BY <1>0, PickUpIs
<1>12. g[id - 1] \in Seq(Ids) /\ g[Len(q)] \in Seq(Ids)
  BY <1>0, <1>1, <1>2, PickUpTyped
<1> HIDE DEF f, g
<1>13. /\ Len(g[id]) = Len(g[id - 1]) + 1 /\ g[id][Len(g[id - 1]) + 1] = id
       /\ Len(g[id - 1]) \in Nat /\ Len(g[Len(q)]) \in Nat
  BY <1>8, <1>12, AppendProperties, LenProperties
<1>14. /\ Len(g[id - 1]) < Len(g[Len(q)])
       /\ g[Len(q)][Len(g[id - 1]) + 1] = id
  BY <1>10, <1>13 DEF Begins
<1> QED BY <1>7, <1>9, <1>11, <1>14 DEF q

----------------------------------------------------------------------------
(* Types *)

\* The type invariant, by owner.
OutboxTyped ==
  /\ agg \in [Ids -> Aggregates \union {Nobody}]
  /\ row \in [Ids -> {"none", "inserted", "undone", "waiting", "published"}]
  /\ last \in 0..MaxEvents
  /\ past \in [Ids -> SUBSET Ids]
WorkTyped ==
  /\ held \in [Workers -> SUBSET Ids]
  /\ sent \in [Workers -> SUBSET Ids]
  /\ broken \in [Workers -> BOOLEAN]
TopicTyped == topic \in Seq(Ids) /\ late \in SUBSET Ids
PlacesTyped == position \in 0..Len(topic) /\ offset \in 0..position
VenueTyped == known \in SUBSET Ids /\ effects \in Seq(Ids)
FaultsTyped == faults \in 0..MaxFaults

LEMMA TypeParts ==
  TypeOK <=> /\ OutboxTyped /\ WorkTyped /\ TopicTyped /\ PlacesTyped /\ VenueTyped
             /\ FaultsTyped
BY Zenon DEF TypeOK, OutboxTyped, WorkTyped, TopicTyped, PlacesTyped, VenueTyped, FaultsTyped

LEMMA TypePartsNext ==
  TypeOK' <=> /\ OutboxTyped' /\ WorkTyped' /\ TopicTyped' /\ PlacesTyped' /\ VenueTyped'
              /\ FaultsTyped'
BY Zenon DEF TypeOK, OutboxTyped, WorkTyped, TopicTyped, PlacesTyped, VenueTyped, FaultsTyped

LEMMA Numbers ==
  ASSUME DeliveryAssumption, TypeOK
  PROVE  /\ last \in Nat /\ MaxEvents \in Nat /\ faults \in Nat /\ MaxFaults \in Nat
         /\ Len(topic) \in Nat /\ position \in Nat /\ offset \in Nat
         /\ position <= Len(topic) /\ offset <= position /\ Ids \in SUBSET Nat
<1>1. Len(topic) \in Nat
  BY TypeParts, LenProperties DEF TopicTyped
<1>2. position \in Nat /\ position <= Len(topic)
  BY <1>1, TypeParts DEF PlacesTyped
<1>3. offset \in Nat /\ offset <= position
  BY <1>2, TypeParts DEF PlacesTyped
<1>4. last \in Nat /\ MaxEvents \in Nat /\ faults \in Nat /\ MaxFaults \in Nat
  BY TypeParts DEF OutboxTyped, FaultsTyped, DeliveryAssumption
<1> QED BY <1>1, <1>2, <1>3, <1>4 DEF Ids

LEMMA FaultIsTyped ==
  ASSUME DeliveryAssumption, TypeOK, Fault
  PROVE  FaultsTyped'
<1>1. faults < MaxFaults /\ faults' = faults + 1
  BY DEF Fault
<1> QED BY <1>1, Numbers DEF FaultsTyped

LEMMA LongerTopicIsTyped ==
  ASSUME DeliveryAssumption, TypeOK, NEW id \in Ids, topic' = Append(topic, id),
         UNCHANGED <<position, offset>>
  PROVE  topic' \in Seq(Ids) /\ PlacesTyped'
<1>1. topic' \in Seq(Ids) /\ Len(topic') = Len(topic) + 1
  BY TypeParts, AppendProperties DEF TopicTyped
<1> QED BY <1>1, Numbers DEF PlacesTyped

LEMMA LetGoIsTyped ==
  ASSUME TypeOK, NEW w \in Workers, LetGo(w)
  PROVE  WorkTyped'
BY TypeParts DEF LetGo, WorkTyped

LEMMA UnsentIs ==
  ASSUME DeliveryAssumption, TypeOK, NEW w \in Workers, Unsent(w) # {}
  PROVE  /\ Lowest(Unsent(w)) \in held[w] \ sent[w] /\ Lowest(Unsent(w)) \in Ids
         /\ \A other \in held[w] \ sent[w] : Lowest(Unsent(w)) <= other
<1>1. Unsent(w) \in SUBSET Ids /\ Unsent(w) = held[w] \ sent[w]
  BY TypeParts DEF WorkTyped, Unsent
<1> QED BY <1>1, LowestIs

LEMMA TypeInit == ASSUME DeliveryAssumption, Init PROVE TypeOK
<1> USE DEF Init
<1>1. OutboxTyped /\ FaultsTyped
  BY DEF OutboxTyped, FaultsTyped, DeliveryAssumption
<1>2. WorkTyped
  BY DEF WorkTyped
<1>3. TopicTyped /\ VenueTyped
  BY EmptySeq DEF TopicTyped, VenueTyped
<1>4. PlacesTyped
  <2>1. Len(topic) = 0
    BY EmptySeq
  <2> QED BY <2>1 DEF PlacesTyped
<1> QED BY <1>1, <1>2, <1>3, <1>4, TypeParts

LEMMA TypeStep == ASSUME DeliveryAssumption, TypeOK, [Next]_vars PROVE TypeOK'
<1>0. OutboxTyped /\ WorkTyped /\ TopicTyped /\ PlacesTyped /\ VenueTyped /\ FaultsTyped
  BY TypeParts
<1>a. UNCHANGED outboxVars => OutboxTyped'
  BY <1>0 DEF OutboxTyped, outboxVars
<1>b. UNCHANGED workerVars => WorkTyped'
  BY <1>0 DEF WorkTyped, workerVars
<1>c. UNCHANGED brokerVars => TopicTyped'
  BY <1>0 DEF TopicTyped, brokerVars
<1>d. UNCHANGED consumerVars => VenueTyped' /\ UNCHANGED <<position, offset>>
  BY <1>0 DEF VenueTyped, consumerVars
<1>e. UNCHANGED <<topic, position, offset>> => PlacesTyped'
  BY <1>0 DEF PlacesTyped
<1>f. UNCHANGED faults => FaultsTyped'
  BY <1>0 DEF FaultsTyped
<1>g. UNCHANGED brokerVars => UNCHANGED topic
  BY DEF brokerVars
<1>1. ASSUME NEW a \in Aggregates, Insert(a) PROVE TypeOK'
  <2>1. last' \in 0..MaxEvents /\ last' \in Ids
    BY <1>1, Numbers DEF Insert, Ids
  <2>2. OutboxTyped'
    BY <1>0, <1>1, <2>1 DEF Insert, OutboxTyped
  <2> QED BY <1>1, <2>2, <1>b, <1>c, <1>d, <1>e, <1>f, <1>g, TypePartsNext DEF Insert
<1>2. ASSUME NEW id \in Ids, EndChange(id) PROVE TypeOK'
  <2>1. OutboxTyped'
    BY <1>0, <1>2 DEF EndChange, OutboxTyped
  <2> QED BY <1>2, <2>1, <1>b, <1>c, <1>d, <1>e, <1>f, <1>g, TypePartsNext DEF EndChange
<1>3. ASSUME NEW id \in Ids, WrittenLate(id) PROVE TypeOK'
  <2>1. topic' \in Seq(Ids) /\ PlacesTyped'
    BY <1>3, <1>d, LongerTopicIsTyped DEF WrittenLate
  <2>2. TopicTyped'
    BY <1>0, <1>3, <2>1 DEF WrittenLate, TopicTyped
  <2> QED BY <1>3, <2>1, <2>2, <1>a, <1>b, <1>d, <1>f, TypePartsNext DEF WrittenLate
<1>4. ASSUME NEW w \in Workers, Fetch(w) PROVE TypeOK'
  <2>1. WorkTyped'
    <3>1. Free \subseteq Ids
      BY DEF Free, Waiting
    <3>2. {id \in Free : Cardinality({other \in Free : other < id}) < Batch} \in SUBSET Ids
      BY <3>1
    <3> QED BY <1>0, <1>4, <3>2 DEF Fetch, WorkTyped
  <2> QED BY <1>4, <2>1, <1>a, <1>c, <1>d, <1>e, <1>f, <1>g, TypePartsNext DEF Fetch
<1>5. ASSUME NEW w \in Workers, Publish(w) PROVE TypeOK'
  <2> DEFINE id == Lowest(Unsent(w))
  <2>1. /\ id \in Ids /\ topic' = Append(topic, id) /\ sent' = [sent EXCEPT ![w] = @ \union {id}]
        /\ UNCHANGED <<outboxVars, held, broken, late, consumerVars, faults>>
    BY <1>5, UnsentIs DEF Publish
  <2> HIDE DEF id
  <2>2. topic' \in Seq(Ids) /\ PlacesTyped'
    BY <2>1, <1>d, LongerTopicIsTyped
  <2>3. TopicTyped' /\ WorkTyped'
    BY <1>0, <2>1, <2>2 DEF TopicTyped, WorkTyped
  <2> QED BY <2>1, <2>2, <2>3, <1>a, <1>d, <1>f, TypePartsNext
<1>6. ASSUME NEW w \in Workers, PublishFails(w) PROVE TypeOK'
  <2>1. WorkTyped'
    BY <1>0, <1>6 DEF PublishFails, WorkTyped
  <2>2. TopicTyped'
    <3>1. Lowest(Unsent(w)) \in Ids
      BY <1>6, UnsentIs DEF PublishFails
    <3> QED BY <1>0, <1>6, <3>1 DEF PublishFails, TopicTyped
  <2>3. FaultsTyped'
    BY <1>6, FaultIsTyped DEF PublishFails
  <2> QED BY <1>6, <2>1, <2>2, <2>3, <1>a, <1>d, <1>e, TypePartsNext DEF PublishFails
<1>7. ASSUME NEW w \in Workers, Record(w) PROVE TypeOK'
  <2>1. OutboxTyped'
    BY <1>0, <1>7 DEF Record, OutboxTyped
  <2>2. WorkTyped'
    BY <1>7, LetGoIsTyped DEF Record
  <2> QED BY <1>7, <2>1, <2>2, <1>c, <1>d, <1>e, <1>f, <1>g, TypePartsNext DEF Record
<1>8. ASSUME NEW w \in Workers, RollBack(w) PROVE TypeOK'
  BY <1>8, LetGoIsTyped, FaultIsTyped, <1>a, <1>c, <1>d, <1>e, <1>g, TypePartsNext DEF RollBack
<1>9. CASE Handle
  <2> DEFINE id == topic[position']
  <2>1. /\ position' \in 1..Len(topic) /\ position' = position + 1 /\ position = offset
        /\ known' = known \union {id}
        /\ effects' = IF id \in known THEN effects ELSE Append(effects, id)
        /\ UNCHANGED <<outboxVars, workerVars, brokerVars, offset, faults>>
    BY <1>9, Numbers DEF Handle, Remember
  <2>2. id \in Ids
    BY <1>0, <2>1, ElementOfSeq DEF TopicTyped
  <2> HIDE DEF id
  <2>3. VenueTyped'
    BY <1>0, <2>1, <2>2, AppendProperties DEF VenueTyped
  <2>4. PlacesTyped'
    BY <2>1, <1>g, Numbers DEF PlacesTyped
  <2> QED BY <2>1, <2>3, <2>4, <1>a, <1>b, <1>c, <1>f, TypePartsNext
<1>10. CASE CommitOffset
  <2>1. PlacesTyped' /\ VenueTyped'
    BY <1>0, <1>10, <1>g, Numbers DEF CommitOffset, PlacesTyped, VenueTyped
  <2> QED BY <1>10, <2>1, <1>a, <1>b, <1>c, <1>f, TypePartsNext DEF CommitOffset
<1>11. CASE Resume
  <2>1. PlacesTyped' /\ VenueTyped'
    BY <1>0, <1>11, <1>g, Numbers DEF Resume, PlacesTyped, VenueTyped
  <2> QED BY <1>11, <2>1, <1>a, <1>b, <1>c, FaultIsTyped, TypePartsNext DEF Resume
<1>12. CASE UNCHANGED vars
  BY <1>12, <1>a, <1>b, <1>c, <1>d, <1>e, <1>f, <1>g, TypePartsNext DEF vars
<1> QED BY <1>1, <1>2, <1>3, <1>4, <1>5, <1>6, <1>7, <1>8, <1>9, <1>10, <1>11, <1>12 DEF Next

\* Identifiers, batches, the topic and its places are what they are meant to be,
\* with any number of workers.
THEOREM TypeCorrect == Spec => []TypeOK
<1>1. Init => TypeOK
  BY DeliveryAssumption, TypeInit
<1>2. TypeOK /\ [Next]_vars => TypeOK'
  BY DeliveryAssumption, TypeStep
<1> QED BY <1>1, <1>2, PTL DEF Spec

----------------------------------------------------------------------------
(* The order of the topic, with one worker *)

\* The next message of a batch has everything before it in the topic.
LEMMA NextIsAnnounced ==
  ASSUME DeliveryAssumption, IInv, NEW w \in Workers, Unsent(w) # {}
  PROVE  Announced(Lowest(Unsent(w))) /\ Committed(Lowest(Unsent(w)))
<1> USE DEF IInv
<1> DEFINE id == Lowest(Unsent(w))
<1>1. /\ id \in held[w] \ sent[w] /\ id \in Ids
      /\ \A other \in held[w] \ sent[w] : id <= other
  BY UnsentIs
<1> HIDE DEF id
<1>2. Committed(id)
  BY <1>1 DEF WorkIsTrue, Committed
<1>3. ASSUME NEW earlier \in past[id]
      PROVE  earlier \in InTopic
  <2>0. earlier \in Ids /\ earlier < id /\ Committed(earlier)
    BY <1>1, <1>3 DEF PastIsPast
  <2>1. CASE row[earlier] = "published"
    BY <2>0, <2>1 DEF WorkIsTrue
  <2>2. CASE row[earlier] = "waiting"
    <3>1. earlier \in held[w]
      BY <1>1, <1>3, <2>2 DEF HeldFromTheFront
    <3>2. earlier \in sent[w]
      <4>1. ~(id <= earlier)
        BY <1>1, <2>0, Numbers
      <4> QED BY <1>1, <3>1, <4>1
    <3> QED BY <3>2 DEF WorkIsTrue
  <2> QED BY <2>0, <2>1, <2>2 DEF Committed
<1> QED BY <1>2, <1>3 DEF Announced, id

\* What has everything before it may be appended, for the first time or again.
LEMMA AppendingKeepsOrder ==
  ASSUME DeliveryAssumption, IInv, NEW id \in Ids, Announced(id), Committed(id),
         topic' = Append(topic, id), UNCHANGED <<agg, row, past>>
  PROVE  InTopic' = InTopic \union {id} /\ FirstsInOrder'
<1> USE DEF IInv
<1>1. /\ topic \in Seq(Ids) /\ Len(topic) \in Nat /\ Len(topic') = Len(topic) + 1
      /\ \A k \in 1..Len(topic) : topic'[k] = topic[k]
      /\ topic'[Len(topic) + 1] = id
  BY TypeParts, AppendProperties, LenProperties DEF TopicTyped
<1>2. InTopic' = InTopic \union {id}
  <2>1. 1..Len(topic') = 1..Len(topic) \union {Len(topic) + 1}
    BY <1>1
  <2> QED BY <1>1, <2>1 DEF InTopic
<1>3. /\ \A x \in InTopic :
           FirstIn(topic', x) = FirstIn(topic, x) /\ FirstIn(topic, x) \in 1..Len(topic)
      /\ id \notin InTopic => FirstIn(topic', id) = Len(topic) + 1
  BY <1>1, FirstsOfALongerTopic DEF InTopic
<1>4. ASSUME NEW x \in InTopic', NEW earlier \in past[x]
      PROVE  earlier \in InTopic' /\ FirstIn(topic', earlier) < FirstIn(topic', x)
  <2>1. CASE x \in InTopic
    BY <1>2, <1>3, <1>4, <2>1 DEF FirstsInOrder
  <2>2. CASE x = id /\ id \notin InTopic
    <3>1. earlier \in InTopic
      BY <1>4, <2>2 DEF Announced
    <3>2. FirstIn(topic', earlier) \in 1..Len(topic) /\ FirstIn(topic', x) = Len(topic) + 1
      BY <1>3, <2>2, <3>1
    <3> QED BY <1>1, <1>2, <3>1, <3>2
  <2> QED BY <1>2, <2>1, <2>2
<1>5. FirstsInOrder'
  BY <1>4 DEF FirstsInOrder
<1> QED BY <1>2, <1>5

LEMMA OrderInit == ASSUME DeliveryAssumption, Init PROVE IInv
<1>1. TypeOK
  BY TypeInit
<1>2. InTopic = {}
  <2>1. Len(topic) = 0
    BY EmptySeq DEF Init
  <2> QED BY <2>1 DEF InTopic
<1>3. RowsFollow
  BY DEF Init, RowsFollow, Ids
<1>5. PastIsPast
  BY DEF Init, PastIsPast
<1>4. WorkIsTrue /\ HeldFromTheFront /\ LateComesAfter /\ FirstsInOrder
  BY <1>2 DEF Init, WorkIsTrue, HeldFromTheFront, LateComesAfter, FirstsInOrder
<1> QED BY <1>1, <1>3, <1>4, <1>5 DEF IInv

LEMMA InsertStep ==
  ASSUME DeliveryAssumption, IInv, TypeOK', NEW a \in Aggregates, Insert(a)
  PROVE  IInv'
<1> USE DEF IInv
<1>0. /\ UNCHANGED <<held, sent, broken, late, topic>>
      /\ last < MaxEvents /\ last' = last + 1
      /\ \A id \in Ids : row[id] = "inserted" => agg[id] # a
  BY DEF Insert, workerVars, brokerVars
<1>1. last' \in Ids /\ last \in Nat
  BY <1>0, Numbers DEF Ids
<1>2. /\ \A id \in Ids : agg'[id] = IF id = last' THEN a ELSE agg[id]
      /\ \A id \in Ids : row'[id] = IF id = last' THEN "inserted" ELSE row[id]
      /\ \A id \in Ids :
           past'[id] = IF id = last' THEN {x \in Ids : Committed(x)} ELSE past[id]
  BY <1>1, TypeParts DEF Insert, OutboxTyped, Committed
<1>3. row[last'] = "none"
  BY <1>0, <1>1 DEF RowsFollow
<1>4. RowsFollow'
  <2>1. \A id \in Ids : id > last' <=> row'[id] = "none"
    <3> SUFFICES ASSUME NEW id \in Ids PROVE id > last' <=> row'[id] = "none"
      OBVIOUS
    <3>1. id \in Nat
      BY Numbers
    <3>2. id > last' <=> id > last /\ id # last'
      BY <1>0, <1>1, <3>1
    <3> QED BY <1>1, <1>2, <3>2 DEF RowsFollow
  <2>2. ASSUME NEW id \in Ids, NEW earlier \in Ids,
               earlier < id, agg'[earlier] = agg'[id], row'[id] # "none"
        PROVE  row'[earlier] # "inserted"
    <3>1. CASE id = last'
      <4>1. earlier # last'
        BY <2>2, <3>1, <1>1, Numbers
      <4> QED BY <1>0, <1>2, <2>2, <3>1, <4>1
    <3>2. CASE id # last'
      <4>1. id \in Nat /\ earlier \in Nat /\ ~(id > last)
        BY <1>2, <2>2, <3>2, Numbers DEF RowsFollow
      <4>2. earlier # last'
        BY <1>0, <1>1, <2>2, <4>1
      <4> QED BY <1>2, <2>2, <3>2, <4>2 DEF RowsFollow
    <3> QED BY <3>1, <3>2
  <2> QED BY <2>1, <2>2 DEF RowsFollow
<1>5. InTopic' = InTopic
  BY <1>0 DEF InTopic
<1>6. /\ \A id \in Ids : Committed(id)' <=> Committed(id)
      /\ \A id \in Ids : Committed(id) => id # last'
      /\ \A id \in Ids : row[id] = "waiting" \/ row'[id] = "waiting" => id # last'
  BY <1>2, <1>3 DEF Committed
<1>7. /\ InTopic \subseteq Ids /\ late \subseteq Ids
      /\ \A w \in Workers : held[w] \subseteq Ids /\ sent[w] \subseteq Ids
  BY TypeParts, ElementOfSeq DEF TopicTyped, WorkTyped, InTopic
<1>8. WorkIsTrue'
  BY <1>0, <1>2, <1>5, <1>6, <1>7 DEF WorkIsTrue
<1>9. HeldFromTheFront'
  <2>1. ASSUME NEW w \in Workers, NEW id \in held[w], NEW earlier \in past'[id],
               row'[earlier] = "waiting"
        PROVE  earlier \in held[w]
    <3>1. id \in Ids /\ row[id] = "waiting" /\ id # last'
      BY <1>6, <1>7, <2>1 DEF WorkIsTrue
    <3>2. earlier \in past[id] /\ earlier \in Ids /\ earlier # last'
      BY <1>2, <1>6, <2>1, <3>1 DEF PastIsPast
    <3> QED BY <1>2, <2>1, <3>2 DEF HeldFromTheFront
  <2> QED BY <1>0, <2>1 DEF HeldFromTheFront
<1>10. LateComesAfter'
  BY <1>0, <1>2, <1>5, <1>6, <1>7 DEF LateComesAfter, Announced, WorkIsTrue
<1>11. FirstsInOrder'
  BY <1>0, <1>2, <1>5, <1>6, <1>7 DEF FirstsInOrder, WorkIsTrue
<1>12. PastIsPast'
  <2>1. ASSUME NEW id \in Ids, NEW earlier \in past'[id]
        PROVE  earlier \in Ids /\ earlier < id /\ Committed(earlier)' /\ row'[id] # "none"
    <3>1. CASE id = last'
      <4>1. earlier \in Ids /\ Committed(earlier)
        BY <1>2, <2>1, <3>1
      <4>2. earlier \in Nat /\ ~(earlier > last)
        BY <4>1, Numbers DEF RowsFollow, Committed
      <4> QED BY <1>0, <1>1, <1>2, <1>6, <3>1, <4>1, <4>2
    <3>2. CASE id # last'
      BY <1>2, <1>6, <2>1, <3>2 DEF PastIsPast
    <3> QED BY <3>1, <3>2
  <2>2. ASSUME NEW id \in Ids, NEW earlier \in Ids,
               earlier < id, agg'[earlier] = agg'[id], row'[id] # "none", Committed(earlier)'
        PROVE  earlier \in past'[id]
    <3>1. Committed(earlier) /\ earlier # last'
      BY <1>6, <2>2
    <3> QED BY <1>2, <2>2, <3>1 DEF PastIsPast
  <2> QED BY <2>1, <2>2 DEF PastIsPast
<1> QED BY <1>4, <1>8, <1>9, <1>10, <1>11, <1>12

LEMMA EndChangeStep ==
  ASSUME DeliveryAssumption, IInv, TypeOK', NEW id \in Ids, EndChange(id)
  PROVE  IInv'
<1> USE DEF IInv
<1>0. /\ UNCHANGED <<agg, last, past, held, sent, broken, late, topic>>
      /\ row[id] = "inserted"
  BY DEF EndChange, workerVars, brokerVars
<1>1. PICK end \in {"waiting", "undone"} :
        \A x \in Ids : row'[x] = IF x = id THEN end ELSE row[x]
  BY TypeParts DEF EndChange, OutboxTyped
<1>2. InTopic' = InTopic
  BY <1>0 DEF InTopic
<1>3. /\ InTopic \subseteq Ids /\ late \subseteq Ids
      /\ \A w \in Workers : held[w] \subseteq Ids /\ sent[w] \subseteq Ids
  BY TypeParts, ElementOfSeq DEF TopicTyped, WorkTyped, InTopic
<1>4. \A x \in Ids : Committed(x) => Committed(x)' /\ x # id
  BY <1>0, <1>1 DEF Committed
<1>5. \A x \in Ids : row[x] # "none" /\ id < x => agg[id] # agg[x]
  BY <1>0 DEF RowsFollow
<1>6. RowsFollow'
  BY <1>0, <1>1 DEF RowsFollow
<1>7. WorkIsTrue'
  BY <1>0, <1>1, <1>2, <1>3, <1>4 DEF WorkIsTrue
<1>8. HeldFromTheFront'
  <2>1. \A w \in Workers : \A x \in held[w] : row[x] # "none"
    BY DEF WorkIsTrue
  <2>2. \A x \in Ids : \A earlier \in past[x] : earlier \in Ids /\ earlier # id
    BY <1>4 DEF PastIsPast
  <2> QED BY <1>0, <1>1, <1>3, <2>1, <2>2 DEF HeldFromTheFront
<1>9. \A x \in Ids : Committed(x) => row[x] # "none"
  BY DEF Committed
<1>10. \A x \in Ids : Committed(x)' => Committed(x) \/ x = id
  BY <1>1 DEF Committed
<1>11. LateComesAfter'
  BY <1>0, <1>2 DEF LateComesAfter, Announced
<1>12. FirstsInOrder'
  BY <1>0, <1>2 DEF FirstsInOrder
<1>13. PastIsPast'
  <2>1. \A x \in Ids : row'[x] # "none" <=> row[x] # "none"
    BY <1>0, <1>1
  <2> QED BY <1>0, <1>4, <1>5, <1>10, <2>1 DEF PastIsPast
<1> QED BY <1>6, <1>7, <1>8, <1>11, <1>12, <1>13

LEMMA FetchStep ==
  ASSUME DeliveryAssumption, OneWorker, IInv, TypeOK', NEW w \in Workers, Fetch(w)
  PROVE  IInv'
<1> USE DEF IInv
<1> DEFINE Ahead(id) == {other \in Free : other < id}
<1>0. /\ UNCHANGED <<agg, row, last, past, sent, broken, late, topic>> /\ held[w] = {}
      /\ held' = [held EXCEPT ![w] = {id \in Free : Cardinality(Ahead(id)) < Batch}]
  BY DEF Fetch, outboxVars, brokerVars
<1>1. \A v \in Workers : v = w
  BY DEF OneWorker
<1>2. Free = {id \in Ids : row[id] = "waiting"}
  BY <1>0, <1>1 DEF Free, Waiting
<1>3. held'[w] = {id \in Free : Cardinality(Ahead(id)) < Batch}
  BY <1>0, TypeParts DEF WorkTyped
<1>4. InTopic' = InTopic /\ (\A id \in Ids : Committed(id)' <=> Committed(id))
  BY <1>0 DEF InTopic, Committed
<1>5. sent[w] = {}
  BY <1>0 DEF WorkIsTrue
<1>6. RowsFollow' /\ PastIsPast' /\ LateComesAfter' /\ FirstsInOrder'
  BY <1>0, <1>4 DEF RowsFollow, PastIsPast, LateComesAfter, Announced, FirstsInOrder,
                    Committed, InTopic
<1>7. WorkIsTrue'
  BY <1>0, <1>1, <1>2, <1>3, <1>4, <1>5 DEF WorkIsTrue, Committed
<1>8. ASSUME NEW id \in held'[w], NEW earlier \in Ids, earlier < id, row[earlier] = "waiting"
      PROVE  earlier \in held'[w]
  <2>1. earlier \in Free /\ id \in Free /\ Cardinality(Ahead(id)) < Batch
    BY <1>2, <1>3, <1>8
  <2>2. \A x \in Free : x \in Nat
    BY <1>2, Numbers
  <2>3. Ahead(earlier) \in SUBSET Ahead(id)
    BY <1>8, <2>1, <2>2
  <2>4. IsFiniteSet(Ahead(id)) /\ Cardinality(Ahead(id)) \in Nat
    <3>1. IsFiniteSet(Ids)
      BY Numbers, FS_Interval DEF Ids
    <3>2. Ahead(id) \in SUBSET Ids
      BY <1>2
    <3> QED BY <3>1, <3>2, FS_Subset, FS_CardinalityType
  <2>5. Cardinality(Ahead(earlier)) <= Cardinality(Ahead(id))
    BY <2>3, <2>4, FS_Subset
  <2>6. Cardinality(Ahead(earlier)) \in Nat /\ Batch \in Nat
    BY <2>3, <2>4, FS_Subset, FS_CardinalityType DEF DeliveryAssumption
  <2>7. Cardinality(Ahead(earlier)) < Batch
    BY <2>1, <2>4, <2>5, <2>6
  <2> QED BY <1>3, <2>1, <2>7
<1>9. HeldFromTheFront'
  <2>1. \A id \in held'[w] : id \in Ids
    BY <1>2, <1>3
  <2> QED BY <1>0, <1>1, <1>8, <2>1 DEF HeldFromTheFront, PastIsPast
<1> QED BY <1>6, <1>7, <1>9

\* The batch goes, recorded or not: what is published has been sent.
LEMMA LetGoStep ==
  ASSUME DeliveryAssumption, OneWorker, IInv, TypeOK', NEW w \in Workers, LetGo(w),
         UNCHANGED <<agg, last, past, late, topic>>,
         \A id \in Ids : row'[id] \in {row[id]} \union
                                     (IF id \in sent[w] THEN {"published"} ELSE {})
  PROVE  IInv'
<1> USE DEF IInv
<1>1. \A v \in Workers : held'[v] = {} /\ sent'[v] = {}
  BY TypeParts DEF LetGo, WorkTyped, OneWorker
<1>2. \A id \in Ids : row'[id] = row[id] \/ (row[id] = "waiting" /\ row'[id] = "published"
                                            /\ id \in InTopic)
  <2>1. \A id \in sent[w] : row[id] = "waiting" /\ id \in InTopic
    BY DEF WorkIsTrue
  <2> QED BY <2>1
<1>3. InTopic' = InTopic
  BY DEF InTopic
<1>4. \A id \in Ids : Committed(id)' <=> Committed(id)
  BY <1>2 DEF Committed
<1>5. InTopic \subseteq Ids /\ late \subseteq Ids
  BY TypeParts, ElementOfSeq DEF TopicTyped, InTopic
<1>6. RowsFollow' /\ PastIsPast'
  BY <1>2, <1>4 DEF RowsFollow, PastIsPast
<1>7. WorkIsTrue'
  BY <1>1, <1>2, <1>3, <1>4, <1>5 DEF WorkIsTrue
<1>8. HeldFromTheFront'
  BY <1>1 DEF HeldFromTheFront
<1>9. LateComesAfter'
  BY <1>3, <1>4, <1>5 DEF LateComesAfter, Announced
<1>10. FirstsInOrder'
  BY <1>3, <1>4, <1>5 DEF FirstsInOrder
<1> QED BY <1>6, <1>7, <1>8, <1>9, <1>10

LEMMA PublishStep ==
  ASSUME DeliveryAssumption, IInv, TypeOK', NEW w \in Workers, Publish(w)
  PROVE  IInv'
<1> USE DEF IInv
<1> DEFINE id == Lowest(Unsent(w))
<1>0. /\ id \in Ids /\ id \in held[w] /\ Announced(id) /\ Committed(id)
      /\ topic' = Append(topic, id) /\ sent' = [sent EXCEPT ![w] = @ \union {id}]
      /\ UNCHANGED <<agg, row, last, past, held, broken, late>>
  BY UnsentIs, NextIsAnnounced DEF Publish, outboxVars
<1> HIDE DEF id
<1>1. InTopic' = InTopic \union {id} /\ FirstsInOrder'
  BY <1>0, AppendingKeepsOrder
<1>2. \A v \in Workers : sent'[v] \subseteq sent[v] \union (IF v = w THEN {id} ELSE {})
  BY <1>0, TypeParts DEF WorkTyped
<1>3. RowsFollow' /\ PastIsPast' /\ HeldFromTheFront' /\ LateComesAfter'
  BY <1>0, <1>1 DEF RowsFollow, PastIsPast, HeldFromTheFront, LateComesAfter, Announced, Committed
<1>4. WorkIsTrue'
  BY <1>0, <1>1, <1>2 DEF WorkIsTrue, Committed
<1> QED BY <1>1, <1>3, <1>4

LEMMA PublishFailsStep ==
  ASSUME DeliveryAssumption, IInv, TypeOK', NEW w \in Workers, PublishFails(w)
  PROVE  IInv'
<1> USE DEF IInv
<1> DEFINE id == Lowest(Unsent(w))
<1>0. /\ Announced(id) /\ Committed(id) /\ late' \in {late, late \union {id}}
      /\ UNCHANGED <<agg, row, last, past, held, sent, topic>>
  BY NextIsAnnounced DEF PublishFails, outboxVars
<1> HIDE DEF id
<1>1. InTopic' = InTopic /\ \A x \in late' : x \in late \/ x = id
  BY <1>0 DEF InTopic
<1>2. RowsFollow' /\ PastIsPast' /\ HeldFromTheFront' /\ FirstsInOrder'
  BY <1>0, <1>1 DEF RowsFollow, PastIsPast, HeldFromTheFront, FirstsInOrder, Committed
<1>3. LateComesAfter'
  BY <1>0, <1>1 DEF LateComesAfter, Announced, Committed
<1>4. WorkIsTrue'
  BY <1>0, <1>1 DEF WorkIsTrue, Committed
<1> QED BY <1>2, <1>3, <1>4

LEMMA WrittenLateStep ==
  ASSUME DeliveryAssumption, IInv, TypeOK', NEW id \in Ids, WrittenLate(id)
  PROVE  IInv'
<1> USE DEF IInv
<1>0. /\ Announced(id) /\ Committed(id) /\ late' = late \ {id}
      /\ topic' = Append(topic, id)
      /\ UNCHANGED <<agg, row, last, past, held, sent, broken>>
  BY DEF WrittenLate, LateComesAfter, WorkIsTrue, outboxVars, workerVars
<1>1. InTopic' = InTopic \union {id} /\ FirstsInOrder'
  BY <1>0, AppendingKeepsOrder
<1>2. RowsFollow' /\ PastIsPast' /\ HeldFromTheFront' /\ LateComesAfter'
  BY <1>0, <1>1 DEF RowsFollow, PastIsPast, HeldFromTheFront, LateComesAfter, Announced, Committed
<1>3. WorkIsTrue'
  BY <1>0, <1>1 DEF WorkIsTrue, Committed
<1> QED BY <1>1, <1>2, <1>3

\* The consumer of the venue touches nothing of this.
LEMMA QuietStep ==
  ASSUME IInv, TypeOK', UNCHANGED <<agg, row, last, past, held, sent, late, topic>>
  PROVE  IInv'
<1> USE DEF IInv
<1>1. InTopic' = InTopic
  BY DEF InTopic
<1> QED BY <1>1 DEF RowsFollow, PastIsPast, WorkIsTrue, HeldFromTheFront, LateComesAfter, Announced,
                    FirstsInOrder, Committed

LEMMA OrderStep == ASSUME DeliveryAssumption, OneWorker, IInv, [Next]_vars PROVE IInv'
<1>0. TypeOK'
  BY TypeStep DEF IInv
<1>1. ASSUME NEW a \in Aggregates, Insert(a) PROVE IInv'
  BY <1>0, <1>1, InsertStep
<1>2. ASSUME NEW id \in Ids, EndChange(id) PROVE IInv'
  BY <1>0, <1>2, EndChangeStep
<1>3. ASSUME NEW id \in Ids, WrittenLate(id) PROVE IInv'
  BY <1>0, <1>3, WrittenLateStep
<1>4. ASSUME NEW w \in Workers, Fetch(w) PROVE IInv'
  BY <1>0, <1>4, FetchStep
<1>5. ASSUME NEW w \in Workers, Publish(w) PROVE IInv'
  BY <1>0, <1>5, PublishStep
<1>6. ASSUME NEW w \in Workers, PublishFails(w) PROVE IInv'
  BY <1>0, <1>6, PublishFailsStep
<1>7. ASSUME NEW w \in Workers, Record(w) PROVE IInv'
  <2>1. row' = [id \in Ids |-> IF id \in sent[w] THEN "published" ELSE row[id]]
    BY <1>7 DEF Record
  <2>2. \A id \in Ids : row'[id] \in {row[id]} \union
                                    (IF id \in sent[w] THEN {"published"} ELSE {})
    BY <2>1
  <2> QED BY <1>0, <1>7, <2>2, LetGoStep DEF Record, brokerVars
<1>8. ASSUME NEW w \in Workers, RollBack(w) PROVE IInv'
  <2>1. UNCHANGED <<agg, row, last, past, late, topic>> /\ LetGo(w)
    BY <1>8 DEF RollBack, outboxVars, brokerVars
  <2> QED BY <1>0, <2>1, LetGoStep
<1>9. CASE Handle \/ CommitOffset \/ Resume \/ UNCHANGED vars
  BY <1>0, <1>9, QuietStep
     DEF Handle, CommitOffset, Resume, vars, outboxVars, workerVars, brokerVars
<1> QED BY <1>1, <1>2, <1>3, <1>4, <1>5, <1>6, <1>7, <1>8, <1>9 DEF Next

\* The first copies of the events of a venue stand in the topic in the order of
\* the changes and none is missing, whatever fails, is repeated or is written
\* late: with one worker, for any orders, batches and faults.
THEOREM InOrder == ASSUME OneWorker PROVE Spec => []FirstCopiesInOrder
<1>1. Init => IInv
  BY DeliveryAssumption, OrderInit
<1>2. IInv /\ [Next]_vars => IInv'
  BY DeliveryAssumption, OneWorker, OrderStep
<1>3. IInv => FirstCopiesInOrder
  BY FirstCopies DEF IInv
<1> QED BY <1>1, <1>2, <1>3, PTL DEF Spec

----------------------------------------------------------------------------
(* The order of the effects, with one worker *)

\* A row that was inserted is of an order.
RowsAreOfOrders == \A id \in Ids : row[id] # "none" => agg[id] \in Aggregates

\* The inbox holds what stands in a first part of the topic, and a consumer that
\* has started again is still inside of it.
KnownUpTo(h) == known = {topic[k] : k \in 1..h}
KnownIsTheFront == \E h \in position..Len(topic) : KnownUpTo(h)

EffectsAreKnown == \A k \in 1..Len(effects) : effects[k] \in known

\* What the venue has worked on of an order is what it knows of it, in the order
\* of the changes.
KnownOf(a) == known \intersect EventsOf(a)
EffectsInOrder ==
  \A a \in Aggregates : Picks(effects, EventsOf(a)) = Picks(InOrderOfId, KnownOf(a))

VenueKeepsUp ==
  /\ RowsAreOfOrders
  /\ KnownIsTheFront
  /\ EffectsAreKnown
  /\ EffectsInOrder

WrittenNow == [a \in Aggregates |-> Picks(InOrderOfId, CommittedOf(a))]
DoneNow == [a \in Aggregates |-> Picks(effects, EventsOf(a))]
Stands == WrittenNow' = WrittenNow /\ DoneNow' = DoneNow

LEMMA OneMore ==
  ASSUME NEW A, NEW f, NEW g, NEW a \in A, NEW e,
         f = [b \in A |-> f[b]], g = [b \in A |-> g[b]],
         g[a] = Append(f[a], e), \A b \in A : b # a => g[b] = f[b]
  PROVE  g = [f EXCEPT ![a] = Append(@, e)]
<1>1. \A b \in A : g[b] = [f EXCEPT ![a] = Append(@, e)][b]
  OBVIOUS
<1>2. [f EXCEPT ![a] = Append(@, e)] = [b \in A |-> [f EXCEPT ![a] = Append(@, e)][b]]
  OBVIOUS
<1> QED BY <1>1, <1>2

LEMMA FirstInIsLeast ==
  ASSUME NEW q \in Seq(Ids), NEW k \in 1..Len(q)
  PROVE  FirstIn(q, q[k]) \in 1..Len(q) /\ q[FirstIn(q, q[k])] = q[k] /\ FirstIn(q, q[k]) <= k
<1> DEFINE f == FirstIn(q, q[k])
<1>1. f \in 1..Len(q) /\ q[f] = q[k] /\ \A j \in 1..(f - 1) : q[j] # q[k]
  BY FirstInIs
<1>2. Len(q) \in Nat
  BY LenProperties
<1> HIDE DEF f
<1>3. f <= k
  BY <1>1, <1>2
<1> QED BY <1>1, <1>3 DEF f

LEMMA KnownAreCommitted ==
  ASSUME DeliveryAssumption, IInv, KnownIsTheFront
  PROVE  /\ known \subseteq InTopic /\ InTopic \subseteq Ids
         /\ \A id \in InTopic : Committed(id) /\ row[id] # "none" /\ row[id] # "inserted"
<1>1. PICK h \in position..Len(topic) : KnownUpTo(h)
  BY DEF KnownIsTheFront
<1>2. h \in Nat /\ h <= Len(topic)
  BY <1>1, Numbers DEF IInv
<1>3. known \subseteq InTopic
  BY <1>1, <1>2 DEF KnownUpTo, InTopic
<1>4. InTopic \subseteq Ids
  BY TypeParts, ElementOfSeq DEF IInv, TopicTyped, InTopic
<1>5. \A id \in InTopic : Committed(id)
  BY DEF IInv, WorkIsTrue
<1> QED BY <1>3, <1>4, <1>5 DEF Committed

\* Whatever leaves orders, effects and the inbox alone, and decides no change.
LEMMA NothingTakesEffect ==
  ASSUME DeliveryAssumption, IInv, VenueKeepsUp, UNCHANGED <<agg, effects, known>>,
         \A id \in Ids : /\ Committed(id)' <=> Committed(id)
                         /\ row[id] = "none" => row'[id] = "none",
         KnownIsTheFront'
  PROVE  VenueKeepsUp' /\ Stands
<1>1. \A a : EventsOf(a)' = EventsOf(a) /\ CommittedOf(a)' = CommittedOf(a)
  BY DEF EventsOf, CommittedOf
<1>2. InOrderOfId' = InOrderOfId
  BY DEF InOrderOfId
<1>3. \A a : Picks(InOrderOfId, CommittedOf(a))' = Picks(InOrderOfId, CommittedOf(a))
  BY <1>1, <1>2
<1>4. \A a : Picks(effects, EventsOf(a))' = Picks(effects, EventsOf(a))
  BY <1>1
<1>5. Stands
  BY <1>3, <1>4 DEF Stands, WrittenNow, DoneNow
<1>6. EffectsInOrder'
  <2>1. \A a : KnownOf(a)' = KnownOf(a)
    BY <1>1 DEF KnownOf
  <2>2. \A a : Picks(InOrderOfId, KnownOf(a))' = Picks(InOrderOfId, KnownOf(a))
    BY <1>2, <2>1
  <2> QED BY <1>4, <2>2 DEF EffectsInOrder, VenueKeepsUp
<1>7. RowsAreOfOrders' /\ EffectsAreKnown'
  BY DEF VenueKeepsUp, RowsAreOfOrders, EffectsAreKnown
<1> QED BY <1>5, <1>6, <1>7 DEF VenueKeepsUp

LEMMA FrontStands ==
  ASSUME DeliveryAssumption, IInv, VenueKeepsUp, UNCHANGED <<topic, known>>,
         position' \in Nat, position' <= position
  PROVE  KnownIsTheFront'
<1>1. PICK h \in position..Len(topic) : KnownUpTo(h)
  BY DEF VenueKeepsUp, KnownIsTheFront
<1>2. h \in position'..Len(topic') /\ KnownUpTo(h)'
  BY <1>1, Numbers DEF IInv, KnownUpTo
<1> QED BY <1>2 DEF KnownIsTheFront

LEMMA FrontOfALongerTopic ==
  ASSUME DeliveryAssumption, IInv, VenueKeepsUp, UNCHANGED <<position, known>>,
         NEW id \in Ids, topic' = Append(topic, id)
  PROVE  KnownIsTheFront'
<1>1. PICK h \in position..Len(topic) : KnownUpTo(h)
  BY DEF VenueKeepsUp, KnownIsTheFront
<1>2. Len(topic') = Len(topic) + 1 /\ \A k \in 1..Len(topic) : topic'[k] = topic[k]
  BY TypeParts, AppendProperties DEF IInv, TopicTyped
<1>3. h \in position'..Len(topic') /\ \A k \in 1..h : topic'[k] = topic[k]
  BY <1>1, <1>2, Numbers DEF IInv
<1>4. KnownUpTo(h)'
  BY <1>1, <1>3 DEF KnownUpTo
<1> QED BY <1>3, <1>4 DEF KnownIsTheFront

LEMMA InsertTakesNoEffect ==
  ASSUME DeliveryAssumption, IInv, VenueKeepsUp, NEW a \in Aggregates, Insert(a)
  PROVE  VenueKeepsUp' /\ Stands
<1>0. /\ UNCHANGED <<topic, position, known, effects>>
      /\ last < MaxEvents /\ last' = last + 1
  BY DEF Insert, brokerVars, consumerVars
<1>1. last' \in Ids /\ last' > last
  BY <1>0, Numbers DEF Ids, IInv
<1>2. /\ \A id \in Ids : agg'[id] = IF id = last' THEN a ELSE agg[id]
      /\ \A id \in Ids : row'[id] = IF id = last' THEN "inserted" ELSE row[id]
  BY <1>1, TypeParts DEF Insert, OutboxTyped, IInv
<1>3. row[last'] = "none"
  BY <1>1 DEF RowsFollow, IInv
<1>4. last' \notin known /\ \A k \in 1..Len(effects) : effects[k] # last'
  BY <1>3, KnownAreCommitted DEF VenueKeepsUp, EffectsAreKnown
<1>5. \A b : CommittedOf(b)' = CommittedOf(b)
  BY <1>2, <1>3 DEF CommittedOf, EventsOf, Committed
<1>6. \A b : KnownOf(b)' = KnownOf(b)
  BY <1>0, <1>2, <1>4 DEF KnownOf, EventsOf
<1>7. \A b : Picks(effects, EventsOf(b))' = Picks(effects, EventsOf(b))
  <2> SUFFICES ASSUME NEW b PROVE Picks(effects, EventsOf(b))' = Picks(effects, EventsOf(b))
    OBVIOUS
  <2>1. effects \in Seq(Ids)
    BY TypeParts DEF IInv, VenueTyped
  <2>2. Len(effects) \in Nat /\ \A k \in 1..Len(effects) : effects[k] \in Ids
    BY <2>1, LenProperties, ElementOfSeq
  <2>3. \A k \in 1..Len(effects) : effects[k] \in EventsOf(b)' <=> effects[k] \in EventsOf(b)
    BY <1>2, <1>4, <2>2 DEF EventsOf
  <2>4. Picks(effects, EventsOf(b)') = Picks(effects, EventsOf(b))
    BY <2>2, <2>3, SamePicks
  <2> QED BY <1>0, <2>4
<1>8. Stands
  <2>1. \A b : Picks(InOrderOfId, CommittedOf(b))' = Picks(InOrderOfId, CommittedOf(b))
    BY <1>5 DEF InOrderOfId
  <2> QED BY <1>7, <2>1 DEF Stands, WrittenNow, DoneNow
<1>9. EffectsInOrder'
  <2>1. \A b : Picks(InOrderOfId, KnownOf(b))' = Picks(InOrderOfId, KnownOf(b))
    BY <1>6 DEF InOrderOfId
  <2> QED BY <1>7, <2>1 DEF EffectsInOrder, VenueKeepsUp
<1>10. KnownIsTheFront'
  <2>1. position' \in Nat /\ position' <= position
    BY <1>0, Numbers DEF IInv
  <2> QED BY <1>0, <2>1, FrontStands
<1>11. RowsAreOfOrders' /\ EffectsAreKnown'
  BY <1>0, <1>2 DEF VenueKeepsUp, RowsAreOfOrders, EffectsAreKnown
<1> QED BY <1>8, <1>9, <1>10, <1>11 DEF VenueKeepsUp

\* A change that commits is the last one of its order, in the order of the
\* identifiers too: no other one of it is open.
LEMMA CommitWrites ==
  ASSUME DeliveryAssumption, IInv, VenueKeepsUp, NEW id \in Ids, row[id] = "inserted",
         UNCHANGED <<agg, topic, consumerVars>>,
         \A x \in Ids : row'[x] = IF x = id THEN "waiting" ELSE row[x]
  PROVE  /\ VenueKeepsUp' /\ agg[id] \in Aggregates /\ DoneNow' = DoneNow
         /\ WrittenNow' = [WrittenNow EXCEPT ![agg[id]] = Append(@, id)]
<1>0. UNCHANGED <<position, known, effects>>
  BY DEF consumerVars
<1>1. PICK a \in Aggregates : a = agg[id]
  BY DEF VenueKeepsUp, RowsAreOfOrders
<1>2. \A x \in Ids : x >= id => x \notin CommittedOf(a)
  <2> SUFFICES ASSUME NEW x \in Ids, x >= id, x \in CommittedOf(a) PROVE FALSE
    OBVIOUS
  <2>1. Committed(x) /\ agg[x] = agg[id]
    BY <1>1 DEF CommittedOf, EventsOf
  <2>2. x # id /\ row[x] # "none"
    BY <2>1 DEF Committed
  <2>3. id < x
    BY <2>2, Numbers DEF IInv
  <2> QED BY <2>1, <2>2, <2>3 DEF IInv, RowsFollow
<1>3. CommittedOf(a)' = CommittedOf(a) \union {id}
  BY <1>1 DEF CommittedOf, EventsOf, Committed
<1>4. \A b : b # a => CommittedOf(b)' = CommittedOf(b)
  BY <1>1 DEF CommittedOf, EventsOf, Committed
<1>5. \A b : EventsOf(b)' = EventsOf(b)
  BY DEF EventsOf
<1>6. Picks(InOrderOfId, CommittedOf(a) \union {id}) = Append(Picks(InOrderOfId, CommittedOf(a)), id)
  BY <1>2, PicksALastRow
<1>7. InOrderOfId' = InOrderOfId
  BY DEF InOrderOfId
<1>8. Picks(InOrderOfId, CommittedOf(a))' = Append(Picks(InOrderOfId, CommittedOf(a)), id)
  BY <1>3, <1>6, <1>7
<1>9. \A b : b # a => Picks(InOrderOfId, CommittedOf(b))' = Picks(InOrderOfId, CommittedOf(b))
  BY <1>4, <1>7
<1>10. WrittenNow' = [WrittenNow EXCEPT ![a] = Append(@, id)]
  <2>1. \A b \in Aggregates : WrittenNow[b] = Picks(InOrderOfId, CommittedOf(b)) /\ WrittenNow'[b] = Picks(InOrderOfId, CommittedOf(b))'
    BY DEF WrittenNow
  <2>2. WrittenNow'[a] = Append(WrittenNow[a], id) /\ \A b \in Aggregates : b # a => WrittenNow'[b] = WrittenNow[b]
    BY <1>1, <1>8, <1>9, <2>1
  <2>3. /\ WrittenNow = [b \in Aggregates |-> WrittenNow[b]]
        /\ WrittenNow' = [b \in Aggregates |-> WrittenNow'[b]]
    BY DEF WrittenNow
  <2> QED BY <1>1, <2>2, <2>3, OneMore
<1>11. \A b : Picks(effects, EventsOf(b))' = Picks(effects, EventsOf(b))
  BY <1>0, <1>5
<1>12. DoneNow' = DoneNow
  BY <1>11 DEF DoneNow
<1>13. EffectsInOrder'
  <2>1. \A b : KnownOf(b)' = KnownOf(b)
    BY <1>0, <1>5 DEF KnownOf
  <2>2. \A b : Picks(InOrderOfId, KnownOf(b))' = Picks(InOrderOfId, KnownOf(b))
    BY <1>7, <2>1
  <2> QED BY <1>11, <2>2 DEF EffectsInOrder, VenueKeepsUp
<1>14. KnownIsTheFront'
  <2>1. position' \in Nat /\ position' <= position
    BY <1>0, Numbers DEF IInv
  <2> QED BY <1>0, <2>1, FrontStands
<1>15. RowsAreOfOrders' /\ EffectsAreKnown'
  BY <1>0, <1>1 DEF VenueKeepsUp, RowsAreOfOrders, EffectsAreKnown
<1> QED BY <1>1, <1>10, <1>12, <1>13, <1>14, <1>15 DEF VenueKeepsUp

\* What is handled: of its order everything before it is known, nothing after.
LEMMA TheNextOneIsNext ==
  ASSUME DeliveryAssumption, IInv, VenueKeepsUp, position < Len(topic),
         topic[position + 1] \notin known
  PROVE  LET id == topic[position + 1]  a == agg[id] IN
           /\ id \in Ids /\ a \in Aggregates /\ id \in CommittedOf(a) /\ id \in EventsOf(a)
           /\ \A x \in Ids : x >= id => x \notin KnownOf(a)
           /\ \A x \in Ids : x < id => (x \in KnownOf(a) <=> x \in CommittedOf(a))
           /\ KnownUpTo(position)
<1> DEFINE id == topic[position + 1]
           a == agg[id]
<1>1. position + 1 \in 1..Len(topic) /\ topic \in Seq(Ids) /\ position \in Nat /\ Len(topic) \in Nat
  BY Numbers, TypeParts DEF IInv, TopicTyped
<1>2. id \in InTopic
  BY <1>1 DEF InTopic
<1>3. /\ id \in Ids /\ Committed(id) /\ row[id] # "none"
      /\ known \subseteq InTopic /\ InTopic \subseteq Ids /\ \A x \in InTopic : Committed(x)
  BY <1>2, KnownAreCommitted DEF VenueKeepsUp
<1>4. a \in Aggregates /\ id \in CommittedOf(a) /\ id \in EventsOf(a)
  BY <1>3 DEF VenueKeepsUp, RowsAreOfOrders, CommittedOf, EventsOf
<1>5. PICK h \in position..Len(topic) : KnownUpTo(h)
  BY DEF VenueKeepsUp, KnownIsTheFront
<1>6. h \in Nat /\ position <= h /\ h <= Len(topic)
  BY <1>1, <1>5
<1>7. FirstIn(topic, id) <= position + 1 /\ FirstIn(topic, id) \in 1..Len(topic)
      /\ topic[FirstIn(topic, id)] = id
  BY <1>1, FirstInIsLeast
<1>8. id \notin known
  OBVIOUS
<1> HIDE DEF id
<1>9. h = position
  BY <1>1, <1>5, <1>6, <1>8 DEF KnownUpTo, id
<1>10. ASSUME NEW x \in Ids, x < id, x \in CommittedOf(a)
       PROVE  x \in KnownOf(a)
  <2>1. agg[x] = agg[id] /\ Committed(x) /\ x \in EventsOf(a)
    BY <1>10 DEF CommittedOf, EventsOf
  <2>2. x \in InTopic /\ FirstIn(topic, x) < FirstIn(topic, id)
    BY <1>2, <1>3, <1>10, <2>1 DEF IInv, PastIsPast, FirstsInOrder
  <2>3. PICK k \in 1..Len(topic) : topic[k] = x
    BY <2>2 DEF InTopic
  <2>4. FirstIn(topic, x) \in 1..Len(topic) /\ topic[FirstIn(topic, x)] = x
    BY <1>1, <2>3, FirstInIsLeast
  <2>5. FirstIn(topic, x) \in 1..h
    BY <1>1, <1>6, <1>7, <2>2, <2>4
  <2>6. x \in known
    BY <1>5, <2>4, <2>5 DEF KnownUpTo
  <2> QED BY <2>1, <2>6 DEF KnownOf
<1>11. ASSUME NEW x \in Ids, x >= id, x \in KnownOf(a)
       PROVE  FALSE
  <2>1. agg[x] = agg[id] /\ x \in known /\ x \in InTopic
    BY <1>3, <1>11 DEF KnownOf, EventsOf
  <2>2. id < x
    BY <1>3, <1>8, <1>11, <2>1, Numbers DEF IInv
  <2>3. row[x] # "none"
    BY <1>3, <2>1 DEF Committed
  <2>8. FirstIn(topic, id) < FirstIn(topic, x)
    BY <1>3, <2>1, <2>2, <2>3 DEF IInv, PastIsPast, FirstsInOrder
  <2>4. PICK k \in 1..h : topic[k] = x
    BY <1>5, <2>1 DEF KnownUpTo
  <2>5. k \in 1..Len(topic)
    BY <1>6
  <2>6. FirstIn(topic, x) <= k /\ FirstIn(topic, x) \in 1..Len(topic)
    BY <1>1, <2>4, <2>5, FirstInIsLeast
  <2>7. FirstIn(topic, id) \in 1..h
    BY <1>1, <1>6, <1>7, <2>6, <2>8
  <2> QED BY <1>5, <1>7, <1>8, <2>7 DEF KnownUpTo
<1>12. \A x \in Ids : x \in KnownOf(a) => x \in CommittedOf(a)
  BY <1>3 DEF KnownOf, CommittedOf
<1> HIDE DEF a
<1>13. /\ id \in Ids /\ a \in Aggregates /\ id \in CommittedOf(a) /\ id \in EventsOf(a)
       /\ \A x \in Ids : x >= id => x \notin KnownOf(a)
       /\ \A x \in Ids : x < id => (x \in KnownOf(a) <=> x \in CommittedOf(a))
       /\ KnownUpTo(position)
  BY <1>3, <1>4, <1>5, <1>9, <1>10, <1>11, <1>12
<1> QED BY <1>13 DEF id, a

LEMMA HandlingTakesEffect ==
  ASSUME DeliveryAssumption, IInv, VenueKeepsUp, Handle, topic[position + 1] \notin known
  PROVE  /\ VenueKeepsUp' /\ WrittenNow' = WrittenNow
         /\ \E a \in Aggregates :
              /\ Len(DoneNow[a]) < Len(WrittenNow[a])
              /\ DoneNow' = [DoneNow EXCEPT ![a] = Append(@, WrittenNow[a][Len(@) + 1])]
<1>0. PICK id : id = topic[position + 1]
  OBVIOUS
<1>a. PICK a : a = agg[id]
  OBVIOUS
<1>1. /\ position < Len(topic) /\ position' = position + 1 /\ known' = known \union {id}
      /\ effects' = Append(effects, id)
      /\ UNCHANGED <<agg, row, topic>>
  BY <1>0 DEF Handle, Remember, outboxVars, brokerVars
<1>2. /\ id \in Ids /\ a \in Aggregates /\ id \in CommittedOf(a) /\ id \in EventsOf(a)
      /\ \A x \in Ids : x >= id => x \notin KnownOf(a)
      /\ \A x \in Ids : x < id => (x \in KnownOf(a) <=> x \in CommittedOf(a))
      /\ KnownUpTo(position)
  BY <1>0, <1>a, <1>1, TheNextOneIsNext
<1>3. \A b : EventsOf(b)' = EventsOf(b) /\ CommittedOf(b)' = CommittedOf(b)
  BY <1>1 DEF EventsOf, CommittedOf, Committed
<1>4. \A b : b # a => id \notin EventsOf(b)
  BY <1>a DEF EventsOf
<1>6. effects \in Seq(Ids)
  BY TypeParts DEF IInv, VenueTyped
<1>7. InOrderOfId' = InOrderOfId
  BY DEF InOrderOfId
<1>8. \A b : Picks(InOrderOfId, CommittedOf(b))' = Picks(InOrderOfId, CommittedOf(b))
  BY <1>3, <1>7
<1>9. Picks(effects, EventsOf(a)) = Picks(InOrderOfId, KnownOf(a))
  BY <1>2 DEF VenueKeepsUp, EffectsInOrder
<1>10. /\ Picks(effects, EventsOf(a))' = Append(Picks(effects, EventsOf(a)), id)
       /\ \A b : b # a => Picks(effects, EventsOf(b))' = Picks(effects, EventsOf(b))
  <2>1. \A b : Picks(Append(effects, id), EventsOf(b)) =
                 IF id \in EventsOf(b) THEN Append(Picks(effects, EventsOf(b)), id)
                                       ELSE Picks(effects, EventsOf(b))
    BY <1>2, <1>6, PicksOfMore
  <2>2. ASSUME NEW b
        PROVE  Picks(effects, EventsOf(b))' = Picks(Append(effects, id), EventsOf(b))
    <3>1. effects' = Append(effects, id) /\ EventsOf(b)' = EventsOf(b)
      BY <1>1, <1>3
    <3>2. Picks(effects', EventsOf(b)') = Picks(Append(effects, id), EventsOf(b))
      BY <3>1
    <3> QED BY <3>2
  <2> QED BY <1>2, <1>4, <2>1, <2>2
<1>11. /\ Len(Picks(InOrderOfId, KnownOf(a))) < Len(Picks(InOrderOfId, CommittedOf(a)))
       /\ Picks(InOrderOfId, CommittedOf(a))[Len(Picks(InOrderOfId, KnownOf(a))) + 1] = id
  BY <1>2, PicksTheNextRow
<1>12. Picks(InOrderOfId, KnownOf(a) \union {id}) = Append(Picks(InOrderOfId, KnownOf(a)), id)
  BY <1>2, PicksALastRow
<1>13. WrittenNow' = WrittenNow
  BY <1>8 DEF WrittenNow
<1>14. /\ DoneNow[a] = Picks(InOrderOfId, KnownOf(a))
       /\ WrittenNow[a] = Picks(InOrderOfId, CommittedOf(a))
  BY <1>2, <1>9 DEF DoneNow, WrittenNow
<1>15. DoneNow' = [DoneNow EXCEPT ![a] = Append(@, id)]
  <2>1. \A b \in Aggregates : DoneNow[b] = Picks(effects, EventsOf(b)) /\ DoneNow'[b] = Picks(effects, EventsOf(b))'
    BY DEF DoneNow
  <2>2. DoneNow'[a] = Append(DoneNow[a], id) /\ \A b \in Aggregates : b # a => DoneNow'[b] = DoneNow[b]
    BY <1>2, <1>10, <2>1
  <2>3. /\ DoneNow = [b \in Aggregates |-> DoneNow[b]]
        /\ DoneNow' = [b \in Aggregates |-> DoneNow'[b]]
    BY DEF DoneNow
  <2> QED BY <1>2, <2>2, <2>3, OneMore
<1>16. EffectsInOrder'
  <2>0. ASSUME NEW b
        PROVE  /\ KnownOf(b)' = (known \union {id}) \intersect EventsOf(b)
               /\ KnownOf(b) = known \intersect EventsOf(b)
    BY <1>1, <1>3 DEF KnownOf
  <2>1. KnownOf(a)' = KnownOf(a) \union {id} /\ \A b : b # a => KnownOf(b)' = KnownOf(b)
    <3>1. ASSUME NEW b, id \notin EventsOf(b) PROVE KnownOf(b)' = KnownOf(b)
      BY <2>0, <3>1
    <3>2. ASSUME id \in EventsOf(a) PROVE KnownOf(a)' = KnownOf(a) \union {id}
      BY <2>0, <3>2
    <3> QED BY <1>2, <1>4, <3>1, <3>2
  <2>2. Picks(InOrderOfId, KnownOf(a))' = Append(Picks(InOrderOfId, KnownOf(a)), id)
    BY <1>7, <1>12, <2>1
  <2>3. Picks(effects, EventsOf(a))' = Picks(InOrderOfId, KnownOf(a))'
    BY <1>9, <1>10, <2>2
  <2>4. ASSUME NEW b \in Aggregates, b # a
        PROVE  Picks(effects, EventsOf(b))' = Picks(InOrderOfId, KnownOf(b))'
    <3>1. Picks(InOrderOfId, KnownOf(b))' = Picks(InOrderOfId, KnownOf(b))
      BY <1>7, <2>1, <2>4
    <3>2. Picks(effects, EventsOf(b)) = Picks(InOrderOfId, KnownOf(b))
      BY DEF VenueKeepsUp, EffectsInOrder
    <3> QED BY <1>10, <2>4, <3>1, <3>2
  <2> QED BY <2>3, <2>4 DEF EffectsInOrder
<1>17. KnownIsTheFront'
  <2>1. position \in Nat /\ Len(topic) \in Nat
    BY Numbers DEF IInv
  <2>2. 1..(position + 1) = 1..position \union {position + 1}
    BY <2>1
  <2>0. PICK n \in Nat : n = position + 1
    BY <2>1
  <2>3. KnownUpTo(n)'
    BY <1>0, <1>1, <1>2, <2>0, <2>2 DEF KnownUpTo
  <2>4. n \in position'..Len(topic')
    BY <1>1, <2>0, <2>1
  <2> QED BY <2>3, <2>4 DEF KnownIsTheFront
<1>18. EffectsAreKnown'
  <2>1. /\ Len(effects') = Len(effects) + 1 /\ effects'[Len(effects) + 1] = id
        /\ \A k \in 1..Len(effects) : effects'[k] = effects[k]
    BY <1>1, <1>2, <1>6, AppendProperties
  <2>2. \A k \in 1..Len(effects') : k \in 1..Len(effects) \/ k = Len(effects) + 1
    BY <1>6, <2>1, LenProperties
  <2> QED BY <1>1, <2>1, <2>2 DEF VenueKeepsUp, EffectsAreKnown
<1>19. RowsAreOfOrders'
  BY <1>1 DEF VenueKeepsUp, RowsAreOfOrders
<1>20. /\ Len(DoneNow[a]) < Len(WrittenNow[a])
       /\ DoneNow' = [DoneNow EXCEPT ![a] = Append(@, WrittenNow[a][Len(@) + 1])]
  BY <1>11, <1>14, <1>15
<1> QED BY <1>2, <1>13, <1>16, <1>17, <1>18, <1>19, <1>20 DEF VenueKeepsUp

\* An event that comes again is passed over.
LEMMA HandlingPassesOver ==
  ASSUME DeliveryAssumption, IInv, VenueKeepsUp, Handle, topic[position + 1] \in known
  PROVE  VenueKeepsUp' /\ Stands
<1>1. /\ position < Len(topic) /\ position' = position + 1
      /\ known' = known /\ UNCHANGED <<agg, row, topic, effects>>
  BY DEF Handle, Remember, outboxVars, brokerVars
<1>2. position \in Nat /\ Len(topic) \in Nat
  BY Numbers DEF IInv
<1>3. PICK h \in position..Len(topic) : KnownUpTo(h)
  BY DEF VenueKeepsUp, KnownIsTheFront
<1>4. KnownIsTheFront'
  <2>1. CASE h > position
    <3>1. h \in position'..Len(topic') /\ KnownUpTo(h)'
      BY <1>1, <1>2, <1>3, <2>1 DEF KnownUpTo
    <3> QED BY <3>1 DEF KnownIsTheFront
  <2>2. CASE h = position
    <3>1. 1..(position + 1) = 1..position \union {position + 1}
      BY <1>2
    <3>0. PICK n \in Nat : n = position + 1
      BY <1>2
    <3>2. KnownUpTo(n)'
      BY <1>1, <1>3, <2>2, <3>0, <3>1 DEF KnownUpTo
    <3>3. n \in position'..Len(topic')
      BY <1>1, <1>2, <3>0
    <3> QED BY <3>2, <3>3 DEF KnownIsTheFront
  <2> QED BY <1>2, <1>3, <2>1, <2>2
<1>5. \A id \in Ids : (Committed(id)' <=> Committed(id)) /\ (row[id] = "none" => row'[id] = "none")
  BY <1>1 DEF Committed
<1> QED BY <1>1, <1>4, <1>5, NothingTakesEffect

VInv == IInv /\ VenueKeepsUp

LEMMA EffectsInit ==
  ASSUME DeliveryAssumption, Init
  PROVE  /\ VenueKeepsUp
         /\ WrittenNow = [a \in Aggregates |-> <<>>] /\ DoneNow = [a \in Aggregates |-> <<>>]
<1>1. Len(effects) = 0 /\ Len(topic) = 0 /\ effects = <<>> /\ known = {} /\ position = 0
  BY EmptySeq DEF Init
<1>2. ASSUME NEW S PROVE Picks(effects, S) = <<>>
  <2>1. Len(effects) \in Nat /\ Len(effects) = 0
    BY <1>1
  <2> QED BY <2>1, PickUpIs
<1>3. ASSUME NEW S, \A x \in Ids : x \notin S PROVE Picks(InOrderOfId, S) = <<>>
  <2> DEFINE q == InOrderOfId
  <2>1. q \in Seq(Ids) /\ Len(q) \in Nat
    BY RowsInOrder
  <2>2. \A k \in 1..Len(q) : q[k] \notin S
    BY <1>3, <2>1, ElementOfSeq
  <2> HIDE DEF q
  <2>3. 0 <= Len(q) /\ \A k \in (0 + 1)..Len(q) : q[k] \notin S
    BY <2>1, <2>2
  <2>4. PickUp(q, S)[Len(q)] = PickUp(q, S)[0]
    BY <2>1, <2>3, NothingMoreToPick
  <2>5. PickUp(q, S)[0] = <<>> /\ Picks(q, S) = PickUp(q, S)[Len(q)]
    BY <2>1, PickUpIs
  <2> QED BY <2>4, <2>5 DEF q
<1>4. \A a : \A x \in Ids : x \notin CommittedOf(a) /\ x \notin KnownOf(a)
  BY <1>1 DEF Init, CommittedOf, EventsOf, Committed, KnownOf
<1>5. RowsAreOfOrders /\ EffectsAreKnown
  BY <1>1 DEF Init, RowsAreOfOrders, EffectsAreKnown
<1>6. KnownIsTheFront
  <2>1. 0 \in position..Len(topic) /\ KnownUpTo(0)
    BY <1>1 DEF KnownUpTo
  <2> QED BY <2>1 DEF KnownIsTheFront
<1>7. \A a : /\ Picks(effects, EventsOf(a)) = <<>> /\ Picks(InOrderOfId, KnownOf(a)) = <<>>
             /\ Picks(InOrderOfId, CommittedOf(a)) = <<>>
  BY <1>2, <1>3, <1>4
<1> QED BY <1>5, <1>6, <1>7 DEF VenueKeepsUp, EffectsInOrder, WrittenNow, DoneNow

\* Every step writes an event of an order, takes the next one of an order into
\* effect, or does neither.
LEMMA EffectsStep ==
  ASSUME DeliveryAssumption, OneWorker, VInv, [Next]_vars
  PROVE  /\ VInv'
         /\ \/ Stands
            \/ \E a \in Aggregates, id \in Ids :
                 /\ WrittenNow' = [WrittenNow EXCEPT ![a] = Append(@, id)]
                 /\ DoneNow' = DoneNow
            \/ \E a \in Aggregates :
                 /\ Len(DoneNow[a]) < Len(WrittenNow[a])
                 /\ DoneNow' = [DoneNow EXCEPT ![a] = Append(@, WrittenNow[a][Len(@) + 1])]
                 /\ WrittenNow' = WrittenNow
<1> DEFINE Writes == \E a \in Aggregates, id \in Ids :
                       /\ WrittenNow' = [WrittenNow EXCEPT ![a] = Append(@, id)]
                       /\ DoneNow' = DoneNow
           Takes == \E a \in Aggregates :
                      /\ Len(DoneNow[a]) < Len(WrittenNow[a])
                      /\ DoneNow' = [DoneNow EXCEPT ![a] = Append(@, WrittenNow[a][Len(@) + 1])]
                      /\ WrittenNow' = WrittenNow
           Good == VenueKeepsUp' /\ (Stands \/ Writes \/ Takes)
<1> USE DEF VInv
<1>0. IInv'
  BY OrderStep
<1>a. position \in Nat /\ offset \in Nat /\ offset <= position
  BY Numbers DEF IInv
<1>b. ASSUME UNCHANGED <<agg, row, effects, known>>, KnownIsTheFront' PROVE Good
  <2>1. \A id \in Ids : /\ Committed(id)' <=> Committed(id)
                        /\ row[id] = "none" => row'[id] = "none"
    BY <1>b DEF Committed
  <2> QED BY <1>b, <2>1, NothingTakesEffect
<1>c. ASSUME UNCHANGED <<agg, row, effects, known, topic, position>> PROVE Good
  <2>1. KnownIsTheFront'
    BY <1>a, <1>c, FrontStands
  <2> QED BY <1>b, <1>c, <2>1
<1>1. ASSUME NEW a \in Aggregates, Insert(a) PROVE Good
  BY <1>1, InsertTakesNoEffect
<1>2. ASSUME NEW id \in Ids, EndChange(id) PROVE Good
  <2>1. UNCHANGED <<agg, topic, consumerVars, position, effects, known>> /\ row[id] = "inserted"
    BY <1>2 DEF EndChange, brokerVars, consumerVars
  <2>2. PICK end \in {"waiting", "undone"} :
          \A x \in Ids : row'[x] = IF x = id THEN end ELSE row[x]
    BY <1>2, TypeParts DEF EndChange, OutboxTyped, IInv
  <2>3. CASE end = "waiting"
    BY <2>1, <2>2, <2>3, CommitWrites
  <2>4. CASE end = "undone"
    <3>1. KnownIsTheFront'
      BY <1>a, <2>1, FrontStands
    <3>2. \A x \in Ids : (Committed(x)' <=> Committed(x)) /\ (row[x] = "none" => row'[x] = "none")
      BY <2>1, <2>2, <2>4 DEF Committed
    <3> QED BY <2>1, <3>1, <3>2, NothingTakesEffect
  <2> QED BY <2>3, <2>4
<1>3. ASSUME NEW id \in Ids, WrittenLate(id) PROVE Good
  <2>1. UNCHANGED <<agg, row, effects, known, position>> /\ topic' = Append(topic, id)
    BY <1>3 DEF WrittenLate, outboxVars, consumerVars
  <2> QED BY <1>b, <2>1, FrontOfALongerTopic
<1>4. ASSUME NEW w \in Workers, Publish(w) PROVE Good
  <2>1. /\ UNCHANGED <<agg, row, effects, known, position>>
        /\ topic' = Append(topic, Lowest(Unsent(w))) /\ Unsent(w) # {}
    BY <1>4 DEF Publish, outboxVars, consumerVars
  <2>2. Lowest(Unsent(w)) \in Ids
    BY <2>1, UnsentIs DEF IInv
  <2> QED BY <1>b, <2>1, <2>2, FrontOfALongerTopic
<1>5. ASSUME NEW w \in Workers, Fetch(w) \/ PublishFails(w) \/ RollBack(w) PROVE Good
  BY <1>c, <1>5 DEF Fetch, PublishFails, RollBack, outboxVars, brokerVars, consumerVars
<1>6. ASSUME NEW w \in Workers, Record(w) PROVE Good
  <2>1. UNCHANGED <<agg, effects, known, topic, position>>
    BY <1>6 DEF Record, brokerVars, consumerVars
  <2>2. KnownIsTheFront'
    BY <1>a, <2>1, FrontStands
  <2>3. \A id \in Ids : row'[id] = IF id \in sent[w] THEN "published" ELSE row[id]
    BY <1>6 DEF Record
  <2>4. \A id \in sent[w] : row[id] = "waiting"
    BY DEF IInv, WorkIsTrue
  <2>5. \A id \in Ids : (Committed(id)' <=> Committed(id)) /\ (row[id] = "none" => row'[id] = "none")
    BY <2>3, <2>4 DEF Committed
  <2> QED BY <2>1, <2>2, <2>5, NothingTakesEffect
<1>7. ASSUME Handle PROVE Good
  <2>1. CASE topic[position + 1] \in known
    BY <1>7, <2>1, HandlingPassesOver
  <2>2. CASE topic[position + 1] \notin known
    BY <1>7, <2>2, HandlingTakesEffect
  <2> QED BY <2>1, <2>2
<1>8. ASSUME CommitOffset PROVE Good
  BY <1>8, <1>c DEF CommitOffset, outboxVars, brokerVars
<1>9. ASSUME Resume PROVE Good
  <2>1. UNCHANGED <<agg, row, effects, known, topic>> /\ position' = offset
    BY <1>9 DEF Resume, outboxVars, brokerVars
  <2> QED BY <1>a, <1>b, <2>1, FrontStands
<1>10. ASSUME UNCHANGED vars PROVE Good
  BY <1>10, <1>c DEF vars, outboxVars, brokerVars, consumerVars
<1> HIDE DEF Good
<1>11. Good
  BY <1>1, <1>2, <1>3, <1>4, <1>5, <1>6, <1>7, <1>8, <1>9, <1>10 DEF Next
<1> QED BY <1>0, <1>11 DEF Good

\* The venue works on every event of an order once and in the order of its
\* changes, whatever is lost, repeated, late or restarted on the way from the
\* outbox to the inbox: with one worker, for any orders, batches and faults.
THEOREM DeliversInOrder == ASSUME OneWorker PROVE Spec => ImplementsEventOrder
<1>1. Init => VInv /\ Promise!EventInit
  BY DeliveryAssumption, OrderInit, EffectsInit
     DEF VInv, Promise!EventInit, WrittenNow, DoneNow
<1>2. VInv /\ [Next]_vars => VInv'
  BY DeliveryAssumption, OneWorker, EffectsStep
<1>3. VInv /\ [Next]_vars => [Promise!EventNext]_(Promise!eventVars)
  <2> SUFFICES ASSUME VInv, [Next]_vars PROVE [Promise!EventNext]_(Promise!eventVars)
    OBVIOUS
  <2>1. CASE Stands
    BY <2>1 DEF Stands, WrittenNow, DoneNow, Promise!eventVars
  <2>2. ASSUME NEW a \in Aggregates, NEW id \in Ids,
               WrittenNow' = [WrittenNow EXCEPT ![a] = Append(@, id)], DoneNow' = DoneNow
        PROVE  Promise!EventNext
    <3>1. Promise!Write(a, id)
      BY <2>2 DEF Promise!Write, WrittenNow, DoneNow
    <3> QED BY <3>1 DEF Promise!EventNext
  <2>3. ASSUME NEW a \in Aggregates, Len(DoneNow[a]) < Len(WrittenNow[a]),
               DoneNow' = [DoneNow EXCEPT ![a] = Append(@, WrittenNow[a][Len(@) + 1])],
               WrittenNow' = WrittenNow
        PROVE  Promise!EventNext
    <3>1. Promise!TakeEffect(a)
      BY <2>3 DEF Promise!TakeEffect, WrittenNow, DoneNow
    <3> QED BY <3>1 DEF Promise!EventNext
  <2> QED BY DeliveryAssumption, OneWorker, EffectsStep, <2>1, <2>2, <2>3
<1> QED BY <1>1, <1>2, <1>3, PTL DEF Spec, ImplementsEventOrder, Promise!EventSpec

=============================================================================
