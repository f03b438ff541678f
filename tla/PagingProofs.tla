---------------------------- MODULE PagingProofs ----------------------------
(***************************************************************************)
(* Proofs about Paging, for any table, any keys and any sizes of pages.    *)
(*                                                                         *)
(* The invariant of a walk is a cut: what has been shown is not past the   *)
(* cursor, what has stood since the walk began is shown or past it.  That  *)
(* a page is cut where its last row says needs the order of the rows to be *)
(* total, and that a page which was not full leaves nothing behind needs   *)
(* rows to be counted.                                                     *)
(***************************************************************************)
EXTENDS Paging, FiniteSetTheorems, WellFoundedInduction, TLAPS

\* What has been shown is there, once, and not past the cursor.
ShownIsPassed ==
  \A r \in Rows : times[r] > 0 => times[r] = 1 /\ r \in table /\ ~Past(cursor, r)

\* What has stood since the walk began and is not shown is still to come.
StandingComes ==
  \A r \in standing : times[r] = 0 => Past(cursor, r)

IInv == TypeOK /\ ShownIsPassed /\ StandingComes

----------------------------------------------------------------------------
(* The order of the rows. *)

LEMMA BeforeIsTotal ==
  ASSUME PagingAssumption, TypeOK, NEW p \in Rows, NEW q \in Rows
  PROVE  /\ Before(p, q) \/ Before(q, p) \/ p = q
         /\ ~(Before(p, q) /\ Before(q, p))
         /\ ~Before(p, p)
<1> p \in Int /\ q \in Int /\ key[p] \in Int /\ key[q] \in Int
  BY DEF PagingAssumption, TypeOK
<1> QED BY DEF Before

LEMMA BeforeIsTransitive ==
  ASSUME PagingAssumption, TypeOK, NEW p \in Rows, NEW q \in Rows, NEW r \in Rows,
         Before(p, q), Before(q, r)
  PROVE  Before(p, r)
<1> p \in Int /\ q \in Int /\ r \in Int /\ key[p] \in Int /\ key[q] \in Int /\ key[r] \in Int
  BY DEF PagingAssumption, TypeOK
<1> QED BY DEF Before

\* Being past the position of a row is coming after it.
LEMMA PastPosition ==
  ASSUME NEW p, NEW q
  PROVE  Past(PositionOf(p), q) <=> Before(p, q)
BY DEF Past, PositionOf, Before

\* A row that comes after one past the cursor is past it too.
LEMMA PastIsUpward ==
  ASSUME PagingAssumption, TypeOK, NEW p \in Rows, NEW q \in Rows,
         Past(cursor, p), Before(p, q)
  PROVE  Past(cursor, q)
<1> p \in Int /\ q \in Int /\ key[p] \in Int /\ key[q] \in Int
  BY DEF PagingAssumption, TypeOK
<1> cursor.key \in Int /\ cursor.id \in Int
  BY DEF TypeOK, Cursors
<1> QED BY DEF Past, Before

----------------------------------------------------------------------------
(* Counting. *)

\* The rows before a row, in a set of rows, and how many they are.
Ahead(S, r) == {q \in S : Before(q, r)}

LEMMA AheadIsCounted ==
  ASSUME PagingAssumption, NEW S \in SUBSET Rows, NEW r
  PROVE  /\ IsFiniteSet(S)
         /\ IsFiniteSet(Ahead(S, r))
         /\ Cardinality(Ahead(S, r)) \in Nat
         /\ Cardinality(Ahead(S, r)) <= Cardinality(S)
<1>1. IsFiniteSet(S)
  BY FS_Subset DEF PagingAssumption
<1>2. Ahead(S, r) \in SUBSET S
  BY DEF Ahead
<1>3. IsFiniteSet(Ahead(S, r)) /\ Cardinality(Ahead(S, r)) <= Cardinality(S)
  BY <1>1, <1>2, FS_Subset
<1> QED BY <1>1, <1>3, FS_CardinalityType

\* A row before another has no more rows before it.
LEMMA AheadGrows ==
  ASSUME PagingAssumption, TypeOK, NEW S \in SUBSET Rows,
         NEW q \in Rows, NEW r \in Rows, Before(q, r)
  PROVE  Cardinality(Ahead(S, q)) <= Cardinality(Ahead(S, r))
<1>1. Ahead(S, q) \in SUBSET Ahead(S, r)
  BY BeforeIsTransitive DEF Ahead
<1> QED BY <1>1, AheadIsCounted, FS_Subset

\* First(n, S) is closed downwards in S.
LEMMA FirstIsAPrefix ==
  ASSUME PagingAssumption, TypeOK, NEW S \in SUBSET Rows, NEW n \in Int,
         NEW q \in S, NEW r \in First(n, S), Before(q, r)
  PROVE  q \in First(n, S)
<1>1. r \in Rows /\ q \in Rows /\ Cardinality(Ahead(S, r)) < n
  BY DEF First, Ahead
<1>2. Cardinality(Ahead(S, q)) < n
  BY <1>1, AheadGrows, AheadIsCounted
<1> QED BY <1>2 DEF First, Ahead

\* Naturals have minima.
Smaller == {ss \in Nat \X Nat : ss[1] < ss[2]}

LEMMA LeastOf ==
  ASSUME NEW T \in SUBSET Nat, T # {}
  PROVE  \E x \in T : \A y \in T : x <= y
<1>1. IsWellFoundedOn(Smaller, Nat)
  BY NatLessThanWellFounded DEF OpToRel, Smaller
<1>2. \E x \in T : \A y \in T : ~(<<y, x>> \in Smaller)
  BY <1>1, WFMin
<1>3. \A x, y \in Nat : y < x => <<y, x>> \in Smaller
  BY DEF Smaller
<1>4. PICK x \in T : \A y \in T : ~(<<y, x>> \in Smaller)
  BY <1>2
<1>5. \A y \in T : x <= y
  <2> SUFFICES ASSUME NEW y \in T PROVE ~(y < x)
    OBVIOUS
  <2>1. <<y, x>> \notin Smaller
    BY <1>4
  <2>2. y < x => <<y, x>> \in Smaller
    BY <1>3
  <2> QED BY <2>1, <2>2
<1> QED BY <1>5

\* If fewer than n rows come first in S, they are all of S.
LEMMA ShortPrefixIsAll ==
  ASSUME PagingAssumption, TypeOK, NEW S \in SUBSET Rows, NEW n \in Nat,
         Cardinality(First(n, S)) < n
  PROVE  First(n, S) = S
<1> DEFINE F == First(n, S)
           R(r) == Cardinality(Ahead(S, r))
           T == {R(r) : r \in S \ F}
<1>1. F \subseteq S /\ \A r \in S : r \in F <=> R(r) < n
  BY DEF First, Ahead
<1>2. SUFFICES ASSUME S \ F # {} PROVE FALSE
  BY <1>1
<1>3. T \in SUBSET Nat /\ T # {}
  BY <1>2, AheadIsCounted
<1>4. PICK r \in S \ F : \A q \in S \ F : R(r) <= R(q)
  <2>1. PICK x \in T : \A y \in T : x <= y
    BY <1>3, LeastOf
  <2>2. PICK r \in S \ F : x = R(r)
    OBVIOUS
  <2>3. \A q \in S \ F : R(q) \in T
    OBVIOUS
  <2> HIDE DEF T
  <2> QED BY <2>1, <2>2, <2>3
<1>5. Ahead(S, r) \subseteq F
  <2> SUFFICES ASSUME NEW q \in S, Before(q, r), q \notin F PROVE FALSE
    BY DEF Ahead
  <2>1. R(r) <= R(q)
    BY <1>4
  <2>2. q \in Ahead(S, r) /\ q \notin Ahead(S, q)
    BY BeforeIsTotal DEF Ahead
  <2>3. Ahead(S, q) \in SUBSET Ahead(S, r)
    BY BeforeIsTransitive DEF Ahead
  <2>4. R(q) <= R(r) /\ (R(r) = R(q) => Ahead(S, r) = Ahead(S, q))
    BY <2>3, AheadIsCounted, FS_Subset
  <2>5. R(q) \in Nat /\ R(r) \in Nat
    BY AheadIsCounted
  <2> QED BY <2>1, <2>2, <2>4, <2>5
<1>6. IsFiniteSet(F) /\ Cardinality(F) \in Nat
  BY <1>1, FS_Subset, FS_CardinalityType, AheadIsCounted
<1>7. R(r) <= Cardinality(F)
  BY <1>5, <1>6, FS_Subset
<1>8. R(r) \in Nat /\ ~(R(r) < n)
  BY <1>1, <1>4, AheadIsCounted
<1>9. Cardinality(F) < n
  OBVIOUS
<1> HIDE DEF F, R
<1> QED BY <1>6, <1>7, <1>8, <1>9

----------------------------------------------------------------------------
(* A page. *)

LEMMA LeftAreRows ==
  ASSUME TypeOK
  PROVE  Left \in SUBSET Rows /\ Left \subseteq matching
BY DEF TypeOK, Left

LEMMA PageIsPast ==
  ASSUME TypeOK, NEW n, NEW r \in Page(n)
  PROVE  r \in Rows /\ r \in table /\ Past(cursor, r) /\ r \in Left
BY DEF TypeOK, Page, First, Fetched, Left

\* What is left and comes before a row of the page is on the page.
LEMMA PageIsAPrefix ==
  ASSUME PagingAssumption, TypeOK, NEW n \in Limits, NEW r \in Page(n),
         NEW q \in Left, Before(q, r)
  PROVE  q \in Page(n)
<1> n \in Nat
  BY DEF PagingAssumption
<1>1. r \in Fetched(n) /\ Fetched(n) \in SUBSET Rows
  BY LeftAreRows DEF Page, First, Fetched
<1>2. q \in Fetched(n)
  BY <1>1, LeftAreRows, FirstIsAPrefix DEF Fetched
<1> QED BY <1>1, <1>2, FirstIsAPrefix DEF Page

\* Without another page nothing is left behind.
LEMMA LastPageIsTheRest ==
  ASSUME PagingAssumption, TypeOK, NEW n \in Limits, ~More(n)
  PROVE  Page(n) = Left
<1> n \in Nat /\ n + 1 \in Nat
  BY DEF PagingAssumption
<1>1. Fetched(n) \in SUBSET Rows /\ Fetched(n) \in SUBSET Left
  BY LeftAreRows DEF First, Fetched
<1>2. IsFiniteSet(Fetched(n)) /\ Cardinality(Fetched(n)) \in Nat
  BY <1>1, AheadIsCounted, FS_CardinalityType
<1>3. Cardinality(Fetched(n)) < n + 1
  BY <1>2 DEF More
<1>4. Fetched(n) = Left
  BY <1>3, LeftAreRows, ShortPrefixIsAll DEF Fetched
<1>5. \A r \in Left : Cardinality(Ahead(Left, r)) < n
  <2> SUFFICES ASSUME NEW r \in Left PROVE Cardinality(Ahead(Left, r)) < n
    OBVIOUS
  <2>1. r \notin Ahead(Left, r) /\ Ahead(Left, r) \in SUBSET Left
    BY LeftAreRows, BeforeIsTotal DEF Ahead
  <2>2. Cardinality(Ahead(Left, r)) # Cardinality(Left)
    BY <2>1, LeftAreRows, AheadIsCounted, FS_Subset
  <2>3. Cardinality(Ahead(Left, r)) \in Nat /\ Cardinality(Ahead(Left, r)) <= Cardinality(Left)
    BY LeftAreRows, AheadIsCounted
  <2> QED BY <1>2, <1>3, <1>4, <2>2, <2>3
<1> QED BY <1>4, <1>5 DEF Page, First, Ahead

----------------------------------------------------------------------------
(* The invariant. *)

LEMMA InitIInv == ASSUME Init PROVE IInv
BY DEF Init, IInv, TypeOK, ShownIsPassed, StandingComes, Start, Cursors, Past

LEMMA ChangeKeepsIInv ==
  ASSUME PagingAssumption, IInv, Change
  PROVE  IInv'
<1> USE DEF IInv
<1>1. TypeOK'
  BY DEF TypeOK, Change
<1>2. ShownIsPassed'
  BY DEF TypeOK, Change, ShownIsPassed, Past
<1>3. StandingComes'
  BY DEF TypeOK, Change, StandingComes, Past
<1> QED BY <1>1, <1>2, <1>3

LEMMA BeginKeepsIInv ==
  ASSUME Begin
  PROVE  IInv'
BY DEF Begin, IInv, TypeOK, ShownIsPassed, StandingComes, Start, Cursors, Past

LEMMA TurnPageKeepsIInv ==
  ASSUME PagingAssumption, IInv, NEW n \in Limits, TurnPage(n)
  PROVE  IInv'
<1> TypeOK
  BY DEF IInv
<1>0. UNCHANGED <<table, key, matching, standing>>
  BY DEF TurnPage, tableVars
<1>1. times' = [r \in Rows |-> IF r \in Page(n) THEN times[r] + 1 ELSE times[r]]
  BY DEF TurnPage
<1>2. \A r \in Page(n) : times[r] = 0
  BY PageIsPast DEF IInv, ShownIsPassed, TypeOK
<1>3. times' \in [Rows -> Nat]
  BY <1>1 DEF TypeOK
<1>4. CASE More(n)
  <2>1. PICK last \in Page(n) :
          cursor' = PositionOf(last) /\ \A p \in Page(n) : ~Before(last, p)
    BY <1>4 DEF TurnPage
  <2>2. last \in Rows /\ last \in table /\ Past(cursor, last)
    BY <2>1, PageIsPast
  <2>3. \A q : Past(cursor, q)' <=> Before(last, q)
    BY <1>0, <2>1 DEF Past, PositionOf, Before
  <2>4. cursor' \in Cursors
    BY <2>1, <2>2 DEF PositionOf, Cursors, TypeOK, PagingAssumption
  <2>5. ShownIsPassed'
    <3> SUFFICES ASSUME NEW r \in Rows, times'[r] > 0
                 PROVE  times'[r] = 1 /\ r \in table /\ ~Before(last, r)
      BY <1>0, <2>3 DEF ShownIsPassed
    <3>1. CASE r \in Page(n)
      BY <3>1, <1>1, <1>2, <2>1, PageIsPast
    <3>2. CASE r \notin Page(n)
      <4>1. times[r] = 1 /\ r \in table /\ ~Past(cursor, r)
        BY <3>2, <1>1 DEF IInv, ShownIsPassed
      <4>2. ~Before(last, r)
        BY <4>1, <2>2, PastIsUpward
      <4> QED BY <3>2, <4>1, <4>2, <1>1
    <3> QED BY <3>1, <3>2
  <2>6. StandingComes'
    <3> SUFFICES ASSUME NEW r \in standing, times'[r] = 0
                 PROVE  Before(last, r)
      BY <1>0, <2>3 DEF StandingComes
    <3>1. r \in Rows /\ r \in matching
      BY DEF TypeOK
    <3>2. r \notin Page(n) /\ times[r] = 0
      BY <3>1, <1>1, <1>2
    <3>3. r \in Left
      BY <3>1, <3>2 DEF IInv, StandingComes, Left
    <3>4. ~Before(r, last) /\ r # last
      BY <3>2, <3>3, <2>1, PageIsAPrefix
    <3> QED BY <3>1, <3>4, <2>2, BeforeIsTotal
  <2> QED BY <1>0, <1>3, <2>4, <2>5, <2>6 DEF IInv, TypeOK
<1>5. CASE ~More(n)
  <2>1. cursor' = End
    BY <1>5 DEF TurnPage
  <2>2. \A q : ~Past(cursor, q)'
    BY <2>1 DEF Past, End
  <2>3. Page(n) = Left
    BY <1>5, LastPageIsTheRest
  <2>4. ShownIsPassed'
    BY <1>0, <1>1, <1>2, <2>2, PageIsPast DEF IInv, ShownIsPassed, TypeOK
  <2>5. StandingComes'
    <3> SUFFICES ASSUME NEW r \in standing, times'[r] = 0 PROVE FALSE
      BY <1>0 DEF StandingComes
    <3>1. r \in Rows /\ r \in matching
      BY DEF TypeOK
    <3>2. r \notin Left /\ times[r] = 0
      BY <3>1, <1>1, <1>2, <2>3
    <3> QED BY <3>1, <3>2 DEF IInv, StandingComes, Left
  <2>6. cursor' \in Cursors
    BY <2>1 DEF End, Cursors
  <2> QED BY <1>0, <1>3, <2>4, <2>5, <2>6 DEF IInv, TypeOK
<1> QED BY <1>4, <1>5

LEMMA StutterKeepsIInv ==
  ASSUME IInv, UNCHANGED vars
  PROVE  IInv'
BY DEF vars, tableVars, walkVars, IInv, TypeOK, ShownIsPassed, StandingComes, Past

LEMMA AlwaysIInv == ASSUME PagingAssumption PROVE Spec => []IInv
<1>1. Init => IInv
  BY InitIInv
<1>2. IInv /\ [Next]_vars => IInv'
  BY ChangeKeepsIInv, BeginKeepsIInv, TurnPageKeepsIInv, StutterKeepsIInv DEF Next
<1> QED BY <1>1, <1>2, PTL DEF Spec

----------------------------------------------------------------------------

\* The table, the cursor and the walk stay what they are.
THEOREM TypeCorrect == ASSUME PagingAssumption PROVE Spec => []TypeOK
BY AlwaysIInv, PTL DEF IInv

\* Service.Orders and Service.Venues: no row twice, and none that has matched
\* all along missing, however the pages are cut and whatever comes in between.
THEOREM WalksAreWhole == ASSUME PagingAssumption PROVE Spec => []WalkShowsEachRowOnce
<1>1. IInv => WalkShowsEachRowOnce
  BY DEF IInv, TypeOK, ShownIsPassed, StandingComes, WalkShowsEachRowOnce
<1> QED BY <1>1, AlwaysIInv, PTL

=============================================================================
