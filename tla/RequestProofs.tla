---------------------------- MODULE RequestProofs ----------------------------
(***************************************************************************)
(* What the client of a request may rely on.  POST /orders first: the      *)
(* guard of its key (Idempotency), for any number of attempts and requests *)
(* under a key, and the check of the cart and its price (Checkout), for    *)
(* any menu, prices and counts.  Then every operation, in the process that *)
(* serves it (Api), for any number of calls and connections.               *)
(*                                                                         *)
(* The three safety properties of the guard are conjuncts of one inductive *)
(* invariant.  What they need besides is where a claim can be: it is held  *)
(* by an attempt whose handler runs, while no row of the key is committed; *)
(* and that a committed row carries the answer of an order.                *)
(***************************************************************************)
EXTENDS MCRequests, SetSums, TLAPS

\* An attempt in the handler holds the claim or is one that slipped through;
\* the claim is nobody else's, and excludes a committed row.
ClaimIsHeld ==
  /\ \A a \in Attempts : phase[a] = "running" => claim = a \/ a \in unguarded
  /\ claim # Nobody => /\ stored = NoRow
                       /\ phase[claim] = "running"
                       /\ claim \notin unguarded

\* An attempt that is not answered has placed nothing, and none has placed an
\* order in a life of the key that is still to come.
PlacedInTime ==
  \A a \in Attempts :
    /\ phase[a] # "answered" => placed[a] = 0
    /\ phase[a] \in {"new", "sent", "conflicted"} => a \notin unguarded
    /\ placed[a] <= lives + 1

\* The row of the key answers with an order, for the request it was claimed for.
RowTellsOfAnOrder ==
  stored # NoRow =>
    /\ stored.answer \in Orders
    /\ asked[stored.answer] = stored.request \/ stored.answer \in unguarded

IInv ==
  /\ TypeOK
  /\ ClaimIsHeld
  /\ PlacedInTime
  /\ RowTellsOfAnOrder
  /\ OneOrderPerKey
  /\ OrderIsRemembered
  /\ AnswersAreTrue

\* A row that is there is a record of what was asked and answered.
LEMMA RowFields ==
  ASSUME stored \in Rows, stored # NoRow
  PROVE  /\ stored \in [answer : Attempts \union {Nobody}, request : Requests, fresh : BOOLEAN]
         /\ stored.answer \in Attempts \union {Nobody}
         /\ stored.request \in Requests
         /\ stored.fresh \in BOOLEAN
BY DEF Rows, NoRow

\* A row of the key is not the empty one.
LEMMA RowsAreSomething ==
  ASSUME NEW a, NEW q, NEW f
  PROVE  [answer |-> a, request |-> q, fresh |-> f] # NoRow
<1>1. DOMAIN [answer |-> a, request |-> q, fresh |-> f] = {"answer", "request", "fresh"}
  OBVIOUS
<1>2. DOMAIN NoRow = {"answer"}
  BY DEF NoRow
<1> QED
  BY <1>1, <1>2

LEMMA Initially == Init => IInv
<1> SUFFICES ASSUME Init PROVE IInv
  OBVIOUS
<1> USE DEF Init, NoReply
<1>1. TypeOK
  <2>1. stored \in Rows
    BY DEF Rows
  <2>2. reply \in [Attempts -> Replies]
    BY DEF Replies
  <2> QED
    BY <2>1, <2>2, IdempotencyAssumption DEF TypeOK
<1>2. ClaimIsHeld /\ PlacedInTime /\ RowTellsOfAnOrder
  BY <1>1 DEF ClaimIsHeld, PlacedInTime, RowTellsOfAnOrder, TypeOK
<1>3. OneOrderPerKey /\ OrderIsRemembered /\ AnswersAreTrue
  BY DEF OneOrderPerKey, OrderIsRemembered, AnswersAreTrue, Orders
<1> QED
  BY <1>1, <1>2, <1>3 DEF IInv

LEMMA SendKeeps ==
  ASSUME IInv, NEW a \in Attempts, Send(a)
  PROVE  IInv'
<1> USE DEF IInv, Send
<1>1. TypeOK'
  BY DEF TypeOK
<1>2. ClaimIsHeld' /\ PlacedInTime' /\ RowTellsOfAnOrder'
  BY DEF TypeOK, ClaimIsHeld, PlacedInTime, RowTellsOfAnOrder, Orders
<1>3. OneOrderPerKey' /\ OrderIsRemembered' /\ AnswersAreTrue'
  BY DEF OneOrderPerKey, OrderIsRemembered, AnswersAreTrue, Orders
<1> QED
  BY <1>1, <1>2, <1>3

LEMMA ReserveKeeps ==
  ASSUME IInv, NEW a \in Attempts, Reserve(a)
  PROVE  IInv'
<1> USE DEF IInv, Reserve
<1>1. TypeOK'
  BY DEF TypeOK
<1>2. ClaimIsHeld' /\ PlacedInTime' /\ RowTellsOfAnOrder'
  BY IdempotencyAssumption
     DEF TypeOK, ClaimIsHeld, PlacedInTime, RowTellsOfAnOrder, Orders
<1>3. OneOrderPerKey' /\ OrderIsRemembered' /\ AnswersAreTrue'
  BY DEF OneOrderPerKey, OrderIsRemembered, AnswersAreTrue, Orders
<1> QED
  BY <1>1, <1>2, <1>3

LEMMA GetKeeps ==
  ASSUME IInv, NEW a \in Attempts, Get(a)
  PROVE  IInv'
<1> USE DEF IInv, Get
<1>1. CASE stored = NoRow
  <2>1. TypeOK'
    BY <1>1 DEF TypeOK
  <2>2. ClaimIsHeld' /\ PlacedInTime' /\ RowTellsOfAnOrder'
    BY <1>1 DEF TypeOK, ClaimIsHeld, PlacedInTime, RowTellsOfAnOrder, Orders
  <2>3. OneOrderPerKey' /\ OrderIsRemembered' /\ AnswersAreTrue'
    BY <1>1 DEF TypeOK, OneOrderPerKey, OrderIsRemembered, AnswersAreTrue, Orders
  <2> QED
    BY <2>1, <2>2, <2>3
<1>2. CASE stored # NoRow
  <2>1. stored.answer \in Orders /\ stored.answer # Nobody
    BY <1>2, IdempotencyAssumption DEF RowTellsOfAnOrder, Orders
  <2>2. \/ Replayable(a) = [kind |-> "reuse"]
        \/ /\ Replayable(a) = Replayed(stored.answer)
           /\ stored.request = asked[a]
    BY <2>1 DEF Replayable
  <2>3. Replayable(a) \in Replies
    BY <2>1, <2>2 DEF Replies, Refusals, Replayed, Orders
  <2>4. TypeOK'
    BY <1>2, <2>3 DEF TypeOK, Answer
  <2>5. ClaimIsHeld' /\ PlacedInTime' /\ RowTellsOfAnOrder'
    BY <1>2 DEF TypeOK, ClaimIsHeld, PlacedInTime, RowTellsOfAnOrder, Orders, Answer
  <2>6. OneOrderPerKey' /\ OrderIsRemembered'
    BY <1>2 DEF OneOrderPerKey, OrderIsRemembered, Orders, Answer
  <2>7. AnswersAreTrue'
    <3> SUFFICES ASSUME NEW b \in Attempts
                 PROVE  /\ reply'[b].kind # "in_flight"
                        /\ reply'[b].kind \in {"created", "replayed"} =>
                             /\ reply'[b].order \in Orders
                             /\ \/ asked[reply'[b].order] = asked[b]
                                \/ reply'[b].order \in unguarded
      BY <1>2 DEF AnswersAreTrue, Orders, Answer
    <3>1. CASE b = a
      <4>1. reply'[b] = Replayable(a)
        BY <1>2, <3>1 DEF Answer, TypeOK
      <4> QED
        BY <4>1, <3>1, <1>2, <2>1, <2>2 DEF Replayed, RowTellsOfAnOrder
    <3>2. CASE b # a
      BY <1>2, <3>2 DEF Answer, TypeOK, AnswersAreTrue
    <3> QED
      BY <3>1, <3>2
  <2> QED
    BY <2>4, <2>5, <2>6, <2>7
<1> QED
  BY <1>1, <1>2

LEMMA FailKeeps ==
  ASSUME IInv, NEW a \in Attempts, Fail(a)
  PROVE  IInv'
<1> USE DEF IInv, Fail, Answer, Release
<1>1. TypeOK'
  BY DEF TypeOK, Replies, Refusals
<1>2. ClaimIsHeld' /\ PlacedInTime' /\ RowTellsOfAnOrder'
  BY DEF TypeOK, ClaimIsHeld, PlacedInTime, RowTellsOfAnOrder, Orders
<1>3. OneOrderPerKey' /\ OrderIsRemembered' /\ AnswersAreTrue'
  BY DEF TypeOK, OneOrderPerKey, OrderIsRemembered, AnswersAreTrue, Orders
<1> QED
  BY <1>1, <1>2, <1>3

LEMMA CommitKeeps ==
  ASSUME IInv, NEW a \in Attempts, Commit(a)
  PROVE  IInv'
<1> USE DEF IInv
<1> DEFINE own == [answer |-> a, request |-> asked[a], fresh |-> TRUE]
<1>1. /\ phase[a] = "running" /\ placed[a] = 0
      /\ claim = a \/ a \in unguarded
      /\ phase' = [phase EXCEPT ![a] = "answered"]
      /\ placed' = [placed EXCEPT ![a] = lives + 1]
      /\ UNCHANGED <<asked, lives, unguarded>>
  BY DEF Commit, Answer, PlacedInTime, ClaimIsHeld
<1>2. PICK answer \in {Created(a), [kind |-> "failed"]} :
        reply' = [reply EXCEPT ![a] = answer]
  BY DEF Commit, Answer
<1>3. /\ phase'[a] = "answered" /\ placed'[a] = lives + 1 /\ reply'[a] = answer
      /\ \A b \in Attempts \ {a} :
           phase'[b] = phase[b] /\ placed'[b] = placed[b] /\ reply'[b] = reply[b]
  BY <1>1, <1>2 DEF TypeOK
<1>4. Orders' = Orders \union {a}
  BY <1>1, <1>3 DEF Orders, TypeOK
<1>5. \/ /\ claim = a /\ claim' = Nobody /\ stored = NoRow /\ a \notin unguarded
         /\ stored' = own
      \/ /\ claim # a /\ claim' = claim /\ a \in unguarded
         /\ stored = NoRow /\ stored' = NoRow
      \/ /\ claim # a /\ claim' = claim /\ a \in unguarded
         /\ stored # NoRow /\ claim = Nobody
         /\ stored' = [answer |-> a, request |-> stored.request, fresh |-> stored.fresh]
  <2>1. CASE claim = a
    BY <2>1, IdempotencyAssumption DEF Commit, Release, Completed, ClaimIsHeld
  <2>2. CASE claim # a /\ stored = NoRow
    BY <1>1, <2>2 DEF Commit, Release, Completed
  <2>3. CASE claim # a /\ stored # NoRow
    <3>1. stored \in [answer : Attempts \union {Nobody}, request : Requests, fresh : BOOLEAN]
      BY <2>3, RowFields DEF TypeOK
    <3>2. stored' = [stored EXCEPT !.answer = a]
      BY <2>3 DEF Commit, Completed
    <3>3. stored' = [answer |-> a, request |-> stored.request, fresh |-> stored.fresh]
      BY <3>1, <3>2
    <3> QED
      BY <1>1, <2>3, <3>3 DEF Commit, Release, ClaimIsHeld
  <2> QED
    BY <2>1, <2>2, <2>3
<1>6. TypeOK'
  <2>1. stored' \in Rows
    <3>1. CASE stored' = own
      BY <3>1 DEF TypeOK, Rows
    <3>2. CASE stored' = NoRow
      BY <3>2 DEF Rows
    <3>3. CASE /\ stored # NoRow
               /\ stored' = [answer |-> a, request |-> stored.request, fresh |-> stored.fresh]
      <4>1. stored.request \in Requests /\ stored.fresh \in BOOLEAN
        BY <3>3, RowFields DEF TypeOK
      <4> QED
        BY <3>3, <4>1 DEF Rows
    <3> QED
      BY <1>5, <3>1, <3>2, <3>3
  <2>2. reply' \in [Attempts -> Replies]
    BY <1>2 DEF TypeOK, Replies, Refusals, Created
  <2>3. placed' \in [Attempts -> 0..(MaxLives + 1)]
    BY <1>1, IdempotencyAssumption DEF TypeOK
  <2>4. claim' \in Attempts \union {Nobody}
    BY <1>5 DEF TypeOK
  <2> QED
    BY <1>1, <2>1, <2>2, <2>3, <2>4 DEF TypeOK
<1>7. ClaimIsHeld'
  BY <1>1, <1>3, <1>5, IdempotencyAssumption DEF ClaimIsHeld, TypeOK
<1>8. PlacedInTime'
  BY <1>1, <1>3 DEF PlacedInTime, TypeOK
<1>9. RowTellsOfAnOrder'
  BY <1>1, <1>4, <1>5 DEF RowTellsOfAnOrder
<1>10. OneOrderPerKey'
  <2> SUFFICES ASSUME NEW b \in Orders \ unguarded, b # a, a \notin unguarded
               PROVE  placed[b] # lives + 1
    BY <1>1, <1>3, <1>4 DEF OneOrderPerKey, Orders
  <2> QED
    BY <1>5 DEF OrderIsRemembered
<1>11. OrderIsRemembered'
  <2> SUFFICES ASSUME NEW b \in Orders' \ unguarded, placed'[b] = lives + 1
               PROVE  stored' # NoRow /\ stored'.fresh /\ stored'.request = asked[b]
    BY <1>1 DEF OrderIsRemembered
  <2>1. CASE b = a
    BY <1>5, <2>1, RowsAreSomething
  <2>2. CASE b # a
    <3>1. b \in Orders \ unguarded /\ placed[b] = lives + 1
      BY <1>3, <1>4, <2>2 DEF Orders
    <3>2. stored # NoRow /\ stored.fresh /\ stored.request = asked[b]
      BY <3>1 DEF OrderIsRemembered
    <3> QED
      BY <1>5, <3>2, RowsAreSomething
  <2> QED
    BY <2>1, <2>2
<1>12. AnswersAreTrue'
  <2> SUFFICES ASSUME NEW b \in Attempts
               PROVE  /\ reply'[b].kind # "in_flight"
                      /\ reply'[b].kind \in {"created", "replayed"} =>
                           /\ reply'[b].order \in Orders'
                           /\ \/ asked[reply'[b].order] = asked[b]
                              \/ reply'[b].order \in unguarded
    BY <1>1 DEF AnswersAreTrue
  <2>1. CASE b = a
    BY <1>3, <1>4, <2>1 DEF Created
  <2>2. CASE b # a
    BY <1>3, <1>4, <2>2 DEF AnswersAreTrue
  <2> QED
    BY <2>1, <2>2
<1> QED
  BY <1>6, <1>7, <1>8, <1>9, <1>10, <1>11, <1>12

LEMMA ExpireKeeps ==
  ASSUME IInv, Expire
  PROVE  IInv'
<1> USE DEF IInv, Expire
<1>1. stored \in [answer : Attempts \union {Nobody}, request : Requests, fresh : BOOLEAN]
  BY RowFields DEF TypeOK
<1>2. stored' = [answer |-> stored.answer, request |-> stored.request, fresh |-> FALSE]
  BY <1>1
<1>3. TypeOK'
  <2>1. stored' \in Rows
    BY <1>1, <1>2 DEF Rows
  <2>2. lives' \in 0..MaxLives
    BY IdempotencyAssumption DEF TypeOK
  <2> QED
    BY <2>1, <2>2 DEF TypeOK
<1>4. ClaimIsHeld' /\ PlacedInTime'
  BY DEF TypeOK, ClaimIsHeld, PlacedInTime
<1>5. RowTellsOfAnOrder'
  BY <1>2 DEF RowTellsOfAnOrder, Orders
<1>6. OneOrderPerKey' /\ AnswersAreTrue'
  BY DEF OneOrderPerKey, AnswersAreTrue, Orders
<1>7. OrderIsRemembered'
  BY DEF TypeOK, PlacedInTime, OrderIsRemembered, Orders
<1> QED
  BY <1>3, <1>4, <1>5, <1>6, <1>7

LEMMA DeleteKeeps ==
  ASSUME IInv, DeleteExpired
  PROVE  IInv'
<1> USE DEF IInv, DeleteExpired
<1>1. TypeOK'
  BY DEF TypeOK, Rows
<1>2. ClaimIsHeld' /\ PlacedInTime' /\ RowTellsOfAnOrder'
  BY DEF ClaimIsHeld, PlacedInTime, RowTellsOfAnOrder
<1>3. OneOrderPerKey' /\ OrderIsRemembered' /\ AnswersAreTrue'
  BY DEF OneOrderPerKey, OrderIsRemembered, AnswersAreTrue, Orders
<1> QED
  BY <1>1, <1>2, <1>3

LEMMA Stutters ==
  ASSUME IInv, UNCHANGED vars
  PROVE  IInv'
BY DEF IInv, vars, TypeOK, ClaimIsHeld, PlacedInTime, RowTellsOfAnOrder,
       OneOrderPerKey, OrderIsRemembered, AnswersAreTrue, Orders

\* The guard keeps its inductive invariant at every step.
THEOREM GuardInvariant == Spec => []IInv
<1>1. IInv /\ [Next]_vars => IInv'
  BY SendKeeps, ReserveKeeps, GetKeeps, FailKeeps, CommitKeeps, ExpireKeeps,
     DeleteKeeps, Stutters DEF Next
<1> QED
  BY Initially, <1>1, PTL DEF Spec

\* The table and the attempts stay within their types.
THEOREM TypeCorrect == Spec => []TypeOK
BY GuardInvariant, PTL DEF IInv

\* Whatever is repeated at once, fails or expires, a key that is claimed places
\* one order for as long as its answer is kept.
THEOREM PlacesOneOrder == Spec => []OneOrderPerKey
BY GuardInvariant, PTL DEF IInv

\* The order of a claimed key and the answer for its repeats are never apart.
THEOREM RemembersItsOrder == Spec => []OrderIsRemembered
BY GuardInvariant, PTL DEF IInv

\* No answer names an order that does not exist, and none is given for another
\* request unless it was written without a claim.
THEOREM TellsTheTruth == Spec => []AnswersAreTrue
BY GuardInvariant, PTL DEF IInv

----------------------------------------------------------------------------
(* What the order costs and what stops it (Checkout).                      *)

Kinds == {"item_unavailable", "out_of_stock", "price_changed", "venue_closed", "below_minimum"}
Sheet == [Items -> Line \union {NoLine}]
Form == [lines : Sheet, total : Nat, expected : Nat]
Screen == [checked : BOOLEAN, fresh : BOOLEAN, problems : SUBSET Kinds, total : Nat]

\* A draft has the total the customer expects, and the venue is content with it.
DraftIsAgreed ==
  draft # NoOrder =>
    /\ draft.total = draft.expected
    /\ draft.total = ItemsTotal(draft.lines) + Fee
    /\ ItemsTotal(draft.lines) >= Minimum

\* As long as nothing changes, a check shows what a check would find now.
ScreenIsCurrent ==
  screen.checked /\ screen.fresh =>
    screen.problems = Problems(lines) /\ screen.total = Total(Repriced(lines))

CheckoutInv ==
  /\ CheckoutTypeOK
  /\ draft \in Form /\ order \in Form /\ screen \in Screen
  /\ DraftIsAgreed
  /\ ScreenIsCurrent
  /\ PaysWhatWasShown
  /\ OnlyTheOvertakenRunOut

\* A line is not the empty one.
LEMMA LinesAreSomething ==
  ASSUME NEW q, NEW s
  PROVE  [qty |-> q, snapshot |-> s] # NoLine
<1>1. DOMAIN [qty |-> q, snapshot |-> s] = {"qty", "snapshot"}
  OBVIOUS
<1>2. DOMAIN NoLine = {"qty"}
  BY DEF NoLine
<1> QED BY <1>1, <1>2

\* The lines of a sheet.
LEMMA SheetLines ==
  ASSUME CheckoutAssumption, NEW ls \in Sheet
  PROVE  /\ IsFiniteSet(Held(ls)) /\ Held(ls) \subseteq Items
         /\ \A i \in Held(ls) :
              /\ ls[i] \in Line /\ ls[i].qty \in 1..MaxQty /\ ls[i].qty \in Nat
              /\ ls[i].snapshot \in Prices /\ ls[i].snapshot \in Nat
<1>1. IsFiniteSet(Held(ls)) /\ Held(ls) \subseteq Items
  BY FS_Subset DEF Held, CheckoutAssumption
<1>2. ASSUME NEW i \in Held(ls)
      PROVE  /\ ls[i] \in Line /\ ls[i].qty \in 1..MaxQty /\ ls[i].qty \in Nat
             /\ ls[i].snapshot \in Prices /\ ls[i].snapshot \in Nat
  <2>1. ls[i] \in Line
    BY DEF Held, Sheet
  <2>2. ls[i].qty \in 1..MaxQty /\ ls[i].snapshot \in Prices
    BY <2>1 DEF Line
  <2>3. 1..MaxQty \subseteq Nat /\ Prices \subseteq Nat
    BY DEF CheckoutAssumption
  <2> QED BY <2>1, <2>2, <2>3
<1> QED BY <1>1, <1>2

LEMMA ProductIsNatural == \A m, n \in Nat : m * n \in Nat
OBVIOUS

\* A sheet adds up to a number.
LEMMA ItemsAddUp ==
  ASSUME CheckoutAssumption, NEW ls \in Sheet
  PROVE  ItemsTotal(ls) \in Nat /\ Total(ls) \in Nat
<1> DEFINE f == [i \in Held(ls) |-> LineTotal(ls[i])]
<1>1. \A i \in Held(ls) : f[i] \in Nat
  BY SheetLines, ProductIsNatural DEF LineTotal
<1>2. DOMAIN f = Held(ls)
  OBVIOUS
<1>3. ItemsTotal(ls) = SumFunctionOnSet(f, Held(ls))
  BY DEF ItemsTotal, SumFunction
<1> HIDE DEF f
<1>4. ItemsTotal(ls) \in Nat
  BY <1>1, <1>3, SheetLines, SumIsNatural
<1> QED BY <1>4 DEF Total, CheckoutAssumption

\* The cart at the prices of the menu has the same items, in the same portions.
LEMMA RepricedIs ==
  ASSUME CheckoutAssumption, menu \in [Items -> Item], NEW ls \in Sheet
  PROVE  /\ Repriced(ls) \in Sheet /\ Held(Repriced(ls)) = Held(ls)
         /\ \A i \in Held(ls) :
              Repriced(ls)[i].qty = ls[i].qty /\ Repriced(ls)[i].snapshot = menu[i].price
<1>1. ASSUME NEW i \in Held(ls)
      PROVE  /\ Repriced(ls)[i] \in Line /\ Repriced(ls)[i] # NoLine
             /\ Repriced(ls)[i].qty = ls[i].qty /\ Repriced(ls)[i].snapshot = menu[i].price
  <2>1. i \in Items /\ ls[i] \in Line /\ ls[i] # NoLine
    BY SheetLines DEF Held
  <2>2. menu[i].price \in Prices
    BY <2>1 DEF Item
  <2>3. Repriced(ls)[i] = [ls[i] EXCEPT !.snapshot = menu[i].price]
    BY <2>1 DEF Repriced
  <2>4. Repriced(ls)[i] = [qty |-> ls[i].qty, snapshot |-> menu[i].price]
    BY <2>1, <2>3 DEF Line
  <2> QED BY <2>1, <2>2, <2>4, LinesAreSomething DEF Line
<1>2. \A i \in Items \ Held(ls) : Repriced(ls)[i] = NoLine
  BY DEF Repriced, Held
<1>3. Repriced(ls) = [i \in Items |-> Repriced(ls)[i]]
  BY DEF Repriced
<1>4. Repriced(ls) \in Sheet
  <2>1. \A i \in Items : Repriced(ls)[i] \in Line \union {NoLine}
    BY <1>1, <1>2
  <2> QED BY <1>3, <2>1 DEF Sheet
<1>5. Held(Repriced(ls)) = Held(ls)
  BY <1>1, <1>2 DEF Held
<1> QED BY <1>1, <1>4, <1>5

\* What is wrong with a line, one by one.
LEMMA LineProblemsAre ==
  ASSUME NEW i, NEW line
  PROVE  /\ LineProblems(i, line) \subseteq Kinds
         /\ "item_unavailable" \in LineProblems(i, line) <=> ~menu[i].available
         /\ "out_of_stock" \in LineProblems(i, line) <=> Short(i, line.qty)
         /\ "price_changed" \in LineProblems(i, line) <=> line.snapshot # menu[i].price
         /\ LineProblems(i, line) \subseteq
              {"item_unavailable", "out_of_stock", "price_changed"}
BY Zenon DEF LineProblems, Kinds

\* What a check finds.
LEMMA ProblemsAre ==
  ASSUME NEW ls
  PROVE  /\ Problems(ls) \subseteq Kinds
         /\ \A i \in Held(ls) : LineProblems(i, ls[i]) \subseteq Problems(ls)
         /\ BelowMinimum(Repriced(ls)) => "below_minimum" \in Problems(ls)
<1> DEFINE A == UNION {LineProblems(i, ls[i]) : i \in Held(ls)}
           B == IF ~IsEmpty(ls) /\ ~isOpen THEN {"venue_closed"} ELSE {}
           C == IF BelowMinimum(Repriced(ls)) THEN {"below_minimum"} ELSE {}
<1>0. Problems(ls) = A \union B \union C
  BY DEF Problems
<1>1. A \subseteq Kinds
  BY LineProblemsAre
<1>2. B \subseteq {"venue_closed"} /\ C \subseteq {"below_minimum"}
  <2>1. B = {"venue_closed"} \/ B = {}
    OBVIOUS
  <2>2. C = {"below_minimum"} \/ C = {}
    OBVIOUS
  <2> HIDE DEF B, C
  <2> QED BY <2>1, <2>2
<1>3. ASSUME NEW i \in Held(ls) PROVE LineProblems(i, ls[i]) \subseteq A
  OBVIOUS
<1>4. BelowMinimum(Repriced(ls)) => C = {"below_minimum"}
  OBVIOUS
<1> HIDE DEF A, B, C
<1> QED BY <1>0, <1>1, <1>2, <1>3, <1>4 DEF Kinds

\* What a cart that is accepted is like.
LEMMA AcceptedIs ==
  ASSUME CheckoutAssumption, menu \in [Items -> Item], NEW ls \in Sheet, NEW expected,
         Accepts(ls, expected)
  PROVE  /\ ~IsEmpty(ls) /\ expected = Total(Repriced(ls))
         /\ Total(Repriced(ls)) = ItemsTotal(Repriced(ls)) + Fee
         /\ ItemsTotal(Repriced(ls)) >= Minimum
         /\ Reservable(Repriced(ls))
<1>1. ~IsEmpty(ls) /\ expected = Total(Repriced(ls)) /\ Problems(ls) \subseteq {"price_changed"}
  BY DEF Accepts, Refused
<1>2. ~IsEmpty(Repriced(ls))
  BY <1>1, RepricedIs DEF IsEmpty
<1>3. ItemsTotal(Repriced(ls)) >= Minimum
  <2>1. ~BelowMinimum(Repriced(ls))
    BY <1>1, ProblemsAre
  <2>2. ItemsTotal(Repriced(ls)) \in Nat
    BY RepricedIs, ItemsAddUp
  <2> QED BY <1>2, <2>1, <2>2 DEF BelowMinimum, CheckoutAssumption
<1>4. Reservable(Repriced(ls))
  <2> SUFFICES ASSUME NEW i \in Held(ls)
               PROVE  /\ menu[i].available
                      /\ menu[i].stock # Uncounted => menu[i].stock >= ls[i].qty
    BY RepricedIs DEF Reservable
  <2>1. LineProblems(i, ls[i]) \subseteq {"price_changed"}
    BY <1>1, ProblemsAre
  <2>2. menu[i].available /\ ~Short(i, ls[i].qty)
    BY <2>1, LineProblemsAre
  <2>3. menu[i].stock # Uncounted => menu[i].stock \in Nat /\ ls[i].qty \in Nat
    BY SheetLines DEF Item, CheckoutAssumption
  <2> QED BY <2>2, <2>3 DEF Short
<1> QED BY <1>1, <1>2, <1>3, <1>4 DEF Total

LEMMA NoOrderIsAForm == ASSUME CheckoutAssumption PROVE NoOrder \in Form
BY DEF NoOrder, Form, Sheet

LEMMA FormsTyped ==
  ASSUME menu \in [Items -> Item], isOpen \in BOOLEAN, lines \in Sheet, screen \in Screen,
         draft \in Form, order \in Form, changes \in 0..MaxChanges, overtaken \in BOOLEAN
  PROVE  CheckoutTypeOK
BY DEF CheckoutTypeOK, Sheet, Screen, Form, NoScreen

LEMMA CheckoutInitInv == ASSUME CheckoutAssumption, CheckoutInit PROVE CheckoutInv
<1> USE DEF CheckoutInit
<1>1. draft \in Form /\ order \in Form
  BY NoOrderIsAForm
<1>2. screen \in Screen
  BY DEF NoScreen, Screen
<1>3. CheckoutTypeOK
  <2>1. menu \in [Items -> Item] /\ 0 \in 0..MaxChanges
    BY DEF CheckoutAssumption
  <2>2. lines \in Sheet
    BY DEF Sheet
  <2> QED BY <1>1, <1>2, <2>1, <2>2, FormsTyped
<1> QED BY <1>1, <1>2, <1>3 DEF CheckoutInv, DraftIsAgreed, ScreenIsCurrent, NoScreen,
                                PaysWhatWasShown, OnlyTheOvertakenRunOut

\* A cart and a menu that have not changed are found the same by a check.
LEMMA SameCart ==
  ASSUME UNCHANGED <<isOpen, menu, lines>>
  PROVE  Problems(lines)' = Problems(lines) /\ Total(Repriced(lines))' = Total(Repriced(lines))
<1>1. ASSUME NEW i, NEW line PROVE LineProblems(i, line)' = LineProblems(i, line)
  BY DEF LineProblems, Short
<1>2. Repriced(lines)' = Repriced(lines)
  BY DEF Repriced
<1>3. ASSUME NEW ls PROVE (Total(ls)' = Total(ls)) /\ (BelowMinimum(ls)' <=> BelowMinimum(ls))
  BY DEF Total, BelowMinimum, ItemsTotal, LineTotal, Held, IsEmpty
<1>4. Total(Repriced(lines))' = Total(Repriced(lines))
  BY <1>2 DEF Total, ItemsTotal, LineTotal, Held, IsEmpty
<1>5. BelowMinimum(Repriced(lines))' <=> BelowMinimum(Repriced(lines))
  BY <1>2 DEF BelowMinimum, ItemsTotal, LineTotal, Held, IsEmpty
<1>6. Held(lines)' = Held(lines) /\ (IsEmpty(lines)' <=> IsEmpty(lines))
  BY DEF Held, IsEmpty
<1>7. Problems(lines)' = Problems(lines)
  BY <1>1, <1>5, <1>6 DEF Problems
<1> QED BY <1>4, <1>7

\* A change of the venue overtakes the draft and makes the screen stale.
LEMMA ChangeKeeps ==
  ASSUME CheckoutAssumption, CheckoutInv, Change, menu' \in [Items -> Item], isOpen' \in BOOLEAN
  PROVE  CheckoutInv'
<1> USE DEF CheckoutInv
<1>1. changes' \in 0..MaxChanges
  <2>1. changes \in 0..MaxChanges /\ changes < MaxChanges /\ changes' = changes + 1
    BY DEF Change, CheckoutTypeOK
  <2> QED BY <2>1 DEF CheckoutAssumption
<1>2. screen' \in Screen /\ screen'.fresh = FALSE
  BY DEF Change, Outdated, NoScreen, Screen
<1>3. UNCHANGED <<lines, draft, order>> /\ (draft # NoOrder => overtaken')
  <2>1. UNCHANGED <<lines, draft, order>> /\ overtaken' = (draft # NoOrder)
    BY DEF Change
  <2> QED BY <2>1, Zenon
<1>4. overtaken' \in BOOLEAN
  BY Zenon DEF Change
<1>5. CheckoutTypeOK'
  <2>1. lines' \in Sheet /\ draft' \in Form /\ order' \in Form
    BY <1>3 DEF CheckoutTypeOK, Sheet
  <2> QED BY <1>1, <1>2, <1>4, <2>1 DEF CheckoutTypeOK, Sheet, Screen, Form, NoScreen
<1>6. DraftIsAgreed' /\ PaysWhatWasShown'
  BY <1>3 DEF DraftIsAgreed, PaysWhatWasShown, ItemsTotal, LineTotal, Held
<1>7. ScreenIsCurrent'
  BY <1>2 DEF ScreenIsCurrent
<1>8. OnlyTheOvertakenRunOut'
  BY <1>3, Zenon DEF OnlyTheOvertakenRunOut
<1> QED BY <1>2, <1>3, <1>5, <1>6, <1>7, <1>8

\* The customer looks at the cart or fills it, before they order.
LEMMA LookingKeeps ==
  ASSUME CheckoutAssumption, CheckoutInv, draft = NoOrder,
         UNCHANGED <<venueVars, draft, order, overtaken>>,
         lines' \in Sheet, screen' \in Screen, ScreenIsCurrent'
  PROVE  CheckoutInv'
<1> USE DEF CheckoutInv
<1>1. CheckoutTypeOK'
  BY DEF CheckoutTypeOK, Sheet, Screen, Form, NoScreen, venueVars
<1>2. DraftIsAgreed' /\ OnlyTheOvertakenRunOut'
  <2>1. draft' = NoOrder /\ NoOrder' = NoOrder
    BY DEF NoOrder, NoLine
  <2> QED BY <2>1 DEF DraftIsAgreed, OnlyTheOvertakenRunOut
<1>3. PaysWhatWasShown'
  BY DEF PaysWhatWasShown, ItemsTotal, LineTotal, Held
<1> QED BY <1>1, <1>2, <1>3

LEMMA DraftKeeps == ASSUME CheckoutAssumption, CheckoutInv, Draft PROVE CheckoutInv'
<1> USE DEF CheckoutInv
<1> DEFINE ls == Repriced(lines)
<1>0. /\ UNCHANGED <<isOpen, menu, changes, lines, screen, order>>
      /\ Accepts(lines, screen.total) /\ overtaken' = FALSE
      /\ draft' = [lines |-> ls, total |-> Total(ls), expected |-> screen.total]
  BY DEF Draft, venueVars
<1>1. menu \in [Items -> Item] /\ lines \in Sheet
  BY DEF CheckoutTypeOK, Sheet
<1>2. /\ ls \in Sheet /\ Held(ls) = Held(lines)
      /\ \A i \in Held(lines) : ls[i].snapshot = menu[i].price
  BY <1>1, RepricedIs
<1>3. /\ screen.total = Total(ls) /\ Total(ls) = ItemsTotal(ls) + Fee
      /\ ItemsTotal(ls) >= Minimum /\ Reservable(ls)
  BY <1>0, <1>1, AcceptedIs
<1>4. Total(ls) \in Nat
  BY <1>2, ItemsAddUp
<1> HIDE DEF ls
<1>5. draft' \in Form
  BY <1>0, <1>2, <1>3, <1>4 DEF Form
<1>6. CheckoutTypeOK'
  BY <1>0, <1>5 DEF CheckoutTypeOK, Sheet, Screen, Form, NoScreen
<1>7. DraftIsAgreed'
  <2>1. ItemsTotal(draft.lines)' = ItemsTotal(ls)
    BY <1>0 DEF ItemsTotal, LineTotal, Held
  <2> QED BY <1>0, <1>3, <2>1 DEF DraftIsAgreed
<1>8. ScreenIsCurrent'
  BY <1>0, SameCart DEF ScreenIsCurrent
<1>9. PaysWhatWasShown'
  BY <1>0 DEF PaysWhatWasShown, ItemsTotal, LineTotal, Held
<1>10. OnlyTheOvertakenRunOut'
  BY <1>0, <1>2, <1>3 DEF OnlyTheOvertakenRunOut, Reservable, Held
<1> QED BY <1>0, <1>5, <1>6, <1>7, <1>8, <1>9, <1>10

LEMMA PlaceKeeps == ASSUME CheckoutAssumption, CheckoutInv, Place PROVE CheckoutInv'
<1> USE DEF CheckoutInv
<1>0. /\ draft # NoOrder /\ Reservable(draft.lines)
      /\ menu' = [i \in Items |-> [menu[i] EXCEPT !.stock = Less(@, draft.lines[i].qty)]]
      /\ order' = draft /\ lines' = NoOrder.lines /\ draft' = NoOrder
      /\ overtaken' = FALSE /\ screen' = NoScreen /\ UNCHANGED <<isOpen, changes>>
  BY DEF Place
<1>1. draft.lines \in Sheet /\ menu \in [Items -> Item]
  BY DEF Form, CheckoutTypeOK
<1>2. menu' \in [Items -> Item]
  <2> SUFFICES ASSUME NEW i \in Items
               PROVE  [menu[i] EXCEPT !.stock = Less(@, draft.lines[i].qty)] \in Item
    BY <1>0
  <2> DEFINE n == draft.lines[i].qty
             count == menu[i].stock
  <2>1. n \in Nat /\ (i \notin Held(draft.lines) => n = 0)
    <3>1. CASE i \in Held(draft.lines)
      BY <1>1, <3>1, SheetLines
    <3>2. CASE i \notin Held(draft.lines)
      BY <3>2 DEF Held, NoLine
    <3> QED BY <3>1, <3>2
  <2>2. count \in 0..MaxStock \union {Uncounted} /\ menu[i] \in Item
    BY <1>1 DEF Item
  <2>3. count # Uncounted => count \in 0..MaxStock /\ count >= n
    <3>1. i \in Held(draft.lines) /\ count # Uncounted => count >= n
      BY <1>0 DEF Reservable
    <3> QED BY <2>1, <2>2, <3>1 DEF CheckoutAssumption
  <2>4. Less(count, n) \in 0..MaxStock \union {Uncounted}
    BY <2>1, <2>2, <2>3 DEF Less, CheckoutAssumption
  <2>5. [menu[i] EXCEPT !.stock = Less(@, n)]
          = [price |-> menu[i].price, available |-> menu[i].available, stock |-> Less(count, n)]
    BY <2>2 DEF Item
  <2>6. menu[i].price \in Prices /\ menu[i].available \in BOOLEAN
    BY <2>2 DEF Item
  <2> QED BY <2>4, <2>5, <2>6 DEF Item
<1>3. NoOrder \in Form /\ lines' \in Sheet /\ screen' \in Screen
  BY <1>0, NoOrderIsAForm DEF Form, NoScreen, Screen
<1>4. CheckoutTypeOK'
  BY <1>0, <1>2, <1>3 DEF CheckoutTypeOK, Sheet, Screen, Form, NoScreen
<1>5. PaysWhatWasShown'
  <2>1. ItemsTotal(order.lines)' = ItemsTotal(draft.lines)
    BY <1>0 DEF ItemsTotal, LineTotal, Held
  <2> QED BY <1>0, <2>1 DEF PaysWhatWasShown, DraftIsAgreed
<1>6. DraftIsAgreed' /\ OnlyTheOvertakenRunOut'
  BY <1>0 DEF DraftIsAgreed, OnlyTheOvertakenRunOut
<1>7. ScreenIsCurrent'
  BY <1>0 DEF ScreenIsCurrent, NoScreen
<1> QED BY <1>0, <1>3, <1>4, <1>5, <1>6, <1>7

LEMMA CheckoutNextInv ==
  ASSUME CheckoutAssumption, CheckoutInv, [CheckoutNext]_checkoutVars PROVE CheckoutInv'
<1> USE DEF CheckoutInv
<1>0. menu \in [Items -> Item] /\ isOpen \in BOOLEAN /\ lines \in Sheet
  BY DEF CheckoutTypeOK, Sheet
<1>1. ASSUME NEW i \in Items, PatchItem(i) PROVE CheckoutInv'
  <2>1. menu' \in [Items -> Item] /\ isOpen' \in BOOLEAN
    BY <1>0, <1>1 DEF PatchItem
  <2> QED BY <1>1, <2>1, ChangeKeeps DEF PatchItem
<1>2. CASE SetShift
  <2>1. menu' \in [Items -> Item] /\ isOpen' \in BOOLEAN
    BY <1>0, <1>2 DEF SetShift
  <2> QED BY <1>2, <2>1, ChangeKeeps DEF SetShift
<1>3. ASSUME NEW i \in Items, NEW qty \in 0..MaxQty, SetItem(i, qty) PROVE CheckoutInv'
  <2>1. screen' \in Screen /\ screen'.fresh = FALSE
    BY <1>3 DEF SetItem, Outdated, NoScreen, Screen
  <2>2. ScreenIsCurrent'
    BY <2>1 DEF ScreenIsCurrent
  <2>3. lines' \in Sheet
    <3>1. lines[i] \in Line \union {NoLine} /\ menu[i].price \in Prices
      BY <1>0 DEF Sheet, Item
    <3>2. qty # 0 => qty \in 1..MaxQty
      BY DEF CheckoutAssumption
    <3>3. (IF qty = 0 THEN NoLine
           ELSE [qty |-> qty,
                 snapshot |-> IF lines[i] = NoLine THEN menu[i].price
                              ELSE lines[i].snapshot]) \in Line \union {NoLine}
      BY <3>1, <3>2 DEF Line
    <3> QED BY <1>0, <1>3, <3>3 DEF SetItem, Sheet
  <2> QED BY <1>3, <2>1, <2>2, <2>3, LookingKeeps DEF SetItem
<1>4. CASE ShowCart
  <2>1. Total(lines) \in Nat
    BY <1>0, ItemsAddUp
  <2>2. /\ screen' = [checked |-> FALSE, fresh |-> TRUE, problems |-> {}, total |-> Total(lines)]
        /\ lines' = lines
    BY <1>4 DEF ShowCart
  <2>3. screen' \in Screen /\ ScreenIsCurrent'
    BY <2>1, <2>2 DEF Screen, ScreenIsCurrent
  <2> QED BY <1>0, <1>4, <2>2, <2>3, LookingKeeps DEF ShowCart
<1>5. CASE Validate
  <2>1. Total(Repriced(lines)) \in Nat /\ Problems(lines) \subseteq Kinds
    BY <1>0, RepricedIs, ItemsAddUp, ProblemsAre
  <2>2. /\ screen' = [checked |-> TRUE, fresh |-> TRUE, problems |-> Problems(lines),
                      total |-> Total(Repriced(lines))]
        /\ UNCHANGED <<isOpen, menu, lines>>
    BY <1>5 DEF Validate, venueVars
  <2>3. screen' \in Screen
    BY <2>1, <2>2 DEF Screen
  <2>4. ScreenIsCurrent'
    BY <2>2, SameCart DEF ScreenIsCurrent
  <2> QED BY <1>0, <1>5, <2>2, <2>3, <2>4, LookingKeeps DEF Validate
<1>6. CASE Draft
  BY <1>6, DraftKeeps
<1>7. CASE Place
  BY <1>7, PlaceKeeps
<1>8. CASE RanOut
  <2>1. /\ draft' = NoOrder /\ overtaken' = FALSE
        /\ UNCHANGED <<isOpen, menu, changes, lines, screen, order>>
    BY <1>8 DEF RanOut, venueVars
  <2>2. draft' \in Form
    BY <2>1, NoOrderIsAForm
  <2>3. CheckoutTypeOK'
    BY <2>1, <2>2 DEF CheckoutTypeOK, Sheet, Screen, Form, NoScreen
  <2>4. DraftIsAgreed' /\ OnlyTheOvertakenRunOut'
    BY <2>1 DEF DraftIsAgreed, OnlyTheOvertakenRunOut
  <2>5. ScreenIsCurrent'
    BY <2>1, SameCart DEF ScreenIsCurrent
  <2>6. PaysWhatWasShown'
    BY <2>1 DEF PaysWhatWasShown, ItemsTotal, LineTotal, Held
  <2> QED BY <2>1, <2>2, <2>3, <2>4, <2>5, <2>6
<1>9. CASE UNCHANGED checkoutVars
  <2>1. UNCHANGED <<isOpen, menu, changes, lines, screen, draft, order, overtaken>>
    BY <1>9 DEF checkoutVars, venueVars
  <2>2. CheckoutTypeOK'
    BY <2>1 DEF CheckoutTypeOK
  <2>3. DraftIsAgreed' /\ PaysWhatWasShown'
    BY <2>1 DEF DraftIsAgreed, PaysWhatWasShown, ItemsTotal, LineTotal, Held
  <2>4. ScreenIsCurrent'
    BY <2>1, SameCart DEF ScreenIsCurrent
  <2>5. OnlyTheOvertakenRunOut'
    BY <2>1 DEF OnlyTheOvertakenRunOut, Reservable, Held
  <2> QED BY <2>1, <2>2, <2>3, <2>4, <2>5
<1> QED BY <1>1, <1>2, <1>3, <1>4, <1>5, <1>6, <1>7, <1>8, <1>9 DEF CheckoutNext

LEMMA AlwaysCheckoutInv == CheckoutSpec => []CheckoutInv
<1>1. CheckoutInit => CheckoutInv
  BY CheckoutAssumption, CheckoutInitInv
<1>2. CheckoutInv /\ [CheckoutNext]_checkoutVars => CheckoutInv'
  BY CheckoutAssumption, CheckoutNextInv
<1> QED BY <1>1, <1>2, PTL DEF CheckoutSpec

\* What the cart, the menu, the screen and the order hold is what they are meant
\* to: no count of the menu falls below zero, whatever is ordered while it changes.
THEOREM CheckoutTypeCorrect == CheckoutSpec => []CheckoutTypeOK
<1>1. CheckoutInv => CheckoutTypeOK
  BY DEF CheckoutInv
<1> QED BY <1>1, AlwaysCheckoutInv, PTL

\* Whatever becomes of the prices between the choice of an item and the order, the
\* customer pays the sum they were shown, it is what the lines of the order add up
\* to, and it is not below the minimum of the venue.
THEOREM PaysTheShown == CheckoutSpec => []PaysWhatWasShown
<1>1. CheckoutInv => PaysWhatWasShown
  BY DEF CheckoutInv
<1> QED BY <1>1, AlwaysCheckoutInv, PTL

\* Unless the venue changes something, an order is accepted exactly if the check
\* found nothing but changed prices, and an item is offered exactly if the check
\* has nothing against one portion of it.
THEOREM ChecksAreTrue == CheckoutSpec => []CheckTellsTheTruth
<1>1. ASSUME CheckoutInv PROVE CheckTellsTheTruth
  <2> USE DEF CheckoutInv
  <2>1. ASSUME screen.checked, screen.fresh
        PROVE  Accepts(lines, screen.total) <=>
                 ~IsEmpty(lines) /\ screen.problems \subseteq {"price_changed"}
    <3>1. screen.problems = Problems(lines) /\ screen.total = Total(Repriced(lines))
      BY <1>1, <2>1 DEF ScreenIsCurrent
    <3> QED BY <3>1 DEF Accepts, Refused
  <2>2. ASSUME NEW i \in Items
        PROVE  OnOffer(i) <=>
                 isOpen /\ LineProblems(i, [qty |-> 1, snapshot |-> menu[i].price]) = {}
    <3> DEFINE line == [qty |-> 1, snapshot |-> menu[i].price]
    <3>1. menu[i].stock = Uncounted \/ menu[i].stock \in Nat
      BY <1>1, CheckoutAssumption DEF CheckoutTypeOK, Item
    <3>2. Short(i, 1) <=> ~(menu[i].stock = Uncounted \/ menu[i].stock > 0)
      BY <3>1, CheckoutAssumption DEF Short, CheckoutAssumption
    <3>3. LineProblems(i, line) = {} <=> menu[i].available /\ ~Short(i, 1)
      BY LineProblemsAre
    <3> QED BY <3>2, <3>3, Zenon DEF OnOffer
  <2> QED BY <2>1, <2>2 DEF CheckTellsTheTruth
<1> QED BY <1>1, AlwaysCheckoutInv, PTL

\* An order that passed the check finds its portions at the prices it was shown,
\* unless the venue has changed something in between.
THEOREM OnlyChangesRunOut == CheckoutSpec => []OnlyTheOvertakenRunOut
<1>1. CheckoutInv => OnlyTheOvertakenRunOut
  BY DEF CheckoutInv
<1> QED BY <1>1, AlwaysCheckoutInv, PTL


----------------------------------------------------------------------------
(* An orderly stop, for any number of calls, any of their operations and   *)
(* any pool.  What makes OrderlyStop inductive: until the server has       *)
(* returned nobody but a client has cut a call, and Drained finds none     *)
(* alive.                                                                  *)


Kept(c) == c.cut # "server" /\ c.stage # "lost"
Ended(c) == c.stage \in {"none", "lost"}

Shape == /\ DOMAIN calls = Slots
         /\ \A s \in Slots : DOMAIN calls[s] = DOMAIN NoCall

NothingCut ==
  main \in {"starting", "serving", "draining"} =>
    exit = "none" /\ \A s \in Slots : Kept(calls[s])

EndsInOrder ==
  /\ exit = "0" => /\ main \in {"stopped", "closing", "down"} /\ signalled
                   /\ \A s \in Slots : Ended(calls[s]) /\ Kept(calls[s])
  /\ main = "draining" => signalled
  /\ main = "closing" => ~background

StopInv == Shape /\ NothingCut /\ EndsInOrder

\* What a step of the call in slot s does: it leaves the process and the other
\* calls alone, it is a step of a call under way or a new one, and it does not
\* make the server cut the call.
CallStep(s) ==
  /\ UNCHANGED process
  /\ main = "serving" \/ ~Ended(calls[s])
  /\ DOMAIN calls' = Slots
  /\ \A t \in Slots \ {s} : calls'[t] = calls[t]
  /\ DOMAIN calls'[s] = DOMAIN NoCall
  /\ Kept(calls[s]) => Kept(calls'[s])

LEMMA NoCallIsKept == Kept(NoCall) /\ Ended(NoCall) /\ DOMAIN Lost = DOMAIN NoCall
BY DEF Kept, Ended, NoCall, Lost

LEMMA FinishedIsACallStep ==
  ASSUME Shape, NEW s \in Slots, NEW status, NEW done,
         ~Ended(calls[s]), Finished(s, status, done), UNCHANGED process
  PROVE  CallStep(s)
<1>1. CASE calls[s].cut # "nobody"
  BY <1>1, NoCallIsKept DEF CallStep, Finished, Dropped, Shape, Kept
<1>2. CASE calls[s].cut = "nobody"
  BY <1>2 DEF CallStep, Finished, Shape, Kept, NoCall
<1> QED BY <1>1, <1>2

LEMMA CallSteps ==
  ASSUME Shape, NEW s \in Slots,
         \/ \E op \in OpsOf(s) : \E flaws \in SUBSET FlawsOf(ContractOf(op)) : Accept(s, op, flaws)
         \/ Guard(s) \/ ReplayAnswer(s) \/ Begin(s) \/ NoDatabase(s) \/ Handle(s) \/ EndStream(s)
         \/ ClientLeaves(s)
  PROVE  CallStep(s)
<1>1. CASE \E op \in OpsOf(s) : \E flaws \in SUBSET FlawsOf(ContractOf(op)) : Accept(s, op, flaws)
  BY <1>1 DEF Accept, CallStep, Shape, Kept, NoCall
<1>2. CASE Guard(s)
  BY <1>2 DEF Guard, CallStep, Shape, Kept, Ended, NoCall
<1>3. CASE Begin(s)
  BY <1>3 DEF Begin, CallStep, Shape, Kept, Ended, NoCall
<1>4. CASE NoDatabase(s)
  BY <1>4, FinishedIsACallStep DEF NoDatabase, Ended
<1>5. CASE Finish(s)
  BY <1>5, FinishedIsACallStep DEF Finish, Ended
<1>6. CASE ReplayAnswer(s)
  BY <1>6, FinishedIsACallStep DEF ReplayAnswer, Ended
<1>7. CASE OpenStream(s)
  BY <1>7 DEF OpenStream, CallStep, Shape, Kept, Ended, NoCall
<1>8. CASE BreakStream(s)
  BY <1>8, NoCallIsKept DEF BreakStream, Dropped, CallStep, Shape, Kept, Ended
<1>9. CASE GiveUp(s)
  BY <1>9, FinishedIsACallStep DEF GiveUp, Ended
<1>10. CASE ReadAnswer(s)
  BY <1>10, NoCallIsKept DEF ReadAnswer, CallStep, Shape, Kept, Ended
<1>11. CASE EndStream(s)
  BY <1>11, FinishedIsACallStep DEF EndStream, Ended
<1>12. CASE ClientLeaves(s)
  BY <1>12, NoCallIsKept DEF ClientLeaves, Live, CallStep, Shape, Kept, Ended, NoCall
<1> QED
  BY <1>1, <1>2, <1>3, <1>4, <1>5, <1>6, <1>7, <1>8, <1>9, <1>10, <1>11, <1>12 DEF Handle

LEMMA StopInvInit == ApiInit => StopInv
BY DEF ApiInit, StopInv, Shape, NothingCut, EndsInOrder, NoCall, Kept, Ended

LEMMA StopInvStep == StopInv /\ [ApiNext]_apiVars => StopInv'
<1> SUFFICES ASSUME StopInv, [ApiNext]_apiVars PROVE StopInv'
  OBVIOUS
<1> USE DEF StopInv
<1>1. CASE Start
  BY <1>1 DEF Start, Shape, NothingCut, EndsInOrder
<1>2. CASE StartFails
  BY <1>2 DEF StartFails, Shape, NothingCut, EndsInOrder
<1>3. CASE Signal
  BY <1>3 DEF Signal, Shape, NothingCut, EndsInOrder
<1>4. CASE ServeFails
  BY <1>4 DEF ServeFails, Shape, NothingCut, EndsInOrder
<1>5. CASE Crash
  BY <1>5, NoCallIsKept DEF Crash, Shape, NothingCut, EndsInOrder
<1>6. CASE Restart
  BY <1>6, NoCallIsKept DEF Restart, Shape, NothingCut, EndsInOrder
<1>7. CASE Shutdown
  BY <1>7 DEF Shutdown, Shape, NothingCut, EndsInOrder
<1>8. CASE Drained
  BY <1>8 DEF Drained, Live, Ended, Shape, NothingCut, EndsInOrder
<1>9. CASE DrainTimesOut
  <2>1. Shape'
    BY <1>9, NoCallIsKept DEF DrainTimesOut, Shape
  <2> QED BY <1>9, <2>1 DEF DrainTimesOut, NothingCut, EndsInOrder
<1>10. CASE StopBackground
  BY <1>10 DEF StopBackground, Shape, NothingCut, EndsInOrder
<1>11. CASE CloseDb
  BY <1>11 DEF CloseDb, Shape, NothingCut, EndsInOrder
<1>12. CASE Exit
  <2>1. Shape'
    BY <1>12, NoCallIsKept DEF Exit, Shape
  <2>2. exit = "0" => \A s \in Slots : calls'[s] = calls[s]
    BY <1>12 DEF Exit, Live, Ended, EndsInOrder, Shape
  <2> QED BY <1>12, <2>1, <2>2 DEF Exit, NothingCut, EndsInOrder
<1>13. ASSUME NEW s \in Slots, CallStep(s) PROVE StopInv'
  <2>1. Shape'
    BY <1>13 DEF CallStep, Shape
  <2>2. NothingCut'
    BY <1>13 DEF CallStep, process, NothingCut
  <2>3. EndsInOrder'
    BY <1>13 DEF CallStep, process, NothingCut, EndsInOrder
  <2> QED BY <2>1, <2>2, <2>3
<1>14. CASE UNCHANGED apiVars
  BY <1>14 DEF apiVars, process, Shape, NothingCut, EndsInOrder
<1> QED
  BY <1>1, <1>2, <1>3, <1>4, <1>5, <1>6, <1>7, <1>8, <1>9, <1>10, <1>11, <1>12, <1>13,
     <1>14, CallSteps DEF ApiNext, Stopping

\* However many calls there are and whatever they ask for: a process that ends
\* with 0 was told to and left no call without its answer, and what runs in the
\* background never finds the pool closed.
THEOREM StopsInOrder == ApiSpec => []OrderlyStop
<1>1. StopInv => OrderlyStop
  BY DEF StopInv, EndsInOrder, OrderlyStop, Kept, Ended, Live
<1> QED
  BY <1>1, StopInvInit, StopInvStep, PTL DEF ApiSpec

----------------------------------------------------------------------------
(* What a client is told.  The contracts are looked at one operation at a  *)
(* time, and only here: Sound says what the rest of the argument needs of  *)
(* an operation, SoundOperations that all of them have it.                 *)

Allowed(op) == ContractOf(op).writes \cup Undocumented(op)

\* What can be answered before the operation is carried out, after it and
\* instead of it is allowed; only a success is in the two hundreds.
Sound(op) ==
  LET o == ContractOf(op)
  IN  /\ 500 \in Allowed(op)
      /\ "caller" \in FlawsOf(o) /\ o.caller = "venue" => 401 \in Allowed(op)
      /\ \/ 400 \in Allowed(op)
         \/ FlawsOf(o) \subseteq {"caller"} /\ o.caller \in {"anyone", "venue"}
      /\ o.answers \subseteq (o.reads \cap Allowed(op)) \cap {200, 201, 204}
      /\ \A f \in o.fails : StatusOf[f] \in Allowed(op) \cap {400, 404, 409, 422, 500, 501}
      /\ o.caller = "guarded" => /\ {200, 409, 422} \subseteq Allowed(op)
                                 /\ 200 \in o.reads
                                 /\ o.changes = TRUE
                                 /\ op \notin DOMAIN PartnerOperations
      /\ op = "StreamOrderEvents" => /\ 200 \in o.reads \cap Allowed(op)
                                     /\ o.changes = FALSE
                                     /\ op \notin DOMAIN PartnerOperations
      /\ op \in Dereferenced => 200 \in o.reads

LEMMA Apart == DOMAIN PartnerOperations \cap DOMAIN KitchenOperations = {}
BY DEF KitchenOperations, PartnerOperations

LEMMA TwoContracts ==
  /\ Operations = DOMAIN KitchenOperations \cup DOMAIN PartnerOperations
  /\ \A op \in DOMAIN KitchenOperations : ContractOf(op) = KitchenOperations[op]
  /\ \A op \in DOMAIN PartnerOperations : ContractOf(op) = PartnerOperations[op]
BY Apart DEF Operations, ContractOf

LEMMA KitchenIsSound == \A op \in DOMAIN KitchenOperations : Sound(op)
<1> USE DEF Sound, Allowed, Undocumented, FlawsOf, Operation, Handled, StatusOf, NoParameters,
     Dereferenced
<1>1. Sound("ClearCart")
  <2>1. ContractOf("ClearCart") = KitchenOperations["ClearCart"]
    BY TwoContracts DEF KitchenOperations
  <2> QED BY <2>1, Apart
         DEF KitchenOperations, ClearCartBinds, ClearCartDecodes,
             ClearCartWrites, ClearCartReads, ClearCartServed
<1>2. Sound("GetCart")
  <2>1. ContractOf("GetCart") = KitchenOperations["GetCart"]
    BY TwoContracts DEF KitchenOperations
  <2> QED BY <2>1, Apart
         DEF KitchenOperations, GetCartBinds, GetCartDecodes,
             GetCartWrites, GetCartReads, GetCartServed
<1>3. Sound("PutCartItem")
  <2>1. ContractOf("PutCartItem") = KitchenOperations["PutCartItem"]
    BY TwoContracts DEF KitchenOperations
  <2> QED BY <2>1, Apart
         DEF KitchenOperations, PutCartItemBinds, PutCartItemDecodes,
             PutCartItemWrites, PutCartItemReads, PutCartItemServed
<1>4. Sound("DeleteCartItem")
  <2>1. ContractOf("DeleteCartItem") = KitchenOperations["DeleteCartItem"]
    BY TwoContracts DEF KitchenOperations
  <2> QED BY <2>1, Apart
         DEF KitchenOperations, DeleteCartItemBinds, DeleteCartItemDecodes,
             DeleteCartItemWrites, DeleteCartItemReads, DeleteCartItemServed
<1>5. Sound("ValidateCart")
  <2>1. ContractOf("ValidateCart") = KitchenOperations["ValidateCart"]
    BY TwoContracts DEF KitchenOperations
  <2> QED BY <2>1, Apart
         DEF KitchenOperations, ValidateCartBinds, ValidateCartDecodes,
             ValidateCartWrites, ValidateCartReads, ValidateCartServed
<1>6. Sound("ListCuisines")
  <2>1. ContractOf("ListCuisines") = KitchenOperations["ListCuisines"]
    BY TwoContracts DEF KitchenOperations
  <2> QED BY <2>1, Apart
         DEF KitchenOperations, ListCuisinesBinds, ListCuisinesDecodes,
             ListCuisinesWrites, ListCuisinesReads, ListCuisinesServed
<1>7. Sound("ListOrders")
  <2>1. ContractOf("ListOrders") = KitchenOperations["ListOrders"]
    BY TwoContracts DEF KitchenOperations
  <2> QED BY <2>1, Apart
         DEF KitchenOperations, ListOrdersBinds, ListOrdersDecodes,
             ListOrdersWrites, ListOrdersReads, ListOrdersServed
<1>8. Sound("CreateOrder")
  <2>1. ContractOf("CreateOrder") = KitchenOperations["CreateOrder"]
    BY TwoContracts DEF KitchenOperations
  <2> QED BY <2>1, Apart
         DEF KitchenOperations, CreateOrderBinds, CreateOrderDecodes,
             CreateOrderWrites, CreateOrderReads, CreateOrderServed
<1>9. Sound("GetOrder")
  <2>1. ContractOf("GetOrder") = KitchenOperations["GetOrder"]
    BY TwoContracts DEF KitchenOperations
  <2> QED BY <2>1, Apart
         DEF KitchenOperations, GetOrderBinds, GetOrderDecodes,
             GetOrderWrites, GetOrderReads, GetOrderServed
<1>10. Sound("CancelOrder")
  <2>1. ContractOf("CancelOrder") = KitchenOperations["CancelOrder"]
    BY TwoContracts DEF KitchenOperations
  <2> QED BY <2>1, Apart
         DEF KitchenOperations, CancelOrderBinds, CancelOrderDecodes,
             CancelOrderWrites, CancelOrderReads, CancelOrderServed
<1>11. Sound("ListVenues")
  <2>1. ContractOf("ListVenues") = KitchenOperations["ListVenues"]
    BY TwoContracts DEF KitchenOperations
  <2> QED BY <2>1, Apart
         DEF KitchenOperations, ListVenuesBinds, ListVenuesDecodes,
             ListVenuesWrites, ListVenuesReads, ListVenuesServed
<1>12. Sound("GetVenue")
  <2>1. ContractOf("GetVenue") = KitchenOperations["GetVenue"]
    BY TwoContracts DEF KitchenOperations
  <2> QED BY <2>1, Apart
         DEF KitchenOperations, GetVenueBinds, GetVenueDecodes,
             GetVenueWrites, GetVenueReads, GetVenueServed
<1>13. Sound("GetVenueMenu")
  <2>1. ContractOf("GetVenueMenu") = KitchenOperations["GetVenueMenu"]
    BY TwoContracts DEF KitchenOperations
  <2> QED BY <2>1, Apart
         DEF KitchenOperations, GetVenueMenuBinds, GetVenueMenuDecodes,
             GetVenueMenuWrites, GetVenueMenuReads, GetVenueMenuServed
<1>14. Sound("StreamOrderEvents")
  <2>1. ContractOf("StreamOrderEvents") = KitchenOperations["StreamOrderEvents"]
    BY TwoContracts DEF KitchenOperations
  <2> QED BY <2>1, Apart
         DEF KitchenOperations, StreamOrderEventsBinds,
             StreamOrderEventsWrites, StreamOrderEventsServed
<1> HIDE DEF Sound
<1>0. DOMAIN KitchenOperations = {
     "ClearCart", "GetCart", "PutCartItem", "DeleteCartItem", "ValidateCart",
     "ListCuisines", "ListOrders", "CreateOrder", "GetOrder", "CancelOrder",
     "ListVenues", "GetVenue", "GetVenueMenu", "StreamOrderEvents"}
  BY DEF KitchenOperations
<1> QED
  BY <1>0, <1>1, <1>2, <1>3, <1>4, <1>5, <1>6, <1>7, <1>8, <1>9, <1>10, <1>11, <1>12, <1>13, <1>14

LEMMA PartnerIsSound == \A op \in DOMAIN PartnerOperations : Sound(op)
<1> USE DEF Sound, Allowed, Undocumented, FlawsOf, Operation, Handled, StatusOf, NoParameters,
     Dereferenced
<1>1. Sound("GetMe")
  <2>1. ContractOf("GetMe") = PartnerOperations["GetMe"]
    BY TwoContracts DEF PartnerOperations
  <2> QED BY <2>1, Apart
         DEF PartnerOperations, GetMeBinds, GetMeDecodes,
             GetMeWrites, GetMeReads, GetMeServed
<1>2. Sound("SyncMenu")
  <2>1. ContractOf("SyncMenu") = PartnerOperations["SyncMenu"]
    BY TwoContracts DEF PartnerOperations
  <2> QED BY <2>1, Apart
         DEF PartnerOperations, SyncMenuBinds, SyncMenuDecodes,
             SyncMenuWrites, SyncMenuReads, SyncMenuServed
<1>3. Sound("PatchMenuItem")
  <2>1. ContractOf("PatchMenuItem") = PartnerOperations["PatchMenuItem"]
    BY TwoContracts DEF PartnerOperations
  <2> QED BY <2>1, Apart
         DEF PartnerOperations, PatchMenuItemBinds, PatchMenuItemDecodes,
             PatchMenuItemWrites, PatchMenuItemReads, PatchMenuItemServed
<1>4. Sound("ListPartnerOrders")
  <2>1. ContractOf("ListPartnerOrders") = PartnerOperations["ListPartnerOrders"]
    BY TwoContracts DEF PartnerOperations
  <2> QED BY <2>1, Apart
         DEF PartnerOperations, ListPartnerOrdersBinds, ListPartnerOrdersDecodes,
             ListPartnerOrdersWrites, ListPartnerOrdersReads, ListPartnerOrdersServed
<1>5. Sound("GetPartnerOrder")
  <2>1. ContractOf("GetPartnerOrder") = PartnerOperations["GetPartnerOrder"]
    BY TwoContracts DEF PartnerOperations
  <2> QED BY <2>1, Apart
         DEF PartnerOperations, GetPartnerOrderBinds, GetPartnerOrderDecodes,
             GetPartnerOrderWrites, GetPartnerOrderReads, GetPartnerOrderServed
<1>6. Sound("AcceptOrder")
  <2>1. ContractOf("AcceptOrder") = PartnerOperations["AcceptOrder"]
    BY TwoContracts DEF PartnerOperations
  <2> QED BY <2>1, Apart
         DEF PartnerOperations, AcceptOrderBinds, AcceptOrderDecodes,
             AcceptOrderWrites, AcceptOrderReads, AcceptOrderServed
<1>7. Sound("StartCooking")
  <2>1. ContractOf("StartCooking") = PartnerOperations["StartCooking"]
    BY TwoContracts DEF PartnerOperations
  <2> QED BY <2>1, Apart
         DEF PartnerOperations, StartCookingBinds, StartCookingDecodes,
             StartCookingWrites, StartCookingReads, StartCookingServed
<1>8. Sound("HandoverOrder")
  <2>1. ContractOf("HandoverOrder") = PartnerOperations["HandoverOrder"]
    BY TwoContracts DEF PartnerOperations
  <2> QED BY <2>1, Apart
         DEF PartnerOperations, HandoverOrderBinds, HandoverOrderDecodes,
             HandoverOrderWrites, HandoverOrderReads, HandoverOrderServed
<1>9. Sound("MarkReady")
  <2>1. ContractOf("MarkReady") = PartnerOperations["MarkReady"]
    BY TwoContracts DEF PartnerOperations
  <2> QED BY <2>1, Apart
         DEF PartnerOperations, MarkReadyBinds, MarkReadyDecodes,
             MarkReadyWrites, MarkReadyReads, MarkReadyServed
<1>10. Sound("RejectOrder")
  <2>1. ContractOf("RejectOrder") = PartnerOperations["RejectOrder"]
    BY TwoContracts DEF PartnerOperations
  <2> QED BY <2>1, Apart
         DEF PartnerOperations, RejectOrderBinds, RejectOrderDecodes,
             RejectOrderWrites, RejectOrderReads, RejectOrderServed
<1>11. Sound("CloseShift")
  <2>1. ContractOf("CloseShift") = PartnerOperations["CloseShift"]
    BY TwoContracts DEF PartnerOperations
  <2> QED BY <2>1, Apart
         DEF PartnerOperations, CloseShiftBinds, CloseShiftDecodes,
             CloseShiftWrites, CloseShiftReads, CloseShiftServed
<1>12. Sound("OpenShift")
  <2>1. ContractOf("OpenShift") = PartnerOperations["OpenShift"]
    BY TwoContracts DEF PartnerOperations
  <2> QED BY <2>1, Apart
         DEF PartnerOperations, OpenShiftBinds, OpenShiftDecodes,
             OpenShiftWrites, OpenShiftReads, OpenShiftServed
<1> HIDE DEF Sound
<1>0. DOMAIN PartnerOperations = {
     "GetMe", "SyncMenu", "PatchMenuItem", "ListPartnerOrders", "GetPartnerOrder",
     "AcceptOrder", "StartCooking", "HandoverOrder", "MarkReady", "RejectOrder",
     "CloseShift", "OpenShift"}
  BY DEF PartnerOperations
<1> QED
  BY <1>0, <1>1, <1>2, <1>3, <1>4, <1>5, <1>6, <1>7, <1>8, <1>9, <1>10, <1>11, <1>12


LEMMA AllAreSound == \A op \in Operations : Sound(op)
BY TwoContracts, KitchenIsSound, PartnerIsSound

\* The answer a call has been given is honest: AnswersAreHonest of one call.
Honest(op, status, done) ==
  LET o == ContractOf(op)
  IN  /\ status \in Allowed(op)
      /\ status \in 200..299 => status \in o.reads /\ done = o.changes
      /\ status \in 400..499 => ~done
      /\ op \in DOMAIN PartnerOperations =>
           /\ Learns(status) = "done" => done = o.changes
           /\ Learns(status) \notin {"done", "failed"} => ~done
           /\ op \in Dereferenced /\ Learns(status) = "done" => 200 \in o.reads

\* What the venue learns it learns from the status.
LEMMA LearnsFromTheStatus ==
  ASSUME NEW status \in Int
  PROVE  /\ Learns(status) = "done" => status \in 200..299
         /\ Learns(status) \notin {"done", "failed"} => status \in 400..499
BY DEF Learns

LEMMA HonestWhen ==
  ASSUME NEW op \in Operations, NEW status \in Int, NEW done,
         status \in Allowed(op),
         status \in 200..299 => status \in ContractOf(op).reads /\ done = ContractOf(op).changes,
         status \in 400..499 => ~done
  PROVE  Honest(op, status, done)
<1>1. op \in Dereferenced => 200 \in ContractOf(op).reads
  BY AllAreSound DEF Sound
<1> QED BY <1>1, LearnsFromTheStatus DEF Honest

LEMMA SuccessIsHonest ==
  ASSUME NEW op \in Operations, NEW status \in ContractOf(op).answers,
         NEW done, done = ContractOf(op).changes
  PROVE  Honest(op, status, done)
<1>1. status \in {200, 201, 204} /\ status \in Allowed(op) /\ status \in ContractOf(op).reads
  BY AllAreSound DEF Sound
<1>2. status \in Int /\ status \notin 400..499
  BY <1>1
<1> QED BY <1>1, <1>2, HonestWhen

\* An answer outside the two hundreds is honest when nothing has been done.
LEMMA FailureIsHonest ==
  ASSUME NEW op \in Operations, NEW status \in Allowed(op), NEW done, ~done,
         status \in {400, 401, 404, 409, 422, 500, 501}
  PROVE  Honest(op, status, done)
<1>1. status \in Int /\ status \notin 200..299
  OBVIOUS
<1> QED BY <1>1, HonestWhen

\* That something went wrong may be said whether or not it did.
LEMMA InternalIsHonest ==
  ASSUME NEW op \in Operations, NEW done
  PROVE  Honest(op, 500, done)
<1>1. 500 \in Allowed(op)
  BY AllAreSound DEF Sound
<1>2. 500 \in Int /\ 500 \notin 200..299 /\ 500 \notin 400..499
  OBVIOUS
<1> QED BY <1>1, <1>2, HonestWhen

LEMMA FailsAreHonest ==
  ASSUME NEW op \in Operations, NEW f \in ContractOf(op).fails, NEW done, ~done
  PROVE  Honest(op, StatusOf[f], done)
<1>1. StatusOf[f] \in Allowed(op) /\ StatusOf[f] \in {400, 404, 409, 422, 500, 501}
  BY AllAreSound DEF Sound
<1> QED BY <1>1, FailureIsHonest

\* What the idempotency middleware says to a repeat.
LEMMA ReplaysAreHonest ==
  ASSUME NEW op \in Operations, ContractOf(op).caller = "guarded", NEW done
  PROVE  /\ done = TRUE => Honest(op, 200, done)
         /\ ~done => \A f \in {"unprocessable", "conflict", "internal"} :
                       Honest(op, StatusOf[f], done)
<1>1. /\ {200, 409, 422, 500} \subseteq Allowed(op) /\ 200 \in ContractOf(op).reads
      /\ ContractOf(op).changes = TRUE
  BY AllAreSound DEF Sound
<1>2. 200 \in Int /\ 200 \notin 400..499
  OBVIOUS
<1>3. \A f \in {"unprocessable", "conflict", "internal"} : StatusOf[f] \in {409, 422, 500}
  BY DEF StatusOf
<1>4. ASSUME done = TRUE PROVE Honest(op, 200, done)
  <2>1. done = ContractOf(op).changes
    BY <1>1, <1>4
  <2>2. 200 \in Allowed(op) /\ 200 \in ContractOf(op).reads
    BY <1>1
  <2> QED BY <1>2, <2>1, <2>2, HonestWhen
<1>5. ASSUME NEW f \in {"unprocessable", "conflict", "internal"}, ~done
      PROVE  Honest(op, StatusOf[f], done)
  BY <1>1, <1>3, <1>5, FailureIsHonest
<1> QED BY <1>4, <1>5

LEMMA StreamsAreHonest ==
  ASSUME NEW op \in Operations, op = "StreamOrderEvents", NEW done, done = FALSE
  PROVE  Honest(op, 200, done)
<1>1. 200 \in Allowed(op) /\ 200 \in ContractOf(op).reads
  BY AllAreSound DEF Sound
<1>2. done = ContractOf(op).changes
  <2>1. Sound(op)
    BY AllAreSound
  <2>2. ContractOf(op).changes = FALSE
    BY <2>1, Zenon DEF Sound
  <2> QED BY <2>2
<1>3. 200 \in Int /\ 200 \notin 400..499
  OBVIOUS
<1> QED BY <1>1, <1>2, <1>3, HonestWhen

\* What stands in front of the operation says to a request with flaws.
LEMMA RefusalsAreHonest ==
  ASSUME NEW op \in Operations, NEW flaws \in SUBSET FlawsOf(ContractOf(op)),
         Refusal(ContractOf(op), flaws) # 0, NEW done, ~done
  PROVE  Honest(op, Refusal(ContractOf(op), flaws), done)
<1> DEFINE o == ContractOf(op)
           answer == Refusal(o, flaws)
<1>1. \/ "caller" \in flaws /\ o.caller = "venue" /\ answer = 401
      \/ answer = 400 /\ ("caller" \in flaws => o.caller # "venue" \/ "parameter" \in flaws)
  BY DEF Refusal, StatusOf, Unreadable
<1>2. "caller" \in FlawsOf(o) => o.caller # "anyone"
  BY DEF FlawsOf
<1>3. flaws # {}
  BY DEF Refusal
<1>4. answer \in Allowed(op)
  BY <1>1, <1>2, <1>3, AllAreSound DEF Sound
<1> QED BY <1>1, <1>4, FailureIsHonest
----------------------------------------------------------------------------
(* Every call that is told something is told something honest: what its    *)
(* stage says of it.                                                       *)

WellCalled(c) ==
  /\ ~Ended(c) => c.op \in Operations
  /\ c.stage = "guarded" => ContractOf(c.op).caller = "guarded"
  /\ c.stage = "streaming" => c.op = "StreamOrderEvents"
  /\ c.stage = "finished" => Honest(c.op, c.status, c.done)

CallsInv == Shape /\ \A s \in Slots : WellCalled(calls[s])

LEMMA NoCallIsWell == WellCalled(NoCall) /\ WellCalled(Lost)
BY DEF WellCalled, NoCall, Lost, Ended

\* A call that is finished with an honest answer is well.
LEMMA FinishedIsWell ==
  ASSUME Shape, NEW s \in Slots, ~Ended(calls[s]), WellCalled(calls[s]),
         NEW status, NEW done, Honest(calls[s].op, status, done), Finished(s, status, done)
  PROVE  WellCalled(calls'[s])
<1>1. CASE calls[s].cut # "nobody"
  BY <1>1, NoCallIsWell DEF Finished, Dropped, Shape
<1>2. CASE calls[s].cut = "nobody"
  <2> DEFINE c == calls'[s]
  <2>1. /\ c.stage = "finished" /\ c.op = calls[s].op
        /\ c.status = status /\ c.done = done
    BY <1>2 DEF Finished, Shape, NoCall
  <2> QED BY <2>1 DEF WellCalled
<1> QED BY <1>1, <1>2

LEMMA AcceptedIsWell ==
  ASSUME Shape, NEW s \in Slots, NEW op \in OpsOf(s),
         NEW flaws \in SUBSET FlawsOf(ContractOf(op)), Accept(s, op, flaws)
  PROVE  WellCalled(calls'[s])
<1> DEFINE answer == Refusal(ContractOf(op), flaws)
           c == calls'[s]
<1>1. op \in Operations
  BY ApiAssumption DEF OpsOf
<1>2. /\ c.op = op /\ c.status = answer /\ c.done = FALSE
      /\ c.stage = IF answer = 0 THEN "in" ELSE "finished"
  BY DEF Accept, Shape, NoCall
<1>3. ~c.done
  BY <1>2
<1>4. answer # 0 => Honest(op, answer, c.done)
  BY <1>1, <1>3, RefusalsAreHonest
<1> HIDE DEF answer, c
<1> QED BY <1>1, <1>2, <1>4 DEF WellCalled, Ended, c

\* What a step of the call in slot s leaves in it.
LEMMA StepsAreWell ==
  ASSUME Shape, NEW s \in Slots, WellCalled(calls[s]),
         \/ \E op \in OpsOf(s) : \E flaws \in SUBSET FlawsOf(ContractOf(op)) : Accept(s, op, flaws)
         \/ Guard(s) \/ ReplayAnswer(s) \/ Begin(s) \/ NoDatabase(s) \/ Handle(s) \/ EndStream(s)
         \/ ClientLeaves(s)
  PROVE  WellCalled(calls'[s])
<1> DEFINE c == calls[s]
           o == ContractOf(c.op)
<1>1. CASE \E op \in OpsOf(s) : \E flaws \in SUBSET FlawsOf(ContractOf(op)) : Accept(s, op, flaws)
  BY <1>1, AcceptedIsWell
<1>2. CASE Guard(s)
  BY <1>2 DEF Guard, Called, WellCalled, Shape, Ended, NoCall
<1>3. CASE Begin(s)
  BY <1>3 DEF Begin, WellCalled, Shape, Ended, NoCall
<1>4. CASE ReplayAnswer(s)
  <2>1. ~Ended(c) /\ c.op \in Operations /\ o.caller = "guarded"
    BY <1>4 DEF ReplayAnswer, Ended, WellCalled
  <2>2. Honest(c.op, 200, TRUE)
    BY <2>1, ReplaysAreHonest
  <2>3. \A f \in {"unprocessable", "conflict", "internal"} : Honest(c.op, StatusOf[f], FALSE)
    BY <2>1, ReplaysAreHonest
  <2> QED BY <1>4, <2>1, <2>2, <2>3, FinishedIsWell DEF ReplayAnswer
<1>5. CASE Finish(s)
  <2>1. ~Ended(c) /\ c.op \in Operations
    BY <1>5 DEF Finish, Ended, WellCalled
  <2>2. ASSUME NEW answer \in o.answers, Finished(s, answer, o.changes) PROVE WellCalled(calls'[s])
    <3>1. Honest(c.op, answer, o.changes)
      BY <2>1, SuccessIsHonest
    <3> QED BY <2>1, <2>2, <3>1, FinishedIsWell
  <2>3. ASSUME NEW f \in o.fails, Finished(s, StatusOf[f], FALSE) PROVE WellCalled(calls'[s])
    <3>1. Honest(c.op, StatusOf[f], FALSE)
      BY <2>1, FailsAreHonest
    <3> QED BY <2>1, <2>3, <3>1, FinishedIsWell
  <2>4. ASSUME Finished(s, StatusOf["internal"], o.changes) PROVE WellCalled(calls'[s])
    <3>1. Honest(c.op, StatusOf["internal"], o.changes)
      BY <2>1, InternalIsHonest DEF StatusOf
    <3> QED BY <2>1, <2>4, <3>1, FinishedIsWell
  <2> QED BY <1>5, <2>2, <2>3, <2>4 DEF Finish, Called
<1>6. CASE OpenStream(s)
  BY <1>6 DEF OpenStream, WellCalled, Shape, Ended, NoCall
<1>7. CASE BreakStream(s)
  BY <1>7, NoCallIsWell DEF BreakStream, Dropped, Shape
<1>8. CASE EndStream(s)
  <2>1. ~Ended(c) /\ c.op \in Operations /\ c.op = "StreamOrderEvents"
    BY <1>8 DEF EndStream, Ended, WellCalled
  <2>2. Honest(c.op, 200, FALSE)
    BY <2>1, StreamsAreHonest
  <2> QED BY <1>8, <2>1, <2>2, FinishedIsWell DEF EndStream
<1>9. CASE GiveUp(s) \/ NoDatabase(s)
  <2>1. ~Ended(c) /\ c.op \in Operations
    BY <1>9 DEF GiveUp, NoDatabase, Ended, WellCalled
  <2>2. Honest(c.op, StatusOf["internal"], FALSE)
    BY <2>1, InternalIsHonest DEF StatusOf
  <2> QED BY <1>9, <2>1, <2>2, FinishedIsWell DEF GiveUp, NoDatabase
<1>10. CASE ReadAnswer(s)
  BY <1>10, NoCallIsWell DEF ReadAnswer, Shape
<1>11. CASE ClientLeaves(s)
  <2>1. CASE c.stage = "finished"
    BY <1>11, <2>1, NoCallIsWell DEF ClientLeaves, Shape
  <2>2. CASE c.stage # "finished"
    BY <1>11, <2>2 DEF ClientLeaves, Live, WellCalled, Shape, Ended, NoCall
  <2> QED BY <2>1, <2>2
<1> HIDE DEF c, o
<1> QED
  BY <1>1, <1>2, <1>3, <1>4, <1>5, <1>6, <1>7, <1>8, <1>9, <1>10, <1>11 DEF Handle

LEMMA CallsInvStep == CallsInv /\ [ApiNext]_apiVars => CallsInv'
<1> SUFFICES ASSUME CallsInv, [ApiNext]_apiVars PROVE CallsInv'
  OBVIOUS
<1> USE DEF CallsInv
<1>1. CASE UNCHANGED calls
  BY <1>1 DEF Shape
<1>2. CASE Crash \/ Restart \/ Exit
  <2>1. Shape'
    BY <1>2, NoCallIsKept DEF Crash, Restart, Exit, Shape
  <2>2. \A s \in Slots : calls'[s] \in {calls[s], NoCall, Lost}
    BY <1>2 DEF Crash, Restart, Exit
  <2> QED BY <2>1, <2>2, NoCallIsWell
<1>3. CASE DrainTimesOut
  <2>1. Shape'
    BY <1>3, NoCallIsKept DEF DrainTimesOut, Shape
  <2>2. ASSUME NEW s \in Slots PROVE WellCalled(calls'[s])
    <3>1. CASE calls'[s] = [calls[s] EXCEPT !.cut = "server"]
      BY <3>1 DEF WellCalled, Shape, Ended, NoCall
    <3>2. calls'[s] \in {calls[s], Lost, [calls[s] EXCEPT !.cut = "server"]}
      BY <1>3 DEF DrainTimesOut
    <3> QED BY <3>1, <3>2, NoCallIsWell
  <2> QED BY <2>1, <2>2
<1>4. ASSUME NEW s \in Slots, CallStep(s), WellCalled(calls'[s]) PROVE CallsInv'
  <2>1. Shape'
    BY <1>4 DEF CallStep, Shape
  <2>2. \A t \in Slots : WellCalled(calls'[t])
    BY <1>4 DEF CallStep
  <2> QED BY <2>1, <2>2
<1>5. ASSUME NEW s \in Slots,
         \/ \E op \in OpsOf(s) : \E flaws \in SUBSET FlawsOf(ContractOf(op)) : Accept(s, op, flaws)
         \/ Guard(s) \/ ReplayAnswer(s) \/ Begin(s) \/ NoDatabase(s) \/ Handle(s) \/ EndStream(s)
         \/ ClientLeaves(s)
      PROVE  CallsInv'
  BY <1>4, <1>5, CallSteps, StepsAreWell
<1>6. CASE Start \/ StartFails \/ Signal \/ ServeFails \/ Shutdown \/ Drained \/ StopBackground
           \/ CloseDb \/ UNCHANGED apiVars
  BY <1>1, <1>6 DEF Start, StartFails, Signal, ServeFails, Shutdown, Drained, StopBackground,
       CloseDb, apiVars
<1> QED
  BY <1>2, <1>3, <1>5, <1>6 DEF ApiNext, Stopping

\* Whatever a client is told may be acted on: the status is one the API
\* declares, a success means that what was asked for is there and a refusal
\* that nothing has changed, for any number of calls and any pool.
THEOREM ToldTheTruth == ApiSpec => []AnswersAreHonest
<1>1. ApiInit => CallsInv
  BY NoCallIsWell DEF ApiInit, CallsInv, Shape
<1>2. CallsInv => AnswersAreHonest
  BY DEF CallsInv, WellCalled, Honest, Allowed, AnswersAreHonest, Called
<1> QED
  BY <1>1, <1>2, CallsInvStep, PTL DEF ApiSpec

----------------------------------------------------------------------------
(* The stories that are checked are of these specifications. *)

\* The guard and the checkout keep to their types, whichever of them is told.
THEOREM RequestTypesHold == MCSpec => []MCTypeOK
<1>1. MCInit => Init /\ CheckoutInit
  BY DEF MCInit
<1>2. [MCNext]_mcVars => [Next]_vars /\ [CheckoutNext]_checkoutVars
  BY DEF MCNext, CheckoutStep, KeyStep, CallsStep, mcVars
<1>3. TypeOK /\ CheckoutTypeOK => MCTypeOK
  BY DEF MCTypeOK
<1> QED
  BY <1>1, <1>2, <1>3, TypeCorrect, CheckoutTypeCorrect, PTL DEF MCSpec, Spec, CheckoutSpec
=============================================================================
