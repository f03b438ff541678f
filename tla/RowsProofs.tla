------------------------------ MODULE RowsProofs ------------------------------
(***************************************************************************)
(* Proofs about Cart and MenuSync: requests that meet at the rows of the   *)
(* database, for any number of venues, dishes, categories, items, requests *)
(* and uploads.                                                            *)
(*                                                                         *)
(* Cart.  NothingIsSwallowed rests on the lock of the row of the cart: what*)
(* a placement has read still covers the cart, because whoever stores an   *)
(* item needs the row as well.  CartKnowsItsVenue rests on what a request  *)
(* that has met no other has read: it is still so when it writes.          *)
(*                                                                         *)
(* MenuSync.  Both properties rest on the locks of the rows an upload has  *)
(* written (Separate), on all of them being written as the upload has them *)
(* before it looks for what is missing (Writing), and on what it finds then*)
(* still being all there is (Clearing): another upload that could put      *)
(* something on sale shares a category with it and waits at that row       *)
(* (Together, OneIsClearing).                                              *)
(***************************************************************************)
EXTENDS MCRows, SetSums, SequenceTheorems, TLAPS

----------------------------------------------------------------------------
(* Cart *)

\* What a placement has read covers what is in the cart.
DraftCoversTheCart ==
  \A r \in Requests : req[r].at = "drafted" => lines \subseteq req[r].items

\* Who has met no other is the only one under way ...
OneAtATime ==
  alone => \A r, q \in Requests : req[r] # Idle /\ req[q] # Idle => r = q

\* ... and what it has found out is still so.
ReadIsCurrent ==
  alone => \A r \in Requests :
    /\ req[r].at = "checked" =>
         \E i \in Items : req[r].items = {i} /\ CheckVenue(VenueOf(i))
    /\ req[r].at = "forgetting" => lines \subseteq req[r].items
    /\ req[r].at = "keeping" => ~(lines \subseteq req[r].items) \/ venue = NoVenue

\* Requests that meet are remembered.
MeetingsAreTold == crossed \/ alone

IInv ==
  /\ TypeOK
  /\ DraftCoversTheCart
  /\ OneAtATime
  /\ ReadIsCurrent
  /\ MeetingsAreTold
  /\ CartKnowsItsVenue

LEMMA CartInit == Init => IInv
<1> SUFFICES ASSUME Init PROVE IInv
  OBVIOUS
<1> USE DEF Init
<1>1. TypeOK
  BY DEF TypeOK
<1>2. \A r \in Requests : req[r] = Idle /\ req[r].at = "idle"
  BY DEF Idle
<1>3. DraftCoversTheCart /\ OneAtATime /\ ReadIsCurrent /\ MeetingsAreTold
  BY <1>2 DEF DraftCoversTheCart, OneAtATime, ReadIsCurrent, MeetingsAreTold
<1>4. CartKnowsItsVenue
  BY DEF CartKnowsItsVenue, AllOf
<1> QED BY <1>1, <1>3, <1>4 DEF IInv

----------------------------------------------------------------------------
(* Every kind of step keeps the types. *)

\* One request is somewhere else afterwards.
LEMMA TypesOfAStep ==
  ASSUME TypeOK, NEW r \in Requests, NEW x, req' = [req EXCEPT ![r] = x],
         \/ x = Idle
         \/ /\ x.at \in {"checked", "deleted", "forgetting", "keeping"}
            /\ x.venue = NoVenue
            /\ x.items \in SUBSET Items
         \/ /\ x.at = "drafted"
            /\ x.venue \in Venues
            /\ x.items \in (SUBSET Items) \ {{}},
         venue' \in Venues \union {NoVenue}, lines' \in SUBSET Items,
         alone' \in BOOLEAN, crossed' \in BOOLEAN
  PROVE  TypeOK'
<1>1. DOMAIN req' = Requests /\ req'[r] = x /\ \A q \in Requests \ {r} : req'[q] = req[q]
  BY DEF TypeOK
<1>2. ASSUME NEW q \in Requests
      PROVE  \/ req'[q] = Idle
             \/ /\ req'[q].at \in {"checked", "deleted", "forgetting", "keeping"}
                /\ req'[q].venue = NoVenue
                /\ req'[q].items \in SUBSET Items
             \/ /\ req'[q].at = "drafted"
                /\ req'[q].venue \in Venues
                /\ req'[q].items \in (SUBSET Items) \ {{}}
  <2>1. CASE q = r
    BY <1>1, <2>1
  <2>2. CASE q # r
    BY <1>1, <2>2 DEF TypeOK
  <2> QED BY <2>1, <2>2
<1> QED BY <1>1, <1>2 DEF TypeOK, Idle

\* Beginning and ending a request tells whether requests meet.
LEMMA MeetingIsTold ==
  ASSUME TypeOK, NEW r \in Requests
  PROVE  /\ \A x : Begin(r, x) => alone' \in BOOLEAN /\ crossed' \in BOOLEAN
         /\ End(r) \/ EndTaking(r) => alone' \in BOOLEAN /\ crossed' \in BOOLEAN
BY DEF TypeOK, Begin, End, EndTaking

LEMMA TypeStep == ASSUME CartAssumption, TypeOK, [Next]_vars PROVE TypeOK'
<1>0. /\ venue \in Venues \union {NoVenue} /\ lines \in SUBSET Items
      /\ alone \in BOOLEAN /\ crossed \in BOOLEAN
  BY DEF TypeOK
<1>1. ASSUME NEW r \in Requests, NEW i \in Items, SetItem(r, i) PROVE TypeOK'
  BY <1>0, <1>1, TypesOfAStep, MeetingIsTold DEF SetItem, Begin
<1>2. ASSUME NEW r \in Requests, StoreItem(r) PROVE TypeOK'
  <2>1. PICK i \in req[r].items : venue' = IF venue = NoVenue THEN VenueOf(i) ELSE venue
    BY <1>2 DEF StoreItem
  <2>2. req[r].items \in SUBSET Items
    BY <1>2 DEF StoreItem, TypeOK, Idle
  <2>3. venue' \in Venues \union {NoVenue}
    BY <1>0, <2>1, <2>2 DEF Items, VenueOf
  <2> QED BY <1>0, <1>2, <2>2, <2>3, TypesOfAStep, MeetingIsTold DEF StoreItem, End
<1>3. ASSUME NEW r \in Requests, NEW S \in SUBSET Items, Delete(r, S) PROVE TypeOK'
  BY <1>0, <1>3, TypesOfAStep, MeetingIsTold DEF Delete, Begin
<1>4. ASSUME NEW r \in Requests, LookForItems(r) PROVE TypeOK'
  <2>1. PICK at \in {"forgetting", "keeping"} :
          req' = [req EXCEPT ![r] = [at |-> at, venue |-> NoVenue, items |-> req[r].items]]
    BY <1>4 DEF LookForItems
  <2>2. req[r].items \in SUBSET Items
    BY <1>4 DEF LookForItems, TypeOK, Idle
  <2> QED BY <1>0, <1>4, <2>1, <2>2, TypesOfAStep DEF LookForItems
<1>5. ASSUME NEW r \in Requests, ForgetEmptyVenue(r) \/ KeepVenue(r) PROVE TypeOK'
  BY <1>0, <1>5, TypesOfAStep, MeetingIsTold DEF ForgetEmptyVenue, KeepVenue, EndTaking
<1>6. ASSUME NEW r \in Requests, Draft(r) PROVE TypeOK'
  BY <1>0, <1>6, TypesOfAStep, MeetingIsTold DEF Draft, Begin
<1>7. ASSUME NEW r \in Requests, Place(r) PROVE TypeOK'
  BY <1>0, <1>7, TypesOfAStep, MeetingIsTold DEF Place, EndTaking
<1>8. ASSUME NEW r \in Requests, End(r), UNCHANGED <<venue, lines>> PROVE TypeOK'
  BY <1>0, <1>8, TypesOfAStep DEF End
<1>9. CASE UNCHANGED vars
  BY <1>9 DEF vars, TypeOK, Idle
<1>10. ASSUME NEW r \in Requests, RemoveItem(r) \/ Clear(r) PROVE TypeOK'
  <2>1. PICK S \in SUBSET Items : Delete(r, S)
    BY <1>0, <1>10 DEF RemoveItem, Clear
  <2> QED BY <1>3, <2>1
<1>11. ASSUME NEW r \in Requests, Refuse(r) \/ BreakDeadlock(r) \/ Fail(r) PROVE TypeOK'
  <2>1. PICK q \in Requests : End(q) /\ UNCHANGED <<venue, lines>>
    BY <1>11 DEF Refuse, BreakDeadlock, Fail
  <2> QED BY <1>8, <2>1
<1> QED BY <1>1, <1>2, <1>4, <1>5, <1>6, <1>7, <1>9, <1>10, <1>11 DEF Next

----------------------------------------------------------------------------
(* Every kind of step keeps the invariant. *)

\* A request begins with what it reads now, and nothing else changes.
LEMMA BeginKeepsIInv ==
  ASSUME IInv, TypeOK', NEW r \in Requests, NEW state, Begin(r, state),
         UNCHANGED <<venue, lines>>,
         state.at = "drafted" => state.items = lines,
         state.at = "checked" => \E i \in Items : state.items = {i} /\ CheckVenue(VenueOf(i)),
         state.at \notin {"idle", "forgetting", "keeping"}
  PROVE  IInv'
<1> USE DEF IInv, Begin
<1>1. /\ req'[r] = state /\ req[r] = Idle
      /\ \A q \in Requests \ {r} : req'[q] = req[q]
  BY DEF TypeOK
<1>2. DraftCoversTheCart'
  BY <1>1 DEF DraftCoversTheCart
<1>3. OneAtATime'
  <2>1. alone' => \A q \in Requests \ {r} : req'[q] = Idle
    BY <1>1
  <2> QED BY <2>1 DEF OneAtATime
<1>4. ReadIsCurrent'
  <2> SUFFICES ASSUME alone', NEW q \in Requests
               PROVE  /\ req'[q].at = "checked" =>
                           \E i \in Items : req'[q].items = {i} /\ CheckVenue(VenueOf(i))
                      /\ req'[q].at \notin {"forgetting", "keeping"}
    BY DEF ReadIsCurrent, CheckVenue
  <2>1. CASE q = r
    BY <1>1, <2>1
  <2>2. CASE q # r
    <3>1. req'[q] = Idle
      BY <1>1, <2>2
    <3> QED BY <3>1 DEF Idle
  <2> QED BY <2>1, <2>2
<1>5. CartKnowsItsVenue' /\ MeetingsAreTold'
  BY DEF CartKnowsItsVenue, MeetingsAreTold, AllOf, TypeOK
<1> QED BY <1>2, <1>3, <1>4, <1>5

\* A request ends and nothing else changes.
LEMMA EndKeepsIInv ==
  ASSUME IInv, TypeOK', NEW r \in Requests, End(r), UNCHANGED <<venue, lines>>
  PROVE  IInv'
<1> USE DEF IInv, End
<1>1. /\ req'[r] = Idle
      /\ \A q \in Requests \ {r} : req'[q] = req[q]
  BY DEF TypeOK
<1>2. DraftCoversTheCart'
  BY <1>1 DEF DraftCoversTheCart, Idle
<1>3. OneAtATime'
  BY <1>1 DEF OneAtATime
<1>4. ReadIsCurrent'
  BY <1>1 DEF ReadIsCurrent, CheckVenue, Idle
<1>5. CartKnowsItsVenue' /\ MeetingsAreTold'
  BY DEF CartKnowsItsVenue, MeetingsAreTold, AllOf
<1> QED BY <1>2, <1>3, <1>4, <1>5

\* A request changes the cart with its end; when it was alone nobody is left who
\* has read anything.
LEMMA ChangeKeepsIInv ==
  ASSUME IInv, TypeOK', NEW r \in Requests, req[r] # Idle, End(r) \/ EndTaking(r),
         DraftCoversTheCart', CartKnowsItsVenue'
  PROVE  IInv'
<1> USE DEF IInv, End, EndTaking
<1>1. /\ req'[r] = Idle /\ alone' = alone
      /\ \A q \in Requests \ {r} : req'[q] = req[q]
  BY DEF TypeOK
<1>2. OneAtATime'
  BY <1>1 DEF OneAtATime
<1>3. alone' => \A q \in Requests : req'[q] = Idle
  BY <1>1 DEF OneAtATime
<1>4. ReadIsCurrent'
  BY <1>3 DEF ReadIsCurrent, Idle
<1>5. MeetingsAreTold'
  BY <1>1 DEF MeetingsAreTold
<1> QED BY <1>2, <1>4, <1>5

\* SetItem.
LEMMA StoreKeepsIInv ==
  ASSUME CartAssumption, IInv, TypeOK', NEW r \in Requests, StoreItem(r)
  PROVE  IInv'
<1> USE DEF IInv
<1>1. DraftCoversTheCart'
  BY DEF StoreItem, RowIsFree, End, TypeOK, DraftCoversTheCart, Idle
<1>2. CartKnowsItsVenue'
  <2> SUFFICES ASSUME ~crossed PROVE AllOf(venue', lines') /\ lines' # {}
    BY DEF CartKnowsItsVenue, StoreItem, End
  <2>1. PICK i \in Items : req[r].items = {i} /\ CheckVenue(VenueOf(i))
    BY DEF ReadIsCurrent, MeetingsAreTold, StoreItem
  <2>2. lines' = lines \union {i} /\ venue' = IF venue = NoVenue THEN VenueOf(i) ELSE venue
    BY <2>1 DEF StoreItem
  <2>3. lines # {} => venue # NoVenue
    BY DEF CartKnowsItsVenue, AllOf, TypeOK, CartAssumption, Items, VenueOf
  <2>4. AllOf(venue, lines) /\ (lines = {} => venue = NoVenue)
    BY DEF CartKnowsItsVenue
  <2> QED BY <2>1, <2>2, <2>3, <2>4 DEF AllOf, CheckVenue
<1> QED BY <1>1, <1>2, ChangeKeepsIInv DEF StoreItem, Idle

\* RemoveItem and Clear, their second statement.
LEMMA LookKeepsIInv ==
  ASSUME IInv, TypeOK', NEW r \in Requests, LookForItems(r)
  PROVE  IInv'
<1> USE DEF IInv
<1>1. PICK at \in {"forgetting", "keeping"} :
        /\ at = "forgetting" <=> lines \subseteq req[r].items /\ venue # NoVenue
        /\ req' = [req EXCEPT ![r] = [at |-> at, venue |-> NoVenue, items |-> req[r].items]]
  BY DEF LookForItems
<1>2. /\ req'[r].at = at /\ req'[r].items = req[r].items /\ req[r] # Idle
      /\ \A q \in Requests \ {r} : req'[q] = req[q]
      /\ UNCHANGED <<venue, lines, alone, crossed>>
  BY <1>1 DEF TypeOK, LookForItems, Idle
<1>3. DraftCoversTheCart' /\ OneAtATime'
  BY <1>2 DEF DraftCoversTheCart, OneAtATime
<1>4. ReadIsCurrent'
  BY <1>1, <1>2 DEF ReadIsCurrent, CheckVenue
<1>5. CartKnowsItsVenue' /\ MeetingsAreTold'
  BY <1>2 DEF CartKnowsItsVenue, MeetingsAreTold, AllOf
<1> QED BY <1>3, <1>4, <1>5

\* ... and their commit, with nothing to forget or with the venue forgotten.  A
\* request that was alone and has emptied the cart has forgotten its venue.
LEMMA TakingKeepsIInv ==
  ASSUME IInv, TypeOK', NEW r \in Requests, KeepVenue(r) \/ ForgetEmptyVenue(r)
  PROVE  IInv'
<1> USE DEF IInv
<1>1. /\ req[r] # Idle /\ lines' = lines \ req[r].items /\ EndTaking(r)
      /\ venue' = IF req[r].at = "keeping" THEN venue ELSE NoVenue
  BY DEF KeepVenue, ForgetEmptyVenue, Idle
<1>2. DraftCoversTheCart'
  BY <1>1 DEF EndTaking, TypeOK, DraftCoversTheCart, Idle
<1>3. CartKnowsItsVenue'
  <2> SUFFICES ASSUME ~crossed' PROVE AllOf(venue', lines') /\ (lines' = {} => venue' = NoVenue)
    BY DEF CartKnowsItsVenue
  <2>1. alone
    BY <1>1 DEF EndTaking, MeetingsAreTold
  <2>2. CASE req[r].at = "keeping"
    <3>1. ~(lines \subseteq req[r].items) \/ venue = NoVenue
      BY <2>1, <2>2 DEF ReadIsCurrent
    <3>2. lines' = {} => venue' = NoVenue
      BY <1>1, <2>2, <3>1
    <3>3. lines' # {} => AllOf(venue', lines')
      BY <1>1, <2>2 DEF CartKnowsItsVenue, EndTaking, AllOf
    <3> QED BY <3>2, <3>3 DEF AllOf
  <2>3. CASE req[r].at # "keeping"
    <3>1. lines \subseteq req[r].items
      BY <2>1, <2>3 DEF ReadIsCurrent, KeepVenue, ForgetEmptyVenue
    <3> QED BY <1>1, <2>3, <3>1 DEF AllOf
  <2> QED BY <2>2, <2>3
<1> QED BY <1>1, <1>2, <1>3, ChangeKeepsIInv

\* Create.
LEMMA PlaceKeepsIInv ==
  ASSUME IInv, TypeOK', NEW r \in Requests, Place(r)
  PROVE  IInv'
<1>1. DraftCoversTheCart' /\ CartKnowsItsVenue'
  BY DEF Place, DraftCoversTheCart, CartKnowsItsVenue, AllOf
<1> QED BY <1>1, ChangeKeepsIInv DEF Place, Idle

LEMMA CartStep == ASSUME CartAssumption, IInv, [Next]_vars PROVE IInv'
<1>0. TypeOK'
  BY TypeStep DEF IInv
<1>1. ASSUME NEW r \in Requests, NEW i \in Items, SetItem(r, i) PROVE IInv'
  BY <1>0, <1>1, BeginKeepsIInv DEF SetItem
<1>2. ASSUME NEW r \in Requests, NEW S, Delete(r, S) PROVE IInv'
  BY <1>0, <1>2, BeginKeepsIInv DEF Delete
<1>3. ASSUME NEW r \in Requests, Draft(r) PROVE IInv'
  BY <1>0, <1>3, BeginKeepsIInv DEF Draft
<1>4. ASSUME NEW r \in Requests, Refuse(r) \/ BreakDeadlock(r) \/ Fail(r) PROVE IInv'
  <2>1. PICK q \in Requests : End(q) /\ UNCHANGED <<venue, lines>>
    BY <1>4 DEF Refuse, BreakDeadlock, Fail
  <2> QED BY <1>0, <2>1, EndKeepsIInv
<1>5. CASE UNCHANGED vars
  BY <1>0, <1>5 DEF vars, IInv, DraftCoversTheCart, OneAtATime, ReadIsCurrent, CheckVenue,
                    MeetingsAreTold, CartKnowsItsVenue, AllOf
<1> QED
  BY <1>0, <1>1, <1>2, <1>3, <1>4, <1>5, StoreKeepsIInv, LookKeepsIInv, TakingKeepsIInv,
     PlaceKeepsIInv DEF Next, RemoveItem, Clear

LEMMA AlwaysIInv == ASSUME CartAssumption PROVE Spec => []IInv
BY CartInit, CartStep, PTL DEF Spec

----------------------------------------------------------------------------

\* The rows of the cart and what each request has read stay what they are.
THEOREM TypeCorrect == ASSUME CartAssumption PROVE Spec => []TypeOK
BY AlwaysIInv, PTL DEF IInv

\* Requests that come one after the other keep a cart of one venue, and the first
\* that empties it alone after some have met leaves it as good as new.
THEOREM KnowsItsVenue == ASSUME CartAssumption PROVE Spec => []CartKnowsItsVenue
BY AlwaysIInv, PTL DEF IInv

\* Whatever requests come in between, an order holds all that it empties.
THEOREM SwallowsNothing == ASSUME CartAssumption PROVE Spec => NothingIsSwallowed
<1>1. ASSUME IInv, Next
      PROVE  \A r \in Requests :
               req[r].at = "drafted" /\ req'[r] = Idle /\ lines' # lines =>
                 lines \subseteq req[r].items
  BY <1>1 DEF IInv, DraftCoversTheCart
<1>2. IInv /\ [Next]_vars =>
        [\A r \in Requests :
           req[r].at = "drafted" /\ req'[r] = Idle /\ lines' # lines =>
             lines \subseteq req[r].items]_vars
  BY <1>1
<1> QED BY AlwaysIInv, <1>2, PTL DEF Spec, NothingIsSwallowed

----------------------------------------------------------------------------
(* Flattening.  FlattenSeq joins one sequence after the other by recursion; *)
(* what it computes is shown for the shortest prefix for which it would    *)
(* not.                                                                    *)

\* One sequence after the other, by a name the provers need not look into.
Glue(s, t) == s \o t

Joins(f, seqs, n) == f = [i \in 1..n |-> IF i = 1 THEN seqs[i] ELSE Glue(f[i - 1], seqs[i])]

\* s and t are of one length and R holds between their elements at each place.
Related(R, s, t) == Len(s) = Len(t) /\ \A j \in 1..Len(s) : <<s[j], t[j]>> \in R

\* b stands in s without a break.
Has(s, b) == \E k \in Nat : k + Len(b) <= Len(s) /\ \A j \in 1..Len(b) : s[k + j] = b[j]

LEMMA FlattenIsChosen ==
  ASSUME NEW seqs, Len(seqs) # 0
  PROVE  FlattenSeq(seqs) = (CHOOSE f : Joins(f, seqs, Len(seqs)))[Len(seqs)]
BY DEF FlattenSeq, Joins, Glue

LEMMA JoinsExist ==
  ASSUME NEW seqs, NEW n \in Nat
  PROVE  \E f : Joins(f, seqs, n)
<1> DEFINE Bad == {m \in Nat : ~\E f : Joins(f, seqs, m)}
<1>1. SUFFICES ASSUME Bad # {} PROVE FALSE
  OBVIOUS
<1>2. PICK m \in Bad : \A k \in Bad : m <= k
  BY <1>1, LeastOf
<1>3. CASE m = 0
  <2> DEFINE f == [i \in 1..0 |-> 0]
  <2>1. Joins(f, seqs, 0)
    BY DEF Joins
  <2> QED BY <1>2, <1>3, <2>1
<1>4. CASE m # 0
  <2>1. m - 1 \in Nat /\ m - 1 \notin Bad
    BY <1>2, <1>4
  <2>2. PICK g : Joins(g, seqs, m - 1)
    BY <2>1
  <2> DEFINE Next1(f) == [i \in 1..m |-> IF i = 1 THEN seqs[i] ELSE Glue(f[i - 1], seqs[i])]
  <2>3. \A i \in 1..m : i # 1 => Next1(g)[i - 1] = g[i - 1]
    <3> SUFFICES ASSUME NEW i \in 1..m, i # 1 PROVE Next1(g)[i - 1] = g[i - 1]
      OBVIOUS
    <3>1. i - 1 \in 1..m /\ i - 1 \in 1..(m - 1)
      OBVIOUS
    <3>2. g[i - 1] = IF i - 1 = 1 THEN seqs[i - 1] ELSE Glue(g[(i - 1) - 1], seqs[i - 1])
      BY <2>2, <3>1 DEF Joins
    <3> QED BY <3>1, <3>2
  <2>4. Next1(Next1(g)) = Next1(g)
    <3>1. \A i \in 1..m : (IF i = 1 THEN seqs[i] ELSE Glue(Next1(g)[i - 1], seqs[i]))
                          = (IF i = 1 THEN seqs[i] ELSE Glue(g[i - 1], seqs[i]))
      BY <2>3
    <3> QED BY <3>1
  <2>5. Joins(Next1(g), seqs, m)
    BY <2>4 DEF Joins
  <2> QED BY <1>2, <2>5
<1> QED BY <1>3, <1>4

LEMMA FlattenIs ==
  ASSUME NEW seqs, Len(seqs) \in Nat \ {0}
  PROVE  \E f : Joins(f, seqs, Len(seqs)) /\ FlattenSeq(seqs) = f[Len(seqs)]
BY FlattenIsChosen, JoinsExist

LEMMA Joined ==
  ASSUME NEW S, NEW seqs \in Seq(Seq(S)), NEW f, Joins(f, seqs, Len(seqs)), NEW i \in 1..Len(seqs)
  PROVE  /\ i = 1 => f[i] = seqs[i]
         /\ i # 1 => i - 1 \in 1..Len(seqs) /\ f[i] = Glue(f[i - 1], seqs[i])
         /\ seqs[i] \in Seq(S)
<1>1. Len(seqs) \in Nat /\ i \in Int /\ 1 <= i /\ i <= Len(seqs)
  OBVIOUS
<1>3. seqs[i] \in Seq(S)
  OBVIOUS
<1>2. f[i] = IF i = 1 THEN seqs[i] ELSE Glue(f[i - 1], seqs[i])
  BY DEF Joins
<1> QED BY <1>1, <1>2, <1>3

LEMMA JoinedType ==
  ASSUME NEW S, NEW seqs \in Seq(Seq(S)), NEW f, Joins(f, seqs, Len(seqs))
  PROVE  \A i \in 1..Len(seqs) : f[i] \in Seq(S)
<1> DEFINE Bad == {i \in 1..Len(seqs) : f[i] \notin Seq(S)}
<1>1. SUFFICES ASSUME Bad # {} PROVE FALSE
  OBVIOUS
<1>2. Bad \in SUBSET Nat
  OBVIOUS
<1>3. \A i : i \in Bad <=> i \in 1..Len(seqs) /\ f[i] \notin Seq(S)
  OBVIOUS
<1> HIDE DEF Bad
<1>4. PICK i \in Bad : \A k \in Bad : i <= k
  BY <1>1, <1>2, LeastOf
<1>5. i \in 1..Len(seqs)
  BY <1>3
<1>6. CASE i = 1
  BY <1>3, <1>5, <1>6, Joined
<1>7. CASE i # 1
  <2>1. i - 1 \in 1..Len(seqs) /\ f[i] = Glue(f[i - 1], seqs[i]) /\ seqs[i] \in Seq(S)
    BY <1>5, <1>7, Joined
  <2>2. i - 1 \notin Bad
    BY <1>4, <1>5
  <2>3. f[i - 1] \in Seq(S)
    BY <1>3, <2>1, <2>2
  <2>4. Glue(f[i - 1], seqs[i]) \in Seq(S)
    BY <2>1, <2>3, ConcatProperties DEF Glue
  <2> QED BY <1>3, <2>1, <2>4
<1> QED BY <1>6, <1>7

\* What two sequences have in common place by place, their concatenations do.
LEMMA ConcatRelates ==
  ASSUME NEW S, NEW T, NEW R, NEW s \in Seq(S), NEW v \in Seq(S), NEW t \in Seq(T), NEW w \in Seq(T),
         Related(R, s, t), Related(R, v, w)
  PROVE  Related(R, Glue(s, v), Glue(t, w))
<1>0. Len(s) \in Nat /\ Len(v) \in Nat
  OBVIOUS
<1>1. /\ Len(s) \in Nat /\ Len(v) \in Nat
      /\ Len(s) = Len(t) /\ Len(v) = Len(w)
      /\ \A j \in 1..Len(s) : <<s[j], t[j]>> \in R
      /\ \A j \in 1..Len(v) : <<v[j], w[j]>> \in R
  BY <1>0, Zenon DEF Related
<1>2. /\ Len(Glue(s, v)) = Len(s) + Len(v)
      /\ \A j \in 1..Len(s) + Len(v) : Glue(s, v)[j] = IF j <= Len(s) THEN s[j] ELSE v[j - Len(s)]
  BY ConcatProperties DEF Glue
<1>3. /\ Len(Glue(t, w)) = Len(t) + Len(w)
      /\ \A j \in 1..Len(t) + Len(w) : Glue(t, w)[j] = IF j <= Len(t) THEN t[j] ELSE w[j - Len(t)]
  BY ConcatProperties DEF Glue
<1>4. ASSUME NEW j \in 1..Len(s) + Len(v)
      PROVE  <<Glue(s, v)[j], Glue(t, w)[j]>> \in R
  <2>1. CASE j <= Len(s)
    BY <1>1, <1>2, <1>3, <2>1
  <2>2. CASE ~(j <= Len(s))
    <3>1. j - Len(s) \in 1..Len(v)
      BY <1>1, <2>2
    <3>2. Glue(s, v)[j] = v[j - Len(s)] /\ Glue(t, w)[j] = w[j - Len(s)]
      BY <1>1, <1>2, <1>3, <2>2
    <3>3. <<v[j - Len(s)], w[j - Len(s)]>> \in R
      BY <1>1, <3>1
    <3> QED BY <3>2, <3>3
  <2> QED BY <2>1, <2>2
<1> QED BY <1>1, <1>2, <1>3, <1>4 DEF Related

LEMMA FlattenType ==
  ASSUME NEW S, NEW seqs \in Seq(Seq(S))
  PROVE  FlattenSeq(seqs) \in Seq(S)
<1>1. CASE Len(seqs) = 0
  <2>1. seqs = << >>
    BY <1>1, EmptySeq
  <2>2. FlattenSeq(seqs) = << >>
    BY <1>1, <2>1 DEF FlattenSeq
  <2> QED BY <2>2
<1>2. CASE Len(seqs) # 0
  <2>1. Len(seqs) \in Nat \ {0} /\ Len(seqs) \in 1..Len(seqs)
    BY <1>2
  <2>2. PICK f : Joins(f, seqs, Len(seqs)) /\ FlattenSeq(seqs) = f[Len(seqs)]
    BY <2>1, FlattenIs
  <2> QED BY <2>1, <2>2, JoinedType
<1> QED BY <1>1, <1>2

\* Two lists of lists of the same lengths, flattened: what holds between the
\* elements at each place still does.
LEMMA FlattenRelates ==
  ASSUME NEW S, NEW a \in Seq(Seq(S)), NEW T, NEW b \in Seq(Seq(T)), Len(a) = Len(b), NEW R,
         \A i \in 1..Len(a) : Related(R, a[i], b[i])
  PROVE  /\ FlattenSeq(a) \in Seq(S) /\ FlattenSeq(b) \in Seq(T)
         /\ Related(R, FlattenSeq(a), FlattenSeq(b))
<1>1. CASE Len(a) = 0
  <2>1. a = << >> /\ b = << >>
    BY <1>1, EmptySeq
  <2>2. FlattenSeq(a) = << >> /\ FlattenSeq(b) = << >>
    BY <1>1, <2>1 DEF FlattenSeq
  <2> QED BY <2>2 DEF Related
<1>2. CASE Len(a) # 0
  <2> DEFINE n == Len(a)
  <2>0. n \in Nat \ {0}
    BY <1>2
  <2>1. PICK f : Joins(f, a, n) /\ FlattenSeq(a) = f[n]
    BY <2>0, FlattenIs
  <2>2. PICK g : Joins(g, b, n) /\ FlattenSeq(b) = g[n]
    BY <2>0, FlattenIs
  <2>3. \A i \in 1..n : f[i] \in Seq(S)
    BY <2>1, JoinedType
  <2>4. \A i \in 1..n : g[i] \in Seq(T)
    BY <2>2, JoinedType
  <2> DEFINE Bad == {i \in 1..n : ~Related(R, f[i], g[i])}
  <2>5. Bad \in SUBSET Nat
    BY <2>0
  <2>6. \A i : i \in Bad <=> i \in 1..n /\ ~Related(R, f[i], g[i])
    OBVIOUS
  <2> HIDE DEF Bad
  <2>7. Bad = {}
    <3>0. SUFFICES ASSUME Bad # {} PROVE FALSE
      OBVIOUS
    <3>1. PICK i \in Bad : \A k \in Bad : i <= k
      BY <2>5, <3>0, LeastOf
    <3>2. i \in 1..n /\ ~Related(R, f[i], g[i])
      BY <2>6
    <3>3. Related(R, a[i], b[i])
      BY <3>2
    <3>4. CASE i = 1
      <4>1. f[i] = a[i] /\ g[i] = b[i]
        BY <2>1, <2>2, <3>2, <3>4, Joined
      <4> QED BY <3>2, <3>3, <4>1
    <3>5. CASE i # 1
      <4>1. i - 1 \in 1..n /\ f[i] = Glue(f[i - 1], a[i]) /\ a[i] \in Seq(S)
        BY <2>1, <3>2, <3>5, Joined
      <4>2. g[i] = Glue(g[i - 1], b[i]) /\ b[i] \in Seq(T)
        BY <2>2, <3>2, <3>5, Joined
      <4>3. ~(i <= i - 1)
        BY <3>2
      <4>4. Related(R, f[i - 1], g[i - 1])
        BY <2>6, <3>1, <4>1, <4>3
      <4>5. f[i - 1] \in Seq(S) /\ g[i - 1] \in Seq(T)
        BY <2>3, <2>4, <4>1
      <4>6. Related(R, Glue(f[i - 1], a[i]), Glue(g[i - 1], b[i]))
        BY <3>3, <4>1, <4>2, <4>4, <4>5, ConcatRelates
      <4> QED BY <3>2, <4>1, <4>2, <4>6
    <3> QED BY <3>4, <3>5
  <2>8. n \in 1..n
    BY <2>0
  <2>9. Related(R, f[n], g[n])
    BY <2>6, <2>7, <2>8
  <2> QED BY <2>1, <2>2, <2>3, <2>4, <2>8, <2>9
<1> QED BY <1>1, <1>2

\* A sequence stands in another without a break; so it does in a longer one.
LEMMA ConcatHas ==
  ASSUME NEW S, NEW s \in Seq(S), NEW v \in Seq(S), NEW b \in Seq(S)
  PROVE  /\ Has(v, b) => Has(Glue(s, v), b)
         /\ Has(s, b) => Has(Glue(s, v), b)
<1>1. /\ Len(Glue(s, v)) = Len(s) + Len(v)
      /\ \A j \in 1..Len(s) + Len(v) : Glue(s, v)[j] = IF j <= Len(s) THEN s[j] ELSE v[j - Len(s)]
      /\ Len(s) \in Nat /\ Len(v) \in Nat /\ Len(b) \in Nat
  BY ConcatProperties DEF Glue
<1>2. ASSUME Has(v, b) PROVE Has(Glue(s, v), b)
  <2>1. PICK k \in Nat : k + Len(b) <= Len(v) /\ \A j \in 1..Len(b) : v[k + j] = b[j]
    BY <1>2 DEF Has
  <2>2. Len(s) + k \in Nat /\ (Len(s) + k) + Len(b) <= Len(Glue(s, v))
    BY <1>1, <2>1
  <2>3. ASSUME NEW j \in 1..Len(b) PROVE Glue(s, v)[(Len(s) + k) + j] = b[j]
    <3>1. (Len(s) + k) + j \in 1..Len(s) + Len(v) /\ ~((Len(s) + k) + j <= Len(s))
      BY <1>1, <2>1
    <3>2. ((Len(s) + k) + j) - Len(s) = k + j
      BY <1>1
    <3>3. Glue(s, v)[(Len(s) + k) + j] = v[k + j]
      BY <1>1, <3>1, <3>2
    <3> QED BY <2>1, <3>3
  <2> QED BY <2>2, <2>3 DEF Has
<1>3. ASSUME Has(s, b) PROVE Has(Glue(s, v), b)
  <2>1. PICK k \in Nat : k + Len(b) <= Len(s) /\ \A j \in 1..Len(b) : s[k + j] = b[j]
    BY <1>3 DEF Has
  <2>2. k + Len(b) <= Len(Glue(s, v))
    BY <1>1, <2>1
  <2>3. ASSUME NEW j \in 1..Len(b) PROVE Glue(s, v)[k + j] = b[j]
    <3>1. k + j \in 1..Len(s) + Len(v) /\ k + j <= Len(s)
      BY <1>1, <2>1
    <3> QED BY <1>1, <2>1, <3>1
  <2> QED BY <2>2, <2>3 DEF Has
<1> QED BY <1>2, <1>3

\* Each of the sequences stands in the flattened one without a break.
LEMMA FlattenHas ==
  ASSUME NEW S, NEW a \in Seq(Seq(S)), NEW c \in 1..Len(a)
  PROVE  Has(FlattenSeq(a), a[c])
<1> DEFINE n == Len(a)
<1>0. n \in Nat \ {0} /\ c \in Int /\ 1 <= c /\ c <= n /\ a[c] \in Seq(S)
  OBVIOUS
<1>1. PICK f : Joins(f, a, n) /\ FlattenSeq(a) = f[n]
  BY <1>0, FlattenIs
<1>2. \A i \in 1..n : f[i] \in Seq(S)
  BY <1>1, JoinedType
<1> DEFINE Bad == {i \in c..n : ~Has(f[i], a[c])}
<1>3. Bad \in SUBSET Nat
  BY <1>0
<1>4. \A i : i \in Bad <=> i \in c..n /\ ~Has(f[i], a[c])
  OBVIOUS
<1> HIDE DEF Bad
<1>5. Bad = {}
  <2>0. SUFFICES ASSUME Bad # {} PROVE FALSE
    OBVIOUS
  <2>1. PICK i \in Bad : \A k \in Bad : i <= k
    BY <1>3, <2>0, LeastOf
  <2>2. i \in c..n /\ ~Has(f[i], a[c]) /\ i \in 1..n
    BY <1>0, <1>4
  <2>3. Has(a[c], a[c])
    <3>1. 0 + Len(a[c]) <= Len(a[c]) /\ \A j \in 1..Len(a[c]) : a[c][0 + j] = a[c][j]
      BY <1>0
    <3> QED BY <3>1 DEF Has
  <2>4. CASE i = 1
    <3>1. c = 1 /\ f[i] = a[i]
      BY <1>0, <1>1, <2>2, <2>4, Joined
    <3> QED BY <2>2, <2>3, <2>4, <3>1
  <2>5. CASE i # 1
    <3>1. i - 1 \in 1..n /\ f[i] = Glue(f[i - 1], a[i]) /\ a[i] \in Seq(S)
      BY <1>1, <2>2, <2>5, Joined
    <3>2. f[i - 1] \in Seq(S)
      BY <1>2, <3>1
    <3>3. CASE i = c
      <4>1. Has(Glue(f[i - 1], a[i]), a[c])
        BY <1>0, <2>3, <3>1, <3>2, <3>3, ConcatHas
      <4> QED BY <2>2, <3>1, <4>1
    <3>4. CASE i # c
      <4>1. i - 1 \in c..n /\ ~(i <= i - 1)
        BY <1>0, <2>2, <3>4
      <4>2. Has(f[i - 1], a[c])
        BY <1>4, <2>1, <4>1
      <4>3. Has(Glue(f[i - 1], a[i]), a[c])
        BY <1>0, <3>1, <3>2, <4>2, ConcatHas
      <4> QED BY <2>2, <3>1, <4>3
    <3> QED BY <3>3, <3>4
  <2> QED BY <2>4, <2>5
<1>6. n \in c..n
  BY <1>0
<1> QED BY <1>1, <1>4, <1>5, <1>6

----------------------------------------------------------------------------
(* The rows of an upload. *)

Line == [key : Keys, row : CategoryRow \union ItemRow]
All(u) == CategoryRows(u) \o ItemRows(u)
Lines(u) == {All(u)[n] : n \in 1..Len(All(u))}
Sits(k, row) == (k \in Categories => row \in CategoryRow) /\ (k \in MenuItems => row \in ItemRow)

IdLists(u) == [ci \in DOMAIN u |-> [ii \in DOMAIN u[ci].items |-> u[ci].items[ii].id]]
RowLists(u) ==
  [ci \in DOMAIN u |->
    [ii \in DOMAIN u[ci].items |->
       [key |-> u[ci].items[ii].id,
        row |-> [category |-> u[ci].id, position |-> ii,
                 available |-> u[ci].items[ii].available]]]]

\* What the rows of the items have to do with their identifiers.
TellsOf(u) == {p \in Line \X MenuItems : p[1].key = p[2] /\ p[1].row \in ItemRow /\ SaysOf(u, p[2], p[1].row)}

LEMMA UploadIs ==
  ASSUME NEW u \in UploadShape
  PROVE  /\ Len(u) \in Nat /\ DOMAIN u = 1..Len(u)
         /\ \A ci \in DOMAIN u :
              /\ u[ci].id \in Categories
              /\ u[ci].items \in Seq([id : MenuItems, available : BOOLEAN])
              /\ Len(u[ci].items) \in Nat /\ DOMAIN u[ci].items = 1..Len(u[ci].items)
              /\ \A ii \in DOMAIN u[ci].items :
                   u[ci].items[ii].id \in MenuItems /\ u[ci].items[ii].available \in BOOLEAN
<1>1. u \in Seq([id : Categories, items : Seq([id : MenuItems, available : BOOLEAN])])
  BY DEF UploadShape
<1>2. Len(u) \in Nat /\ DOMAIN u = 1..Len(u)
  BY <1>1, LenProperties
<1>3. ASSUME NEW ci \in DOMAIN u
      PROVE  u[ci] \in [id : Categories, items : Seq([id : MenuItems, available : BOOLEAN])]
  BY <1>1, <1>2, ElementOfSeq
<1>4. ASSUME NEW ci \in DOMAIN u
      PROVE  u[ci].id \in Categories /\ u[ci].items \in Seq([id : MenuItems, available : BOOLEAN])
  BY <1>3
<1>5. ASSUME NEW ci \in DOMAIN u
      PROVE  Len(u[ci].items) \in Nat /\ DOMAIN u[ci].items = 1..Len(u[ci].items)
  BY <1>4, LenProperties
<1>6. ASSUME NEW ci \in DOMAIN u, NEW ii \in DOMAIN u[ci].items
      PROVE  u[ci].items[ii] \in [id : MenuItems, available : BOOLEAN]
  BY <1>4, <1>5, ElementOfSeq
<1>7. ASSUME NEW ci \in DOMAIN u, NEW ii \in DOMAIN u[ci].items
      PROVE  u[ci].items[ii].id \in MenuItems /\ u[ci].items[ii].available \in BOOLEAN
  BY <1>6
<1> QED BY <1>2, <1>4, <1>5, <1>7

LEMMA IdListsAre ==
  ASSUME NEW u \in UploadShape
  PROVE  /\ IdLists(u) \in Seq(Seq(MenuItems)) /\ Len(IdLists(u)) = Len(u)
         /\ \A ci \in DOMAIN u : Len(IdLists(u)[ci]) = Len(u[ci].items)
         /\ ItemIds(u) = FlattenSeq(IdLists(u))
<1> DEFINE ids(ci) == [ii \in DOMAIN u[ci].items |-> u[ci].items[ii].id]
<1>1. ASSUME NEW ci \in DOMAIN u
      PROVE  ids(ci) \in Seq(MenuItems) /\ Len(ids(ci)) = Len(u[ci].items)
  BY UploadIs
<1>2. IdLists(u) = [ci \in 1..Len(u) |-> ids(ci)] /\ Len(u) \in Nat /\ DOMAIN u = 1..Len(u)
  BY UploadIs DEF IdLists
<1> HIDE DEF ids
<1>3. IdLists(u) \in Seq(Seq(MenuItems)) /\ Len(IdLists(u)) = Len(u)
  BY <1>1, <1>2
<1>4. \A ci \in DOMAIN u : Len(IdLists(u)[ci]) = Len(u[ci].items)
  BY <1>1, <1>2
<1> QED BY <1>3, <1>4 DEF ItemIds, IdLists

\* An upload that repeats no identifier has no more places than there are
\* identifiers.
LEMMA PlacesFit ==
  ASSUME NEW S, IsFiniteSet(S), NEW s \in Seq(S), IsInjective(s)
  PROVE  Len(s) \in Nat /\ Len(s) <= Cardinality(S) /\ Cardinality(S) \in Nat
<1>1. Len(s) \in Nat /\ s \in [1..Len(s) -> S]
  BY LenProperties
<1>2. s \in Injection(1..Len(s), S)
  BY <1>1 DEF Injection, IsInjective
<1>3. Cardinality(1..Len(s)) <= Cardinality(S)
  BY <1>2, FS_Injection
<1>4. Cardinality(1..Len(s)) = Len(s)
  BY <1>1, FS_Interval
<1> QED BY <1>1, <1>3, <1>4, FS_CardinalityType

LEMMA PositionsFit ==
  ASSUME NEW u \in UploadShape, Valid(u)
  PROVE  /\ Len(u) <= Cardinality(Categories) /\ Cardinality(Categories) \in Nat
         /\ Cardinality(MenuItems) \in Nat
         /\ \A ci \in DOMAIN u : Len(u[ci].items) <= Cardinality(MenuItems)
<1>1. CategoryIds(u) \in Seq(Categories) /\ Len(CategoryIds(u)) = Len(u)
  BY UploadIs DEF CategoryIds
<1>2. Len(u) <= Cardinality(Categories) /\ Cardinality(Categories) \in Nat
  BY <1>1, PlacesFit, MenuAssumption DEF Valid
<1>3. ItemIds(u) \in Seq(MenuItems)
  BY IdListsAre, FlattenType
<1>4. Len(ItemIds(u)) \in Nat /\ Len(ItemIds(u)) <= Cardinality(MenuItems) /\ Cardinality(MenuItems) \in Nat
  BY <1>3, PlacesFit, MenuAssumption DEF Valid
<1>5. ASSUME NEW ci \in DOMAIN u
      PROVE  Len(u[ci].items) <= Cardinality(MenuItems)
  <2>1. ci \in 1..Len(IdLists(u)) /\ Len(IdLists(u)[ci]) = Len(u[ci].items) /\ Len(u[ci].items) \in Nat
    BY UploadIs, IdListsAre
  <2>2. Has(FlattenSeq(IdLists(u)), IdLists(u)[ci])
    BY <2>1, IdListsAre, FlattenHas
  <2>3. PICK k \in Nat : k + Len(IdLists(u)[ci]) <= Len(ItemIds(u))
    BY <2>2, IdListsAre DEF Has
  <2> QED BY <1>4, <2>1, <2>3
<1> QED BY <1>2, <1>4, <1>5

LEMMA RowListsAre ==
  ASSUME NEW u \in UploadShape, Valid(u)
  PROVE  /\ RowLists(u) \in Seq(Seq(Line)) /\ Len(RowLists(u)) = Len(u)
         /\ \A ci \in 1..Len(RowLists(u)) : Related(TellsOf(u), RowLists(u)[ci], IdLists(u)[ci])
         /\ ItemRows(u) = FlattenSeq(RowLists(u))
<1> DEFINE row(ci, ii) == [category |-> u[ci].id, position |-> ii,
                           available |-> u[ci].items[ii].available]
           line(ci, ii) == [key |-> u[ci].items[ii].id, row |-> row(ci, ii)]
           rowsOf(ci) == [ii \in DOMAIN u[ci].items |-> line(ci, ii)]
<1>1. ASSUME NEW ci \in DOMAIN u, NEW ii \in DOMAIN u[ci].items
      PROVE  row(ci, ii) \in ItemRow
  <2>1. ii \in 1..Cardinality(MenuItems)
    BY UploadIs, PositionsFit
  <2> QED BY <2>1, UploadIs DEF ItemRow
<1>2. ASSUME NEW ci \in DOMAIN u, NEW ii \in DOMAIN u[ci].items
      PROVE  SaysOf(u, u[ci].items[ii].id, row(ci, ii))
  BY Zenon DEF SaysOf
<1> HIDE DEF row
<1>3. ASSUME NEW ci \in DOMAIN u, NEW ii \in DOMAIN u[ci].items
      PROVE  /\ line(ci, ii) \in Line
             /\ <<line(ci, ii), u[ci].items[ii].id>> \in TellsOf(u)
  <2>1. u[ci].items[ii].id \in MenuItems
    BY UploadIs
  <2>2. line(ci, ii) \in Line
    BY <1>1, <2>1 DEF Line, Keys
  <2>3. line(ci, ii).key = u[ci].items[ii].id /\ line(ci, ii).row = row(ci, ii)
    OBVIOUS
  <2> QED BY <1>1, <1>2, <2>1, <2>2, <2>3 DEF TellsOf
<1> HIDE DEF line
<1>4. ASSUME NEW ci \in DOMAIN u
      PROVE  rowsOf(ci) \in Seq(Line) /\ Len(rowsOf(ci)) = Len(u[ci].items)
  <2>1. DOMAIN u[ci].items = 1..Len(u[ci].items) /\ Len(u[ci].items) \in Nat
    BY UploadIs
  <2>2. \A ii \in 1..Len(u[ci].items) : line(ci, ii) \in Line
    BY <1>3, <2>1
  <2>3. rowsOf(ci) = [ii \in 1..Len(u[ci].items) |-> line(ci, ii)]
    BY <2>1
  <2>4. [ii \in 1..Len(u[ci].items) |-> line(ci, ii)] \in Seq(Line)
    BY <2>1, <2>2, IsASeq
  <2> QED BY <2>1, <2>3, <2>4
<1>5. ASSUME NEW ci \in DOMAIN u
      PROVE  Related(TellsOf(u), rowsOf(ci), IdLists(u)[ci])
  <2>1. IdLists(u)[ci] = [ii \in DOMAIN u[ci].items |-> u[ci].items[ii].id]
    BY DEF IdLists
  <2>2. Len(IdLists(u)[ci]) = Len(u[ci].items)
    BY IdListsAre
  <2>3. DOMAIN u[ci].items = 1..Len(u[ci].items)
    BY UploadIs
  <2>4. ASSUME NEW ii \in 1..Len(u[ci].items)
        PROVE  <<rowsOf(ci)[ii], IdLists(u)[ci][ii]>> \in TellsOf(u)
    <3>1. rowsOf(ci)[ii] = line(ci, ii) /\ IdLists(u)[ci][ii] = u[ci].items[ii].id
      BY <2>1, <2>3
    <3> QED BY <1>3, <2>3, <3>1
  <2> QED BY <1>4, <2>2, <2>4 DEF Related
<1>6. RowLists(u) = [ci \in 1..Len(u) |-> rowsOf(ci)] /\ Len(u) \in Nat /\ DOMAIN u = 1..Len(u)
  BY UploadIs DEF RowLists, line, row
<1>7. ItemRows(u) = FlattenSeq(RowLists(u))
  BY DEF ItemRows, RowLists
<1> HIDE DEF rowsOf
<1>8. RowLists(u) \in Seq(Seq(Line)) /\ Len(RowLists(u)) = Len(u)
  BY <1>4, <1>6
<1>9. \A ci \in 1..Len(RowLists(u)) : Related(TellsOf(u), RowLists(u)[ci], IdLists(u)[ci])
  BY <1>5, <1>6, <1>8
<1> QED BY <1>7, <1>8, <1>9

LEMMA ItemRowsAre ==
  ASSUME NEW u \in UploadShape, Valid(u)
  PROVE  /\ ItemRows(u) \in Seq(Line) /\ ItemIds(u) \in Seq(MenuItems)
         /\ Len(ItemRows(u)) = Len(ItemIds(u))
         /\ \A n \in 1..Len(ItemRows(u)) :
              /\ ItemRows(u)[n].key = ItemIds(u)[n]
              /\ ItemRows(u)[n].row \in ItemRow
              /\ SaysOf(u, ItemRows(u)[n].key, ItemRows(u)[n].row)
<1>1. /\ RowLists(u) \in Seq(Seq(Line)) /\ IdLists(u) \in Seq(Seq(MenuItems))
      /\ Len(RowLists(u)) = Len(IdLists(u))
      /\ \A ci \in 1..Len(RowLists(u)) : Related(TellsOf(u), RowLists(u)[ci], IdLists(u)[ci])
  BY RowListsAre, IdListsAre
<1>2. /\ FlattenSeq(RowLists(u)) \in Seq(Line) /\ FlattenSeq(IdLists(u)) \in Seq(MenuItems)
      /\ Related(TellsOf(u), FlattenSeq(RowLists(u)), FlattenSeq(IdLists(u)))
  BY <1>1, FlattenRelates
<1>3. /\ ItemRows(u) \in Seq(Line) /\ ItemIds(u) \in Seq(MenuItems)
      /\ Related(TellsOf(u), ItemRows(u), ItemIds(u))
  BY <1>2, RowListsAre, IdListsAre
<1>4. ASSUME NEW n \in 1..Len(ItemRows(u))
      PROVE  <<ItemRows(u)[n], ItemIds(u)[n]>> \in TellsOf(u)
  BY <1>3 DEF Related
<1>5. ASSUME NEW n \in 1..Len(ItemRows(u))
      PROVE  /\ ItemRows(u)[n].key = ItemIds(u)[n]
             /\ ItemRows(u)[n].row \in ItemRow
             /\ SaysOf(u, ItemIds(u)[n], ItemRows(u)[n].row)
  BY <1>4 DEF TellsOf
<1> QED BY <1>3, <1>5 DEF Related

\* What the proofs below need of the rows of an upload: no key twice, every
\* category and every item once, at the place the upload puts it.
LEMMA LinesAre ==
  ASSUME NEW u \in UploadShape, Valid(u)
  PROVE  /\ All(u) \in Seq(Line) /\ Len(All(u)) \in Nat
         /\ \A n \in 1..Len(All(u)) : All(u)[n] \in Line /\ Sits(All(u)[n].key, All(u)[n].row)
         /\ \A n, m \in 1..Len(All(u)) : All(u)[n].key = All(u)[m].key => n = m
         /\ \A w \in Lines(u) : w.key \in MenuItems => w.key \in Mentioned(u) /\ SaysOf(u, w.key, w.row)
         /\ \A i \in Mentioned(u) : i \in MenuItems /\ \E w \in Lines(u) : w.key = i
         /\ \A ci \in DOMAIN u : [key |-> u[ci].id, row |-> [position |-> ci]] \in Lines(u)
<1>1. Len(u) \in Nat /\ DOMAIN u = 1..Len(u) /\ Len(u) <= Cardinality(Categories)
      /\ Cardinality(Categories) \in Nat
  BY UploadIs, PositionsFit
<1>2. ASSUME NEW ci \in DOMAIN u
      PROVE  /\ [position |-> ci] \in CategoryRow /\ u[ci].id \in Categories
             /\ [key |-> u[ci].id, row |-> [position |-> ci]] \in Line
             /\ [key |-> u[ci].id, row |-> [position |-> ci]].key = u[ci].id
             /\ [key |-> u[ci].id, row |-> [position |-> ci]].row = [position |-> ci]
  <2>1. ci \in 1..Cardinality(Categories)
    BY <1>1
  <2> QED BY <2>1, UploadIs DEF CategoryRow, Line, Keys
<1>3. /\ CategoryRows(u) \in Seq(Line) /\ Len(CategoryRows(u)) = Len(u)
      /\ \A n \in 1..Len(u) : CategoryRows(u)[n] = [key |-> u[n].id, row |-> [position |-> n]]
  <2>1. [ci \in 1..Len(u) |-> [key |-> u[ci].id, row |-> [position |-> ci]]] \in Seq(Line)
    BY <1>1, <1>2, IsASeq
  <2> QED BY <1>1, <2>1 DEF CategoryRows
<1>4. /\ ItemRows(u) \in Seq(Line) /\ ItemIds(u) \in Seq(MenuItems)
      /\ Len(ItemRows(u)) = Len(ItemIds(u)) /\ Len(ItemIds(u)) \in Nat
      /\ \A n \in 1..Len(ItemRows(u)) :
           /\ ItemRows(u)[n].key = ItemIds(u)[n]
           /\ ItemRows(u)[n].row \in ItemRow
           /\ SaysOf(u, ItemRows(u)[n].key, ItemRows(u)[n].row)
           /\ ItemIds(u)[n] \in MenuItems
  BY ItemRowsAre
<1>5. /\ All(u) \in Seq(Line) /\ Len(All(u)) = Len(u) + Len(ItemIds(u))
      /\ \A n \in 1..Len(u) + Len(ItemIds(u)) :
           All(u)[n] = IF n <= Len(u) THEN CategoryRows(u)[n] ELSE ItemRows(u)[n - Len(u)]
  <2> DEFINE c == CategoryRows(u)
             d == ItemRows(u)
  <2>1. All(u) = c \o d
    BY DEF All
  <2>2. c \in Seq(Line) /\ d \in Seq(Line) /\ Len(c) = Len(u) /\ Len(d) = Len(ItemIds(u))
    BY <1>3, <1>4
  <2> HIDE DEF c, d
  <2>3. /\ c \o d \in Seq(Line)
        /\ Len(c \o d) = Len(c) + Len(d)
        /\ \A n \in 1..Len(c) + Len(d) : (c \o d)[n] = IF n <= Len(c) THEN c[n] ELSE d[n - Len(c)]
    BY <2>2, ConcatProperties
  <2>4. /\ All(u) \in Seq(Line) /\ Len(All(u)) = Len(u) + Len(ItemIds(u))
        /\ \A n \in 1..Len(u) + Len(ItemIds(u)) : All(u)[n] = IF n <= Len(u) THEN c[n] ELSE d[n - Len(u)]
    BY <2>1, <2>2, <2>3, Zenon
  <2> QED BY <2>4 DEF c, d
<1>6. ASSUME NEW n \in 1..Len(All(u)), n <= Len(u)
      PROVE  /\ n \in 1..Len(u) /\ n \in DOMAIN u
             /\ All(u)[n] = [key |-> u[n].id, row |-> [position |-> n]]
             /\ All(u)[n].key = u[n].id /\ All(u)[n].key \in Categories
             /\ All(u)[n].row \in CategoryRow
             /\ All(u)[n] \in Line
  <2>1. n \in 1..Len(u) /\ n \in DOMAIN u
    BY <1>1, <1>4, <1>5, <1>6
  <2>2. All(u)[n] = [key |-> u[n].id, row |-> [position |-> n]]
    BY <1>3, <1>5, <1>6, <2>1
  <2> QED BY <1>2, <2>1, <2>2
<1>7. ASSUME NEW n \in 1..Len(All(u)), ~(n <= Len(u))
      PROVE  /\ n - Len(u) \in 1..Len(ItemIds(u))
             /\ All(u)[n] = ItemRows(u)[n - Len(u)]
             /\ All(u)[n].key = ItemIds(u)[n - Len(u)]
             /\ All(u)[n].key \in MenuItems /\ All(u)[n].row \in ItemRow
             /\ SaysOf(u, All(u)[n].key, All(u)[n].row)
             /\ All(u)[n] \in Line
  <2>1. n - Len(u) \in 1..Len(ItemIds(u))
    BY <1>1, <1>4, <1>5, <1>7
  <2>2. All(u)[n] = ItemRows(u)[n - Len(u)]
    BY <1>1, <1>4, <1>5, <1>7
  <2>3. ItemRows(u)[n - Len(u)] \in Line
    BY <1>4, <2>1, ElementOfSeq
  <2> QED BY <1>4, <2>1, <2>2, <2>3
<1>8. Len(All(u)) \in Nat
  BY <1>1, <1>4, <1>5
<1>9. ASSUME NEW n \in 1..Len(All(u)) PROVE All(u)[n] \in Line /\ Sits(All(u)[n].key, All(u)[n].row)
  <2>1. CASE n <= Len(u)
    BY <1>6, <2>1, MenuAssumption DEF Sits
  <2>2. CASE ~(n <= Len(u))
    BY <1>7, <2>2, MenuAssumption DEF Sits
  <2> QED BY <2>1, <2>2
<1>10. /\ \A m, n \in DOMAIN u : u[m].id = u[n].id => m = n
       /\ \A m, n \in 1..Len(ItemIds(u)) : ItemIds(u)[m] = ItemIds(u)[n] => m = n
  <2>1. \A m, n \in DOMAIN u : u[m].id = u[n].id => m = n
    BY DEF Valid, IsInjective, CategoryIds
  <2>2. DOMAIN ItemIds(u) = 1..Len(ItemIds(u))
    BY <1>4, LenProperties
  <2>3. \A m, n \in 1..Len(ItemIds(u)) : ItemIds(u)[m] = ItemIds(u)[n] => m = n
    BY <2>2, Zenon DEF Valid, IsInjective
  <2> QED BY <2>1, <2>3
<1>11. ASSUME NEW n \in 1..Len(All(u)), NEW m \in 1..Len(All(u)), All(u)[n].key = All(u)[m].key
       PROVE  n = m
  <2>1. CASE n <= Len(u) /\ m <= Len(u)
    <3>1. n \in DOMAIN u /\ m \in DOMAIN u /\ u[n].id = u[m].id
      BY <1>6, <1>11, <2>1
    <3> QED BY <1>10, <3>1
  <2>2. CASE ~(n <= Len(u)) /\ ~(m <= Len(u))
    <3>1. n - Len(u) = m - Len(u)
      BY <1>7, <1>10, <1>11, <2>2
    <3> QED BY <1>1, <1>8, <3>1
  <2>3. CASE n <= Len(u) /\ ~(m <= Len(u))
    BY <1>6, <1>7, <1>11, <2>3, MenuAssumption
  <2>4. CASE ~(n <= Len(u)) /\ m <= Len(u)
    BY <1>6, <1>7, <1>11, <2>4, MenuAssumption
  <2> QED BY <2>1, <2>2, <2>3, <2>4
<1>12. \A i : i \in Mentioned(u) <=> \E n \in 1..Len(ItemIds(u)) : ItemIds(u)[n] = i
  <2>1. DOMAIN ItemIds(u) = 1..Len(ItemIds(u))
    BY <1>4, LenProperties
  <2> QED BY <2>1 DEF Mentioned, ToSet
<1>13. ASSUME NEW w \in Lines(u), w.key \in MenuItems
       PROVE  w.key \in Mentioned(u) /\ SaysOf(u, w.key, w.row)
  <2>1. PICK n \in 1..Len(All(u)) : w = All(u)[n]
    BY DEF Lines
  <2>2. ~(n <= Len(u))
    BY <1>6, <1>13, <2>1, MenuAssumption
  <2> QED BY <1>7, <1>12, <2>1, <2>2
<1>14. ASSUME NEW i \in Mentioned(u)
       PROVE  i \in MenuItems /\ \E w \in Lines(u) : w.key = i
  <2>1. PICK n \in 1..Len(ItemIds(u)) : ItemIds(u)[n] = i
    BY <1>12
  <2>2. Len(u) + n \in 1..Len(All(u)) /\ ~(Len(u) + n <= Len(u)) /\ (Len(u) + n) - Len(u) = n
    BY <1>1, <1>4, <1>5
  <2>3. All(u)[Len(u) + n].key = i /\ All(u)[Len(u) + n] \in Lines(u)
    BY <1>7, <2>1, <2>2 DEF Lines
  <2> QED BY <1>4, <2>1, <2>3
<1>15. ASSUME NEW ci \in DOMAIN u
       PROVE  [key |-> u[ci].id, row |-> [position |-> ci]] \in Lines(u)
  <2>1. ci \in 1..Len(All(u)) /\ ci <= Len(u)
    BY <1>1, <1>4, <1>5
  <2> QED BY <1>6, <2>1 DEF Lines
<1> QED BY <1>5, <1>8, <1>9, <1>11, <1>13, <1>14, <1>15

----------------------------------------------------------------------------
(* The inductive invariant of the menu. *)

\* Keys of the rows of an upload.
KeysOf(u) == {w.key : w \in Lines(u)}

\* Of what x has written: items of its upload that m does not have and those it
\* has, and items its upload does not name.
NewOf(x, m) == {i \in DOMAIN x.wrote \intersect Mentioned(x.says) : m[i] = NoRow}
OldOf(x, m) == {i \in DOMAIN x.wrote \intersect Mentioned(x.says) : m[i] # NoRow}
ExtraOf(x) == (DOMAIN x.wrote \intersect MenuItems) \ Mentioned(x.says)

\* Every row of the upload is written as the upload has it or is still to come.
Writing(x, m) ==
  /\ x.says \in Uploads /\ Valid(x.says)
  /\ x.left \in Seq(Line)
  /\ \A n \in 1..Len(x.left) : x.left[n] \in Lines(x.says) /\ x.left[n].key \notin DOMAIN x.wrote
  /\ \A n, p \in 1..Len(x.left) : x.left[n].key = x.left[p].key => n = p
  /\ \A w \in Lines(x.says) :
       \/ w.key \in DOMAIN x.wrote /\ x.wrote[w.key] = w.row
       \/ \E n \in 1..Len(x.left) : x.left[n] = w
  /\ x.created = Cardinality(NewOf(x, m))
  /\ x.updated = Cardinality(OldOf(x, m))

TakenOff(x, m, k) ==
  /\ k \in MenuItems \ Mentioned(x.says)
  /\ m[k] # NoRow /\ m[k].available /\ ~x.wrote[k].available

\* The upload is written; what else is written has been taken off, and what else
\* is on sale will be or was patched, unless it met one that shares nothing.
Clearing(x, m) ==
  /\ x.left = << >>
  /\ \A k \in DOMAIN x.wrote : k \in KeysOf(x.says) \/ TakenOff(x, m, k)
  /\ x.off = Cardinality(ExtraOf(x))
  /\ x.todo \intersect Mentioned(x.says) = {}
  /\ x.todo \intersect DOMAIN x.wrote = {}
  /\ ~x.apart =>
       \A i \in MenuItems \ (Mentioned(x.says) \union x.late) :
         m[i] # NoRow /\ m[i].available => i \in x.todo \union DOMAIN x.wrote

\* How far the transaction x has come with the menu m.
Working(x, m) ==
  /\ \A i \in x.todo : i \in MenuItems /\ m[i] # NoRow
  /\ x.late \subseteq MenuItems
  /\ x.at # "upserting" => x.left = << >>
  /\ \A k \in DOMAIN x.wrote : k \in Keys /\ Sits(k, x.wrote[k])
  /\ x.at \in {"upserting", "clearing"} => Writing(x, m)
  /\ x.at = "upserting" => x.off = 0 /\ DOMAIN x.wrote \subseteq KeysOf(x.says)
  /\ x.at = "clearing" => Clearing(x, m)

Fields == {"at", "says", "left", "todo", "wrote", "created", "updated", "off", "apart", "late", "joined"}
Ats == {"idle", "upserting", "clearing", "reserving", "patching"}

Shapes ==
  /\ DOMAIN tx = MenuRequests
  /\ \A r \in MenuRequests : DOMAIN tx[r] = Fields /\ tx[r].at \in Ats

MenuRows == DOMAIN menu = Keys /\ \A k \in Keys : menu[k] = NoRow \/ Sits(k, menu[k])

\* No row is written by two transactions at once.
Separate == \A r, q \in MenuRequests : r # q => Held(r) \intersect Held(q) = {}

\* Uploads under way share a category, so that they meet at its row.
Together ==
  \A r, q \in MenuRequests :
    r # q /\ Uploading(r) /\ Uploading(q) /\ ~tx[r].apart => ~ShareNothing(tx[r].says, tx[q].says)

\* The categories are where the upload l puts them.
Placed(m, l) == \A ci \in DOMAIN l : m[l[ci].id] = [position |-> ci]

\* The menu is the upload l, save for the items p that were patched since.
Is(m, l, p) ==
  /\ Placed(m, l)
  /\ \A i \in MenuItems \ p :
       /\ i \in Mentioned(l) => SaysOf(l, i, m[i])
       /\ i \notin Mentioned(l) => ~(m[i] # NoRow /\ m[i].available)

Committed ==
  /\ last \in Uploads /\ Valid(last)
  /\ patched \subseteq MenuItems
  /\ ~apart => Is(menu, last, patched)

MenuInv ==
  /\ Shapes /\ MenuRows /\ Separate /\ Together /\ Committed
  /\ \A r \in MenuRequests : Working(tx[r], menu)

LEMMA ItemsAndCategories ==
  /\ \A k : k \in Keys <=> k \in Categories \/ k \in MenuItems
  /\ \A k : ~(k \in Categories /\ k \in MenuItems)
BY MenuAssumption DEF Keys

LEMMA NoRowSitsNowhere ==
  ASSUME NEW k \in Keys, NEW row, Sits(k, row)
  PROVE  row # NoRow
<1>1. NoRow.position = 0
  BY DEF NoRow
<1>2. Cardinality(Categories) \in Nat /\ Cardinality(MenuItems) \in Nat
  BY MenuAssumption, FS_CardinalityType
<1>3. CASE row \in CategoryRow
  BY <1>1, <1>2, <1>3 DEF CategoryRow
<1>4. CASE row \in ItemRow
  BY <1>1, <1>2, <1>4 DEF ItemRow
<1> QED BY <1>3, <1>4, ItemsAndCategories DEF Sits

LEMMA KeysAreFinite ==
  /\ IsFiniteSet(Keys)
  /\ \A S : S \subseteq Keys => IsFiniteSet(S)
<1>1. IsFiniteSet(Keys)
  BY MenuAssumption, FS_Union DEF Keys
<1> QED BY <1>1, FS_Subset

\* The keys of an upload are those of its categories and of the items it names.
LEMMA KeysOfAre ==
  ASSUME NEW u \in Uploads, Valid(u)
  PROVE  /\ KeysOf(u) \subseteq Keys
         /\ \A i \in MenuItems : i \in KeysOf(u) <=> i \in Mentioned(u)
         /\ Mentioned(u) \subseteq MenuItems
         /\ \A w, v \in Lines(u) : w.key = v.key => w = v
         /\ \A w \in Lines(u) : w \in Line /\ w.key \in Keys /\ Sits(w.key, w.row)
         /\ \A ci \in DOMAIN u : u[ci].id \in KeysOf(u) /\ u[ci].id \in Categories
<1>0. u \in UploadShape
  BY MenuAssumption
<1>1. /\ \A n \in 1..Len(All(u)) : All(u)[n] \in Line /\ Sits(All(u)[n].key, All(u)[n].row)
      /\ \A n, m \in 1..Len(All(u)) : All(u)[n].key = All(u)[m].key => n = m
  BY <1>0, LinesAre
<1>2. /\ \A w \in Lines(u) : w.key \in MenuItems => w.key \in Mentioned(u)
      /\ \A i \in Mentioned(u) : i \in MenuItems /\ \E w \in Lines(u) : w.key = i
      /\ \A ci \in DOMAIN u : [key |-> u[ci].id, row |-> [position |-> ci]] \in Lines(u)
  BY <1>0, LinesAre
<1>3. \A w, v \in Lines(u) : w.key = v.key => w = v
  BY <1>1 DEF Lines
<1>4. \A w \in Lines(u) : w \in Line /\ Sits(w.key, w.row)
  BY <1>1 DEF Lines
<1>5. \A w \in Line : w.key \in Keys
  BY DEF Line
<1>6. \A ci \in DOMAIN u : [key |-> u[ci].id, row |-> [position |-> ci]].key = u[ci].id
  OBVIOUS
<1>7. \A ci \in DOMAIN u : u[ci].id \in KeysOf(u) /\ u[ci].id \in Categories
  BY <1>0, <1>2, <1>6, UploadIs DEF KeysOf
<1>8. KeysOf(u) \subseteq Keys
  BY <1>4, <1>5 DEF KeysOf
<1>9. \A i \in MenuItems : i \in KeysOf(u) <=> i \in Mentioned(u)
  BY <1>2 DEF KeysOf
<1> QED BY <1>2, <1>3, <1>4, <1>5, <1>7, <1>8, <1>9

\* y is x, but may have met another upload or missed another patch.
Alike(x, y) ==
  /\ y.at = x.at /\ y.says = x.says /\ y.left = x.left /\ y.todo = x.todo /\ y.wrote = x.wrote
  /\ y.created = x.created /\ y.updated = x.updated /\ y.off = x.off
  /\ ~y.apart => ~x.apart
  /\ x.late \subseteq y.late /\ y.late \subseteq MenuItems

\* What others do leaves a transaction where it is, as long as they keep off the
\* rows it has written and put nothing on sale behind its back.
LEMMA WorkingStays ==
  ASSUME NEW x, NEW y, NEW m, NEW m2, Working(x, m), Alike(x, y),
         \A k \in DOMAIN x.wrote : m2[k] = m[k],
         \A i \in MenuItems : m[i] # NoRow => m2[i] # NoRow,
         x.at = "clearing" /\ ~y.apart =>
           \A i \in MenuItems \ y.late : m2[i] # NoRow /\ m2[i].available => m[i] # NoRow /\ m[i].available
  PROVE  Working(y, m2)
<1>1. /\ y.at = x.at /\ y.says = x.says /\ y.left = x.left /\ y.todo = x.todo /\ y.wrote = x.wrote
      /\ y.created = x.created /\ y.updated = x.updated /\ y.off = x.off
      /\ x.late \subseteq y.late /\ y.late \subseteq MenuItems
  BY DEF Alike
<1>2. NewOf(y, m2) = NewOf(x, m) /\ OldOf(y, m2) = OldOf(x, m) /\ ExtraOf(y) = ExtraOf(x)
  BY <1>1 DEF NewOf, OldOf, ExtraOf
<1>3. ASSUME x.at \in {"upserting", "clearing"} PROVE Writing(y, m2)
  <2>1. Writing(x, m)
    BY <1>3 DEF Working
  <2>2. x.says = y.says /\ x.left = y.left /\ x.wrote = y.wrote
    BY <1>1
  <2> QED BY <1>1, <1>2, <2>1, <2>2 DEF Writing
<1>4. ASSUME x.at = "clearing" PROVE Clearing(y, m2)
  <2>1. Clearing(x, m)
    BY <1>4 DEF Working
  <2>2. ASSUME NEW k \in DOMAIN y.wrote PROVE k \in KeysOf(y.says) \/ TakenOff(y, m2, k)
    <3>1. k \in KeysOf(x.says) \/ TakenOff(x, m, k)
      BY <1>1, <2>1, <2>2 DEF Clearing
    <3>2. m2[k] = m[k]
      BY <1>1, <2>2
    <3> QED BY <1>1, <3>1, <3>2, Zenon DEF TakenOff
  <2>3. ASSUME ~y.apart, NEW i \in MenuItems \ (Mentioned(y.says) \union y.late),
               m2[i] # NoRow /\ m2[i].available
        PROVE  i \in y.todo \union DOMAIN y.wrote
    <3>1. m[i] # NoRow /\ m[i].available
      BY <1>4, <2>3
    <3>2. ~x.apart
      BY <2>3 DEF Alike
    <3>3. i \in MenuItems \ (Mentioned(x.says) \union x.late)
      BY <1>1, <2>3
    <3>4. i \in x.todo \union DOMAIN x.wrote
      BY <2>1, <3>1, <3>2, <3>3, Zenon DEF Clearing
    <3> QED BY <1>1, <3>4
  <2>4. /\ y.left = << >> /\ y.off = Cardinality(ExtraOf(y))
        /\ y.todo \intersect Mentioned(y.says) = {} /\ y.todo \intersect DOMAIN y.wrote = {}
    BY <1>1, <1>2, <2>1 DEF Clearing
  <2> QED BY <2>2, <2>3, <2>4, Zenon DEF Clearing
<1>5. /\ \A i \in y.todo : i \in MenuItems /\ m2[i] # NoRow
      /\ y.at # "upserting" => y.left = << >>
  BY <1>1 DEF Working
<1>6. \A k \in DOMAIN y.wrote : k \in Keys /\ Sits(k, y.wrote[k])
  BY <1>1 DEF Working
<1>7. x.at = "upserting" => y.off = 0 /\ DOMAIN y.wrote \subseteq KeysOf(y.says)
  BY <1>1 DEF Working
<1> QED BY <1>1, <1>3, <1>4, <1>5, <1>6, <1>7 DEF Working

LEMMA NoTxWorks ==
  ASSUME NEW m
  PROVE  Working(NoTx, m) /\ DOMAIN NoTx = Fields /\ NoTx.at = "idle" /\ DOMAIN NoTx.wrote = {}
<1>1. /\ DOMAIN NoTx = Fields /\ NoTx.at = "idle" /\ NoTx.todo = {} /\ NoTx.late = {}
      /\ NoTx.left = << >>
      /\ NoTx.wrote = NoRows
  BY DEF NoTx, Fields
<1>2. DOMAIN NoRows = {}
  BY DEF NoRows
<1> QED BY <1>1, <1>2 DEF Working

\* A step of one transaction that leaves the menu alone.
LEMMA OwnKeeps ==
  ASSUME MenuInv, NEW r \in MenuRequests, UNCHANGED <<menu, last, apart, patched>>,
         DOMAIN tx' = MenuRequests, \A q \in MenuRequests \ {r} : tx'[q] = tx[q],
         DOMAIN tx'[r] = Fields, tx'[r].at \in Ats,
         Working(tx'[r], menu),
         \A k \in DOMAIN tx'[r].wrote : k \in Held(r) \/ Free(r, k),
         tx'[r].at \in {"upserting", "clearing"} =>
           Uploading(r) /\ tx'[r].says = tx[r].says /\ (~tx'[r].apart => ~tx[r].apart)
  PROVE  MenuInv'
<1>1. Shapes'
  BY DEF MenuInv, Shapes
<1>2. MenuRows' /\ Committed'
  BY DEF MenuInv, MenuRows, Committed
<1>3. \A q \in MenuRequests : Working(tx'[q], menu')
  BY DEF MenuInv
<1>4. Separate'
  <2>1. ASSUME NEW q \in MenuRequests, q # r PROVE DOMAIN tx'[r].wrote \intersect DOMAIN tx'[q].wrote = {}
    <3>1. tx'[q] = tx[q]
      BY <2>1
    <3>2. Held(r) \intersect Held(q) = {}
      BY <2>1 DEF MenuInv, Separate
    <3>3. \A k \in DOMAIN tx'[r].wrote : k \notin Held(q)
      BY <2>1, <3>2 DEF Free
    <3> QED BY <3>1, <3>3 DEF Held
  <2>2. ASSUME NEW p \in MenuRequests, NEW q \in MenuRequests, p # q, p # r, q # r
        PROVE  DOMAIN tx'[p].wrote \intersect DOMAIN tx'[q].wrote = {}
    <3>1. tx'[q] = tx[q] /\ tx'[p] = tx[p]
      BY <2>2
    <3>2. Held(p) \intersect Held(q) = {}
      BY <2>2 DEF MenuInv, Separate
    <3> QED BY <3>1, <3>2 DEF Held
  <2>3. ASSUME NEW p \in MenuRequests, NEW q \in MenuRequests, p # q
        PROVE  DOMAIN tx'[p].wrote \intersect DOMAIN tx'[q].wrote = {}
    <3>1. CASE p = r
      BY <2>1, <2>3, <3>1
    <3>2. CASE q = r
      BY <2>1, <2>3, <3>2
    <3> QED BY <2>2, <2>3, <3>1, <3>2
  <2> QED BY <2>3 DEF Separate, Held
<1>5. Together'
  <2>1. ASSUME NEW q \in MenuRequests, (Uploading(q))'
        PROVE  Uploading(q) /\ tx'[q].says = tx[q].says /\ (~tx'[q].apart => ~tx[q].apart)
    <3>1. CASE q = r
      <4>1. tx'[q].at \in {"upserting", "clearing"}
        BY <2>1 DEF Uploading
      <4> QED BY <3>1, <4>1, Zenon
    <3>2. CASE q # r
      BY <2>1, <3>2, Zenon DEF Uploading
    <3> QED BY <3>1, <3>2
  <2>2. ASSUME NEW p \in MenuRequests, NEW q \in MenuRequests, p # q,
               (Uploading(p))', (Uploading(q))', ~tx'[p].apart
        PROVE  ~ShareNothing(tx'[p].says, tx'[q].says)
    <3>1. Uploading(p) /\ Uploading(q) /\ ~tx[p].apart
      BY <2>1, <2>2, Zenon
    <3>2. ~ShareNothing(tx[p].says, tx[q].says)
      BY <2>2, <3>1, Zenon DEF MenuInv, Together
    <3>3. tx'[p].says = tx[p].says /\ tx'[q].says = tx[q].says
      BY <2>1, <2>2, Zenon
    <3> QED BY <3>2, <3>3, Zenon
  <2> QED BY <2>2, Zenon DEF Together, Uploading
<1> QED BY <1>1, <1>2, <1>3, <1>4, <1>5, Zenon DEF MenuInv

LEMMA EndKeeps ==
  ASSUME MenuInv, NEW r \in MenuRequests, EndTx(r), UNCHANGED <<menu, last, apart, patched>>
  PROVE  MenuInv'
<1>1. /\ DOMAIN tx' = MenuRequests /\ \A q \in MenuRequests \ {r} : tx'[q] = tx[q]
      /\ tx'[r] = NoTx
  BY DEF EndTx, MenuInv, Shapes
<1>2. /\ DOMAIN tx'[r] = Fields /\ tx'[r].at = "idle" /\ Working(tx'[r], menu)
      /\ DOMAIN tx'[r].wrote = {}
  BY <1>1, NoTxWorks
<1>3. tx'[r].at \in Ats /\ tx'[r].at \notin {"upserting", "clearing"}
  BY <1>2 DEF Ats
<1> QED BY <1>1, <1>2, <1>3, OwnKeeps

LEMMA PatchKeeps ==
  ASSUME MenuInv, NEW r \in MenuRequests, NEW i \in MenuItems, Patch(r, i)
  PROVE  MenuInv'
<1> DEFINE y == [NoTx EXCEPT !.at = "patching", !.todo = {i}, !.joined = {menu[i].category}]
<1>1. /\ tx' = [tx EXCEPT ![r] = y] /\ menu[i] # NoRow
      /\ UNCHANGED <<menu, last, apart, patched>>
  BY DEF Patch, BeginTx
<1>2. /\ DOMAIN y = Fields /\ y.at = "patching" /\ y.todo = {i} /\ y.late = {} /\ y.wrote = NoRows
      /\ y.left = << >>
  BY DEF NoTx, Fields
<1> HIDE DEF y
<1>3. /\ DOMAIN tx' = MenuRequests /\ \A q \in MenuRequests \ {r} : tx'[q] = tx[q]
      /\ tx'[r] = y
  BY <1>1 DEF MenuInv, Shapes
<1>4. DOMAIN y.wrote = {}
  BY <1>2 DEF NoRows
<1>5. Working(y, menu)
  BY <1>1, <1>2, <1>4 DEF Working
<1>6. y.at \in Ats /\ y.at \notin {"upserting", "clearing"}
  BY <1>2 DEF Ats
<1> QED BY <1>1, <1>2, <1>3, <1>4, <1>5, <1>6, OwnKeeps

LEMMA ReserveKeeps ==
  ASSUME MenuInv, NEW r \in MenuRequests, NEW items \in SUBSET MenuItems, Reserve(r, items)
  PROVE  MenuInv'
<1> DEFINE y == [NoTx EXCEPT !.at = "reserving", !.todo = items]
<1>1. /\ tx' = [tx EXCEPT ![r] = y] /\ \A i \in items : menu[i] # NoRow
      /\ UNCHANGED <<menu, last, apart, patched>>
  BY DEF Reserve, BeginTx, OnSale
<1>2. /\ DOMAIN y = Fields /\ y.at = "reserving" /\ y.todo = items /\ y.late = {} /\ y.wrote = NoRows
      /\ y.left = << >>
  BY DEF NoTx, Fields
<1> HIDE DEF y
<1>3. /\ DOMAIN tx' = MenuRequests /\ \A q \in MenuRequests \ {r} : tx'[q] = tx[q]
      /\ tx'[r] = y
  BY <1>1 DEF MenuInv, Shapes
<1>4. DOMAIN y.wrote = {}
  BY <1>2 DEF NoRows
<1>5. Working(y, menu)
  BY <1>1, <1>2, <1>4 DEF Working
<1>6. y.at \in Ats /\ y.at \notin {"upserting", "clearing"}
  BY <1>2 DEF Ats
<1> QED BY <1>1, <1>2, <1>3, <1>4, <1>5, <1>6, OwnKeeps

LEMMA TakeItemKeeps ==
  ASSUME MenuInv, NEW r \in MenuRequests, TakeItem(r)
  PROVE  MenuInv'
<1>1. tx[r].at = "reserving" /\ UNCHANGED <<menu, last, apart, patched>>
  BY DEF TakeItem
<1>2. PICK i \in tx[r].todo :
        /\ Free(r, i)
        /\ IF OnSale(i)
           THEN tx' = [tx EXCEPT ![r].todo = @ \ {i}, ![r].wrote = Wrote(r, i, menu[i])]
           ELSE EndTx(r)
  BY DEF TakeItem
<1>3. CASE ~OnSale(i)
  BY <1>1, <1>2, <1>3, EndKeeps
<1>4. CASE OnSale(i)
  <2> DEFINE y == tx'[r]
  <2>1. tx' = [tx EXCEPT ![r].todo = @ \ {i}, ![r].wrote = Wrote(r, i, menu[i])]
    BY <1>2, <1>4
  <2>2. /\ DOMAIN tx' = MenuRequests /\ \A q \in MenuRequests \ {r} : tx'[q] = tx[q]
        /\ DOMAIN y = Fields /\ y.at = "reserving" /\ y.late = tx[r].late
        /\ y.left = tx[r].left
        /\ y.todo = tx[r].todo \ {i} /\ y.wrote = Wrote(r, i, menu[i])
    BY <1>1, <2>1 DEF MenuInv, Shapes, Fields
  <2> HIDE DEF y
  <2>3. i \in MenuItems /\ i \in Keys /\ menu[i] # NoRow /\ Working(tx[r], menu)
    BY ItemsAndCategories DEF MenuInv, Working
  <2>4. Sits(i, menu[i])
    BY <2>3 DEF MenuInv, MenuRows
  <2>5. /\ DOMAIN y.wrote = Held(r) \union {i} /\ y.wrote[i] = menu[i]
        /\ \A j \in Held(r) : j # i => y.wrote[j] = tx[r].wrote[j]
    <3> DEFINE row == menu[i]
    <3>1. y.wrote = Wrote(r, i, row)
      BY <2>2
    <3> HIDE DEF row
    <3>2. /\ DOMAIN y.wrote = Held(r) \union {i} /\ y.wrote[i] = row
          /\ \A j \in Held(r) : j # i => y.wrote[j] = tx[r].wrote[j]
      BY <3>1 DEF Wrote
    <3> QED BY <3>2 DEF row
  <2>6. ASSUME NEW k \in DOMAIN y.wrote PROVE k \in Keys /\ Sits(k, y.wrote[k])
    <3>1. CASE k = i
      BY <2>3, <2>4, <2>5, <3>1
    <3>2. CASE k # i
      <4>1. k \in Held(r) /\ y.wrote[k] = tx[r].wrote[k]
        BY <2>5, <2>6, <3>2
      <4> QED BY <2>3, <4>1 DEF Working, Held
    <3> QED BY <3>1, <3>2
  <2>7. Working(y, menu)
    BY <1>1, <2>2, <2>3, <2>6 DEF Working
  <2>8. y.at \in Ats /\ y.at \notin {"upserting", "clearing"}
    BY <2>2 DEF Ats
  <2>9. \A k \in DOMAIN y.wrote : k \in Held(r) \/ Free(r, k)
    BY <1>2, <2>5
  <2> QED BY <1>1, <2>2, <2>7, <2>8, <2>9, OwnKeeps DEF y
<1> QED BY <1>3, <1>4

LEMMA LookForMissingKeeps ==
  ASSUME MenuInv, NEW r \in MenuRequests, LookForMissing(r)
  PROVE  MenuInv'
<1> DEFINE x == tx[r]
           y == tx'[r]
<1>1. /\ x.at = "upserting" /\ x.left = << >> /\ UNCHANGED <<menu, last, apart, patched>>
      /\ tx' = [tx EXCEPT ![r].at = "clearing", ![r].todo = Missing(x.says), ![r].late = {}]
  BY DEF LookForMissing
<1>2. DOMAIN tx = MenuRequests /\ DOMAIN x = Fields
  BY DEF MenuInv, Shapes
<1>3. /\ DOMAIN tx' = MenuRequests /\ \A q \in MenuRequests \ {r} : tx'[q] = tx[q]
      /\ DOMAIN y = Fields /\ y.at = "clearing" /\ y.late = {} /\ y.todo = Missing(x.says)
      /\ y.says = x.says /\ y.left = x.left /\ y.wrote = x.wrote
      /\ y.created = x.created /\ y.updated = x.updated /\ y.off = x.off
  BY <1>1, <1>2 DEF Fields
<1>4. y.apart = x.apart
  BY <1>1, <1>2 DEF Fields
<1>5. Working(x, menu)
  BY DEF MenuInv
<1> HIDE DEF x, y
<1>6. Writing(x, menu) /\ x.off = 0 /\ DOMAIN x.wrote \subseteq KeysOf(x.says)
  BY <1>1, <1>5 DEF Working
<1>7. /\ NewOf(y, menu) = NewOf(x, menu) /\ OldOf(y, menu) = OldOf(x, menu) /\ ExtraOf(y) = ExtraOf(x)
  BY <1>3 DEF NewOf, OldOf, ExtraOf
<1>8. Writing(y, menu)
  BY <1>3, <1>6, <1>7 DEF Writing
<1>9. \A i \in MenuItems : i \in KeysOf(x.says) <=> i \in Mentioned(x.says)
  BY <1>6, KeysOfAre DEF Writing
<1>10. \A i : i \in y.todo <=> i \in MenuItems /\ i \notin Mentioned(x.says) /\ OnSale(i)
  BY <1>3 DEF Missing
<1>11. Clearing(y, menu)
  <2>1. y.left = << >> /\ \A k \in DOMAIN y.wrote : k \in KeysOf(y.says)
    BY <1>1, <1>3, <1>6
  <2>2. ExtraOf(y) = {}
    BY <1>6, <1>7, <1>9 DEF ExtraOf
  <2>3. y.off = Cardinality(ExtraOf(y))
    BY <1>3, <1>6, <2>2, FS_EmptySet
  <2>4. y.todo \intersect Mentioned(y.says) = {} /\ y.todo \intersect DOMAIN y.wrote = {}
    BY <1>3, <1>6, <1>9, <1>10
  <2>5. \A i \in MenuItems \ (Mentioned(y.says) \union y.late) :
          menu[i] # NoRow /\ menu[i].available => i \in y.todo \union DOMAIN y.wrote
    BY <1>3, <1>10, Zenon DEF OnSale
  <2> QED BY <2>1, <2>3, <2>4, <2>5, Zenon DEF Clearing
<1>12. Working(y, menu)
  <2>1. \A i \in y.todo : i \in MenuItems /\ menu[i] # NoRow
    BY <1>10, Zenon DEF OnSale
  <2>2. \A k \in DOMAIN y.wrote : k \in Keys /\ Sits(k, y.wrote[k])
    BY <1>3, <1>5 DEF Working
  <2> QED BY <1>1, <1>3, <1>8, <1>11, <2>1, <2>2 DEF Working
<1>13. /\ y.at \in Ats /\ Uploading(r) /\ \A k \in DOMAIN y.wrote : k \in Held(r)
  BY <1>1, <1>3 DEF Ats, Uploading, Held, x
<1> QED BY <1>1, <1>3, <1>4, <1>12, <1>13, OwnKeeps, Zenon DEF x, y

LEMMA DeactivateKeeps ==
  ASSUME MenuInv, NEW r \in MenuRequests, Deactivate(r)
  PROVE  MenuInv'
<1> DEFINE x == tx[r]
           y == tx'[r]
<1>1. x.at = "clearing" /\ UNCHANGED <<menu, last, apart, patched>>
  BY DEF Deactivate
<1>2. DOMAIN tx = MenuRequests /\ DOMAIN x = Fields
  BY DEF MenuInv, Shapes
<1>3. PICK i \in x.todo :
        /\ Free(r, i)
        /\ IF OnSale(i)
           THEN tx' = [tx EXCEPT
                  ![r].todo = @ \ {i},
                  ![r].wrote = Wrote(r, i, [menu[i] EXCEPT !.available = FALSE]),
                  ![r].off = @ + 1]
           ELSE tx' = [tx EXCEPT ![r].todo = @ \ {i}]
  BY DEF Deactivate
<1>4. Working(x, menu)
  BY DEF MenuInv
<1>5. Writing(x, menu) /\ Clearing(x, menu) /\ i \in MenuItems /\ i \in Keys /\ menu[i] # NoRow
  BY <1>1, <1>4, ItemsAndCategories DEF Working
<1>6. /\ i \notin Mentioned(x.says) /\ i \notin DOMAIN x.wrote
  BY <1>5 DEF Clearing
<1>7. CASE ~OnSale(i)
  <2>1. tx' = [tx EXCEPT ![r].todo = @ \ {i}]
    BY <1>3, <1>7
  <2>2. /\ DOMAIN tx' = MenuRequests /\ \A q \in MenuRequests \ {r} : tx'[q] = tx[q]
        /\ DOMAIN y = Fields /\ y.at = "clearing" /\ y.late = x.late /\ y.todo = x.todo \ {i}
        /\ y.says = x.says /\ y.left = x.left /\ y.wrote = x.wrote
        /\ y.created = x.created /\ y.updated = x.updated /\ y.off = x.off
    BY <1>1, <1>2, <2>1 DEF Fields
  <2>3. y.apart = x.apart
    BY <1>2, <2>1 DEF Fields
  <2> HIDE DEF x, y
  <2>4. /\ NewOf(y, menu) = NewOf(x, menu) /\ OldOf(y, menu) = OldOf(x, menu) /\ ExtraOf(y) = ExtraOf(x)
    BY <2>2 DEF NewOf, OldOf, ExtraOf
  <2>5. Writing(y, menu)
    BY <1>5, <2>2, <2>4 DEF Writing
  <2>6. Clearing(y, menu)
    <3>1. \A k \in DOMAIN y.wrote : k \in KeysOf(y.says) \/ TakenOff(y, menu, k)
      BY <1>5, <2>2 DEF Clearing, TakenOff
    <3>2. ASSUME ~y.apart, NEW j \in MenuItems \ (Mentioned(y.says) \union y.late),
                 menu[j] # NoRow /\ menu[j].available
          PROVE  j \in y.todo \union DOMAIN y.wrote
      <4>1. ~x.apart
        BY <2>3, <3>2, Zenon
      <4>2. j \in MenuItems \ (Mentioned(x.says) \union x.late)
        BY <2>2, <3>2
      <4>3. j \in x.todo \union DOMAIN x.wrote
        BY <1>5, <3>2, <4>1, <4>2, Zenon DEF Clearing
      <4>4. j # i
        BY <1>7, <3>2, Zenon DEF OnSale
      <4> QED BY <2>2, <4>3, <4>4
    <3>3. /\ y.left = << >> /\ y.off = Cardinality(ExtraOf(y))
          /\ y.todo \intersect Mentioned(y.says) = {} /\ y.todo \intersect DOMAIN y.wrote = {}
      BY <1>5, <2>2, <2>4 DEF Clearing
    <3> QED BY <3>1, <3>2, <3>3, Zenon DEF Clearing
  <2>7. Working(y, menu)
    <3>1. \A j \in y.todo : j \in MenuItems /\ menu[j] # NoRow
      BY <1>4, <2>2 DEF Working
    <3>2. \A k \in DOMAIN y.wrote : k \in Keys /\ Sits(k, y.wrote[k])
      BY <1>4, <2>2 DEF Working
    <3>3. y.late \subseteq MenuItems /\ y.left = << >>
      BY <1>4, <1>5, <2>2 DEF Working, Clearing
    <3> QED BY <2>2, <2>5, <2>6, <3>1, <3>2, <3>3 DEF Working
  <2>8. /\ y.at \in Ats /\ Uploading(r) /\ \A k \in DOMAIN y.wrote : k \in Held(r)
    BY <1>1, <2>2 DEF Ats, Uploading, Held, x
  <2> QED BY <1>1, <2>2, <2>3, <2>7, <2>8, OwnKeeps, Zenon DEF x, y
<1>8. CASE OnSale(i)
  <2> DEFINE row == [menu[i] EXCEPT !.available = FALSE]
  <2>0. Sits(i, row) /\ ~row.available
    <3>1. menu[i] \in ItemRow
      BY <1>5 DEF MenuInv, MenuRows, Sits
    <3>2. row \in ItemRow /\ ~row.available
      BY <3>1 DEF ItemRow
    <3> QED BY <1>5, <3>2, ItemsAndCategories DEF Sits
  <2> HIDE DEF row
  <2>1. tx' = [tx EXCEPT ![r].todo = @ \ {i}, ![r].wrote = Wrote(r, i, row), ![r].off = @ + 1]
    BY <1>3, <1>8 DEF row
  <2>2. /\ DOMAIN tx' = MenuRequests /\ \A q \in MenuRequests \ {r} : tx'[q] = tx[q]
        /\ DOMAIN y = Fields /\ y.at = "clearing" /\ y.late = x.late /\ y.todo = x.todo \ {i}
        /\ y.says = x.says /\ y.left = x.left /\ y.wrote = Wrote(r, i, row)
        /\ y.created = x.created /\ y.updated = x.updated /\ y.off = x.off + 1
    BY <1>1, <1>2, <2>1 DEF Fields
  <2>3. y.apart = x.apart
    BY <1>2, <2>1 DEF Fields
  <2> HIDE DEF y
  <2>4. /\ DOMAIN y.wrote = DOMAIN x.wrote \union {i} /\ y.wrote[i] = row
        /\ \A j \in DOMAIN x.wrote : y.wrote[j] = x.wrote[j]
    BY <1>6, <2>2 DEF Wrote, Held
  <2> HIDE DEF x
  <2>5. /\ NewOf(y, menu) = NewOf(x, menu) /\ OldOf(y, menu) = OldOf(x, menu)
        /\ ExtraOf(y) = ExtraOf(x) \union {i} /\ i \notin ExtraOf(x)
    BY <1>5, <1>6, <2>2, <2>4 DEF NewOf, OldOf, ExtraOf
  <2>6. x.off = Cardinality(ExtraOf(x)) /\ y.off = Cardinality(ExtraOf(y))
    <3>1. IsFiniteSet(ExtraOf(x))
      BY KeysAreFinite, MenuAssumption, FS_Subset DEF ExtraOf
    <3>2. Cardinality(ExtraOf(x) \union {i}) = Cardinality(ExtraOf(x)) + 1
      BY <2>5, <3>1, FS_AddElement
    <3>3. x.off = Cardinality(ExtraOf(x))
      BY <1>5 DEF Clearing
    <3> QED BY <2>2, <2>5, <3>2, <3>3
  <2>7. Writing(y, menu)
    <3>1. \A w \in Lines(x.says) : w.key \in DOMAIN x.wrote /\ x.wrote[w.key] = w.row
      <4>1. Len(x.left) = 0
        BY <1>5 DEF Clearing
      <4> QED BY <1>5, <4>1 DEF Writing
    <3>2. \A w \in Lines(y.says) : w.key \in DOMAIN y.wrote /\ y.wrote[w.key] = w.row
      BY <2>2, <2>4, <3>1
    <3>3. y.left = << >> /\ Len(y.left) = 0
      BY <1>5, <2>2 DEF Clearing
    <3> QED BY <1>5, <2>2, <2>5, <3>2, <3>3 DEF Writing
  <2>8. Clearing(y, menu)
    <3>1. ASSUME NEW k \in DOMAIN y.wrote PROVE k \in KeysOf(y.says) \/ TakenOff(y, menu, k)
      <4>1. CASE k = i
        <5>1. i \in MenuItems \ Mentioned(y.says) /\ y.wrote[i] = row
          BY <1>5, <1>6, <2>2, <2>4
        <5>2. ~y.wrote[i].available
          BY <2>0, <5>1, Zenon
        <5> QED BY <1>8, <4>1, <5>1, <5>2, Zenon DEF TakenOff, OnSale
      <4>2. CASE k # i
        <5>1. k \in DOMAIN x.wrote /\ y.wrote[k] = x.wrote[k]
          BY <2>4, <3>1, <4>2
        <5>2. k \in KeysOf(x.says) \/ TakenOff(x, menu, k)
          BY <1>5, <5>1, Zenon DEF Clearing
        <5> QED BY <2>2, <5>1, <5>2, Zenon DEF TakenOff
      <4> QED BY <4>1, <4>2
    <3>2. ASSUME ~y.apart, NEW j \in MenuItems \ (Mentioned(y.says) \union y.late),
                 menu[j] # NoRow /\ menu[j].available
          PROVE  j \in y.todo \union DOMAIN y.wrote
      <4>1. ~x.apart
        BY <2>3, <3>2, Zenon
      <4>2. j \in MenuItems \ (Mentioned(x.says) \union x.late)
        BY <2>2, <3>2
      <4>3. j \in x.todo \union DOMAIN x.wrote
        BY <1>5, <3>2, <4>1, <4>2, Zenon DEF Clearing
      <4> QED BY <2>2, <2>4, <4>3
    <3>3. /\ y.left = << >>
          /\ y.todo \intersect Mentioned(y.says) = {} /\ y.todo \intersect DOMAIN y.wrote = {}
      BY <1>5, <2>2, <2>4 DEF Clearing
    <3> QED BY <2>6, <3>1, <3>2, <3>3, Zenon DEF Clearing
  <2>9. Working(y, menu)
    <3>1. \A j \in y.todo : j \in MenuItems /\ menu[j] # NoRow
      BY <1>4, <2>2 DEF Working
    <3>2. \A k \in DOMAIN y.wrote : k \in Keys /\ Sits(k, y.wrote[k])
      BY <1>4, <1>5, <2>0, <2>4 DEF Working
    <3>3. y.late \subseteq MenuItems /\ y.left = << >>
      BY <1>4, <1>5, <2>2 DEF Working, Clearing
    <3> QED BY <2>2, <2>7, <2>8, <3>1, <3>2, <3>3 DEF Working
  <2>10. y.at \in Ats /\ Uploading(r)
    BY <1>1, <2>2 DEF Ats, Uploading, x
  <2>11. \A k \in DOMAIN y.wrote : k \in Held(r) \/ Free(r, k)
    BY <1>3, <2>4 DEF Held, x
  <2> QED BY <1>1, <2>2, <2>3, <2>9, <2>10, <2>11, OwnKeeps, Zenon DEF x, y
<1> QED BY <1>7, <1>8

LEMMA UpsertKeeps ==
  ASSUME MenuInv, NEW r \in MenuRequests, Upsert(r)
  PROVE  MenuInv'
<1> DEFINE x == tx[r]
           y == tx'[r]
           w == Head(x.left)
           k == w.key
           new == k \in MenuItems /\ menu[k] = NoRow
           old == k \in MenuItems /\ menu[k] # NoRow
<1>1. /\ x.left # << >> /\ Free(r, k) /\ UNCHANGED <<menu, last, apart, patched>>
      /\ tx' = [tx EXCEPT
           ![r].left = Tail(@),
           ![r].wrote = Wrote(r, k, w.row),
           ![r].created = @ + (IF new THEN 1 ELSE 0),
           ![r].updated = @ + (IF old THEN 1 ELSE 0)]
  BY DEF Upsert
<1>2. DOMAIN tx = MenuRequests /\ DOMAIN x = Fields /\ x.at \in Ats /\ Working(x, menu)
  BY DEF MenuInv, Shapes
<1> HIDE DEF w, new, old
<1>3. /\ DOMAIN tx' = MenuRequests /\ \A q \in MenuRequests \ {r} : tx'[q] = tx[q]
      /\ DOMAIN y = Fields /\ y.at = x.at /\ y.late = x.late /\ y.todo = x.todo
      /\ y.says = x.says /\ y.left = Tail(x.left) /\ y.wrote = Wrote(r, k, w.row) /\ y.off = x.off
      /\ y.created = x.created + (IF new THEN 1 ELSE 0)
      /\ y.updated = x.updated + (IF old THEN 1 ELSE 0)
  BY <1>1, <1>2 DEF Fields
<1>4. y.apart = x.apart
  BY <1>1, <1>2 DEF Fields
<1> HIDE DEF y
<1>5. x.at = "upserting" /\ Writing(x, menu) /\ x.off = 0 /\ DOMAIN x.wrote \subseteq KeysOf(x.says)
  BY <1>1, <1>2 DEF Working
<1>6. /\ Len(x.left) \in Nat \ {0} /\ w = x.left[1]
      /\ Tail(x.left) \in Seq(Line) /\ Len(Tail(x.left)) = Len(x.left) - 1
      /\ \A n \in 1..Len(Tail(x.left)) : Tail(x.left)[n] = x.left[n + 1]
  <2>1. x.left \in Seq(Line)
    BY <1>5 DEF Writing
  <2>2. Len(x.left) \in Nat \ {0} /\ w = x.left[1]
    BY <1>1, <2>1, EmptySeq DEF w
  <2> QED BY <1>1, <2>1, <2>2, HeadTailProperties
<1>7. w \in Lines(x.says) /\ k \notin DOMAIN x.wrote
  BY <1>5, <1>6 DEF Writing
<1>8. /\ x.says \in Uploads /\ Valid(x.says)
      /\ k \in Keys /\ Sits(k, w.row) /\ (k \in MenuItems <=> k \in Mentioned(x.says))
      /\ Mentioned(x.says) \subseteq MenuItems
      /\ k \in KeysOf(x.says)
      /\ \A v \in Lines(x.says) : v.key = k => v = w
  <2>1. x.says \in Uploads /\ Valid(x.says)
    BY <1>5 DEF Writing
  <2>2. k \in KeysOf(x.says)
    BY <1>7 DEF KeysOf
  <2>3. /\ Mentioned(x.says) \subseteq MenuItems
        /\ \A i \in MenuItems : i \in KeysOf(x.says) <=> i \in Mentioned(x.says)
        /\ \A v \in Lines(x.says) : v.key \in Keys /\ Sits(v.key, v.row)
        /\ \A v, v2 \in Lines(x.says) : v.key = v2.key => v = v2
    BY <2>1, KeysOfAre
  <2> QED BY <1>7, <2>1, <2>2, <2>3
<1>9. /\ DOMAIN y.wrote = DOMAIN x.wrote \union {k} /\ y.wrote[k] = w.row
      /\ \A j \in DOMAIN x.wrote : y.wrote[j] = x.wrote[j]
  BY <1>3, <1>7 DEF Wrote, Held
<1>10. \A v \in Lines(y.says) :
          \/ v.key \in DOMAIN y.wrote /\ y.wrote[v.key] = v.row
          \/ \E n \in 1..Len(y.left) : y.left[n] = v
  <2> SUFFICES ASSUME NEW v \in Lines(x.says), ~(v.key \in DOMAIN y.wrote /\ y.wrote[v.key] = v.row)
               PROVE  \E n \in 1..Len(y.left) : y.left[n] = v
    BY <1>3
  <2>1. v # w
    BY <1>9
  <2>2. ~(v.key \in DOMAIN x.wrote /\ x.wrote[v.key] = v.row)
    BY <1>9
  <2>3. PICK n \in 1..Len(x.left) : x.left[n] = v
    BY <1>5, <2>2 DEF Writing
  <2>4. n # 1
    BY <1>6, <2>1, <2>3
  <2>5. n - 1 \in 1..Len(Tail(x.left)) /\ (n - 1) + 1 = n
    BY <1>6, <2>3, <2>4
  <2>6. y.left[n - 1] = v /\ n - 1 \in 1..Len(y.left)
    BY <1>3, <1>6, <2>3, <2>5
  <2> QED BY <2>6
<1>11. ASSUME NEW n \in 1..Len(y.left)
       PROVE  /\ n + 1 \in 1..Len(x.left) /\ y.left[n] = x.left[n + 1]
              /\ y.left[n] \in Lines(y.says) /\ y.left[n].key \notin DOMAIN y.wrote
  <2>1. n + 1 \in 1..Len(x.left) /\ y.left[n] = x.left[n + 1] /\ n + 1 # 1 /\ 1 \in 1..Len(x.left)
    BY <1>3, <1>6
  <2>2. x.left[n + 1] \in Lines(x.says) /\ x.left[n + 1].key \notin DOMAIN x.wrote
    BY <1>5, <2>1 DEF Writing
  <2>3. x.left[n + 1].key # x.left[1].key
    BY <1>5, <2>1 DEF Writing
  <2> QED BY <1>3, <1>6, <1>9, <2>1, <2>2, <2>3
<1>12. \A n, p \in 1..Len(y.left) : y.left[n].key = y.left[p].key => n = p
  <2> SUFFICES ASSUME NEW n \in 1..Len(y.left), NEW p \in 1..Len(y.left), y.left[n].key = y.left[p].key
               PROVE  n = p
    OBVIOUS
  <2>1. /\ n + 1 \in 1..Len(x.left) /\ p + 1 \in 1..Len(x.left)
        /\ x.left[n + 1].key = x.left[p + 1].key
    BY <1>11
  <2>2. \A a, b \in 1..Len(x.left) : x.left[a].key = x.left[b].key => a = b
    BY <1>5 DEF Writing
  <2>3. n + 1 = p + 1
    BY <2>1, <2>2
  <2> QED BY <1>3, <1>6, <2>3
<1>13. IsFiniteSet(NewOf(x, menu)) /\ IsFiniteSet(OldOf(x, menu))
  BY <1>8, MenuAssumption, FS_Subset DEF NewOf, OldOf
<1>14. k \notin NewOf(x, menu) /\ k \notin OldOf(x, menu)
  BY <1>7 DEF NewOf, OldOf
<1>15. y.created = Cardinality(NewOf(y, menu))
  <2>1. x.created = Cardinality(NewOf(x, menu))
    BY <1>5 DEF Writing
  <2>2. CASE new
    <3>1. NewOf(y, menu) = NewOf(x, menu) \union {k}
      BY <1>3, <1>8, <1>9, <2>2 DEF NewOf, new
    <3>2. Cardinality(NewOf(x, menu) \union {k}) = Cardinality(NewOf(x, menu)) + 1
      BY <1>13, <1>14, FS_AddElement
    <3> QED BY <1>3, <2>1, <2>2, <3>1, <3>2
  <2>3. CASE ~new
    <3>1. NewOf(y, menu) = NewOf(x, menu)
      BY <1>3, <1>8, <1>9, <2>3 DEF NewOf, new
    <3>2. Cardinality(NewOf(x, menu)) \in Nat
      BY <1>13, FS_CardinalityType
    <3> QED BY <1>3, <2>1, <2>3, <3>1, <3>2
  <2> QED BY <2>2, <2>3
<1>16. y.updated = Cardinality(OldOf(y, menu))
  <2>1. x.updated = Cardinality(OldOf(x, menu))
    BY <1>5 DEF Writing
  <2>2. CASE old
    <3>1. OldOf(y, menu) = OldOf(x, menu) \union {k}
      BY <1>3, <1>8, <1>9, <2>2 DEF OldOf, old
    <3>2. Cardinality(OldOf(x, menu) \union {k}) = Cardinality(OldOf(x, menu)) + 1
      BY <1>13, <1>14, FS_AddElement
    <3> QED BY <1>3, <2>1, <2>2, <3>1, <3>2
  <2>3. CASE ~old
    <3>1. OldOf(y, menu) = OldOf(x, menu)
      BY <1>3, <1>8, <1>9, <2>3 DEF OldOf, old
    <3>2. Cardinality(OldOf(x, menu)) \in Nat
      BY <1>13, FS_CardinalityType
    <3> QED BY <1>3, <2>1, <2>3, <3>1, <3>2
  <2> QED BY <2>2, <2>3
<1>17. Writing(y, menu)
  <2>1. y.left \in Seq(Line) /\ y.says \in Uploads /\ Valid(y.says)
    BY <1>3, <1>6, <1>8
  <2> QED BY <1>10, <1>11, <1>12, <1>15, <1>16, <2>1 DEF Writing
<1>18. Working(y, menu)
  <2>1. \A j \in DOMAIN y.wrote : j \in Keys /\ Sits(j, y.wrote[j])
    BY <1>2, <1>8, <1>9 DEF Working
  <2>2. y.off = 0 /\ DOMAIN y.wrote \subseteq KeysOf(y.says)
    BY <1>3, <1>5, <1>8, <1>9
  <2>3. (\A i \in y.todo : i \in MenuItems /\ menu[i] # NoRow) /\ y.late \subseteq MenuItems
    BY <1>2, <1>3 DEF Working
  <2> QED BY <1>3, <1>5, <1>17, <2>1, <2>2, <2>3 DEF Working
<1>19. Uploading(r) /\ \A j \in DOMAIN y.wrote : j \in Held(r) \/ Free(r, j)
  BY <1>1, <1>5, <1>9 DEF Held, Uploading
<1> QED BY <1>1, <1>2, <1>3, <1>4, <1>18, <1>19, OwnKeeps, Zenon DEF y

LEMMA UploadBegins ==
  ASSUME NEW u \in Uploads, Valid(u), NEW m, NEW y, y.at = "upserting", y.says = u,
         y.left = All(u), y.wrote = NoRows, y.todo = {}, y.late = {},
         y.created = 0, y.updated = 0, y.off = 0
  PROVE  Working(y, m)
<1>1. u \in UploadShape
  BY MenuAssumption
<1>2. DOMAIN y.wrote = {}
  BY DEF NoRows
<1>3. /\ All(u) \in Seq(Line)
      /\ \A n, p \in 1..Len(All(u)) : All(u)[n].key = All(u)[p].key => n = p
  BY <1>1, LinesAre
<1>4. NewOf(y, m) = {} /\ OldOf(y, m) = {}
  BY <1>2 DEF NewOf, OldOf
<1>5. Cardinality({}) = 0
  BY FS_EmptySet
<1>6. Writing(y, m)
  <2>1. \A w \in Lines(y.says) : \E n \in 1..Len(y.left) : y.left[n] = w
    BY DEF Lines
  <2>2. \A n \in 1..Len(y.left) : y.left[n] \in Lines(y.says) /\ y.left[n].key \notin DOMAIN y.wrote
    BY <1>2 DEF Lines
  <2> QED BY <1>2, <1>3, <1>4, <1>5, <2>1, <2>2 DEF Writing
<1> QED BY <1>2, <1>6 DEF Working

LEMMA UploadKeeps ==
  ASSUME MenuInv, NEW r \in MenuRequests, NEW u \in Uploads, Upload(r, u)
  PROVE  MenuInv'
<1> DEFINE met == {q \in MenuRequests : Uploading(q) /\ ShareNothing(u, tx[q].says)}
           fresh == [NoTx EXCEPT !.at = "upserting", !.says = u,
                                 !.left = CategoryRows(u) \o ItemRows(u), !.apart = met # {}]
           after(q) == [tx[q] EXCEPT !.apart = @ \/ q \in met]
<1>1. /\ Valid(u) /\ tx[r] = NoTx /\ UNCHANGED <<menu, last, apart, patched>>
      /\ tx' = [q \in MenuRequests |-> IF q = r THEN fresh ELSE after(q)]
  BY DEF Upload, BeginTx
<1>2. DOMAIN tx = MenuRequests /\ \A q \in MenuRequests : DOMAIN tx[q] = Fields
  BY DEF MenuInv, Shapes
<1>3. /\ DOMAIN fresh = Fields /\ fresh.at = "upserting" /\ fresh.says = u
      /\ fresh.left = CategoryRows(u) \o ItemRows(u) /\ fresh.wrote = NoRows /\ fresh.todo = {}
      /\ fresh.late = {} /\ fresh.created = 0 /\ fresh.updated = 0 /\ fresh.off = 0
  BY DEF NoTx, Fields
<1>4. ~fresh.apart => met = {}
  BY DEF NoTx
<1>5. ASSUME NEW q \in MenuRequests
      PROVE  /\ DOMAIN after(q) = Fields /\ after(q).at = tx[q].at /\ after(q).says = tx[q].says
             /\ after(q).left = tx[q].left /\ after(q).todo = tx[q].todo /\ after(q).wrote = tx[q].wrote
             /\ after(q).created = tx[q].created /\ after(q).updated = tx[q].updated
             /\ after(q).off = tx[q].off /\ after(q).late = tx[q].late
  BY <1>2 DEF Fields
<1>6. ASSUME NEW q \in MenuRequests, ~after(q).apart
      PROVE  ~tx[q].apart /\ q \notin met
  <2>1. after(q).apart = (tx[q].apart \/ q \in met)
    BY <1>2 DEF Fields
  <2> QED BY <1>6, <2>1, Zenon
<1>7. \A q \in MenuRequests \ {r} : q \notin met => ~(Uploading(q) /\ ShareNothing(u, tx[q].says))
  OBVIOUS
<1> HIDE DEF fresh, after, met
<1>8. DOMAIN tx' = MenuRequests /\ tx'[r] = fresh /\ \A q \in MenuRequests \ {r} : tx'[q] = after(q)
  BY <1>1
<1>9. Working(fresh, menu)
  BY <1>1, <1>3, UploadBegins DEF All
<1>10. ASSUME NEW q \in MenuRequests PROVE Working(after(q), menu)
  <2>1. Working(tx[q], menu)
    BY DEF MenuInv
  <2>2. tx[q].late \subseteq MenuItems
    BY <2>1 DEF Working
  <2>3. Alike(tx[q], after(q))
    BY <1>5, <1>6, <2>2, Zenon DEF Alike
  <2>4. tx[q].at = "clearing" /\ ~after(q).apart =>
          \A i \in MenuItems \ after(q).late :
            menu[i] # NoRow /\ menu[i].available => menu[i] # NoRow /\ menu[i].available
    BY Zenon
  <2> QED BY <2>1, <2>3, <2>4, WorkingStays, Zenon
<1>11. Shapes'
  <2>1. fresh.at \in Ats
    BY <1>3 DEF Ats
  <2>2. \A q \in MenuRequests : tx[q].at \in Ats
    BY DEF MenuInv, Shapes
  <2>3. \A q \in MenuRequests : DOMAIN tx'[q] = Fields /\ tx'[q].at \in Ats
    BY <1>3, <1>5, <1>8, <2>1, <2>2
  <2> QED BY <1>8, <2>3 DEF Shapes
<1>12. MenuRows' /\ Committed'
  BY <1>1 DEF MenuInv, MenuRows, Committed
<1>13. \A q \in MenuRequests : Working(tx'[q], menu')
  BY <1>1, <1>8, <1>9, <1>10
<1>14. Separate'
  <2>1. DOMAIN tx'[r].wrote = {}
    BY <1>3, <1>8 DEF NoRows
  <2>2. \A q \in MenuRequests \ {r} : tx'[q].wrote = tx[q].wrote
    BY <1>5, <1>8
  <2>3. \A p, q \in MenuRequests : p # q => DOMAIN tx[p].wrote \intersect DOMAIN tx[q].wrote = {}
    BY DEF MenuInv, Separate, Held
  <2>4. \A p, q \in MenuRequests : p # q => DOMAIN tx'[p].wrote \intersect DOMAIN tx'[q].wrote = {}
    BY <2>1, <2>2, <2>3
  <2> QED BY <2>4 DEF Separate, Held
<1>15. Together'
  <2>1. ASSUME NEW q \in MenuRequests, q # r, (Uploading(q))'
        PROVE  Uploading(q) /\ tx'[q].says = tx[q].says
    BY <1>5, <1>8, <2>1 DEF Uploading
  <2>2. ASSUME NEW p \in MenuRequests, NEW q \in MenuRequests, p # q,
               (Uploading(p))', (Uploading(q))', ~tx'[p].apart
        PROVE  ~ShareNothing(tx'[p].says, tx'[q].says)
    <3>1. CASE p = r
      <4>1. met = {} /\ tx'[p].says = u
        BY <1>3, <1>4, <1>8, <2>2, <3>1, Zenon
      <4>2. Uploading(q) /\ tx'[q].says = tx[q].says
        BY <2>1, <2>2, <3>1, Zenon
      <4>3. ~ShareNothing(u, tx[q].says)
        BY <1>7, <2>2, <3>1, <4>1, <4>2
      <4> QED BY <4>1, <4>2, <4>3, Zenon
    <3>2. CASE q = r
      <4>1. Uploading(p) /\ tx'[p].says = tx[p].says /\ tx'[q].says = u
        BY <1>3, <1>8, <2>1, <2>2, <3>2, Zenon
      <4>2. p \in MenuRequests \ {r} /\ ~after(p).apart
        BY <1>8, <2>2, <3>2
      <4>3. p \notin met
        BY <1>6, <4>2
      <4>4. ~ShareNothing(u, tx[p].says)
        BY <1>7, <4>1, <4>2, <4>3
      <4>5. ~ShareNothing(tx[p].says, u)
        BY <4>4 DEF ShareNothing
      <4> QED BY <4>1, <4>5, Zenon
    <3>3. CASE p # r /\ q # r
      <4>1. /\ Uploading(p) /\ tx'[p].says = tx[p].says
            /\ Uploading(q) /\ tx'[q].says = tx[q].says
        BY <2>1, <2>2, <3>3, Zenon
      <4>2. ~after(p).apart
        BY <1>8, <2>2, <3>3
      <4>3. ~tx[p].apart
        BY <1>6, <4>2
      <4>4. ~ShareNothing(tx[p].says, tx[q].says)
        BY <2>2, <4>1, <4>3, Zenon DEF MenuInv, Together
      <4> QED BY <4>1, <4>4, Zenon
    <3> QED BY <3>1, <3>2, <3>3
  <2> QED BY <2>2, Zenon DEF Together, Uploading
<1> QED BY <1>11, <1>12, <1>13, <1>14, <1>15, Zenon DEF MenuInv

\* Once an upload has looked for the missing items it holds all its rows.
LEMMA ClearingHolds ==
  ASSUME MenuInv, NEW r \in MenuRequests, tx[r].at = "clearing"
  PROVE  /\ tx[r].says \in Uploads /\ Valid(tx[r].says)
         /\ \A w \in Lines(tx[r].says) : w.key \in Held(r) /\ tx[r].wrote[w.key] = w.row
         /\ KeysOf(tx[r].says) \subseteq Held(r)
         /\ Writing(tx[r], menu) /\ Clearing(tx[r], menu)
<1> DEFINE x == tx[r]
<1>1. Working(x, menu)
  BY DEF MenuInv
<1>2. Writing(x, menu) /\ Clearing(x, menu)
  BY <1>1 DEF Working
<1>3. x.says \in Uploads /\ Valid(x.says)
  BY <1>2 DEF Writing
<1>4. Len(x.left) = 0
  BY <1>2 DEF Clearing
<1>5. \A w \in Lines(x.says) : w.key \in DOMAIN x.wrote /\ x.wrote[w.key] = w.row
  BY <1>2, <1>4 DEF Writing
<1> QED BY <1>2, <1>3, <1>5 DEF KeysOf, Held

\* Uploads that are both clearing have met and share nothing.
LEMMA OneIsClearing ==
  ASSUME MenuInv, NEW r \in MenuRequests, NEW q \in MenuRequests, r # q,
         tx[r].at = "clearing", tx[q].at = "clearing"
  PROVE  tx[q].apart
<1> SUFFICES ASSUME ~tx[q].apart PROVE FALSE
  OBVIOUS
<1>1. Uploading(r) /\ Uploading(q)
  BY DEF Uploading
<1>2. ~ShareNothing(tx[q].says, tx[r].says)
  BY <1>1, Zenon DEF MenuInv, Together
<1>3. PICK c : c \in ToSet(CategoryIds(tx[q].says)) /\ c \in ToSet(CategoryIds(tx[r].says))
  BY <1>2 DEF ShareNothing
<1>4. ASSUME NEW p \in {q, r} PROVE c \in Held(p)
  <2>1. p \in MenuRequests /\ tx[p].at = "clearing" /\ c \in ToSet(CategoryIds(tx[p].says))
    BY <1>3
  <2>2. /\ tx[p].says \in Uploads /\ Valid(tx[p].says) /\ KeysOf(tx[p].says) \subseteq Held(p)
    BY <2>1, ClearingHolds
  <2>3. PICK ci \in DOMAIN tx[p].says : tx[p].says[ci].id = c
    BY <2>1 DEF ToSet, CategoryIds
  <2>4. c \in KeysOf(tx[p].says)
    BY <2>2, <2>3, KeysOfAre
  <2> QED BY <2>2, <2>4
<1>5. Held(r) \intersect Held(q) = {}
  BY DEF MenuInv, Separate
<1> QED BY <1>4, <1>5

LEMMA CommitUploadKeeps ==
  ASSUME MenuInv, NEW r \in MenuRequests, CommitUpload(r)
  PROVE  MenuInv'
<1> DEFINE x == tx[r]
<1>1. /\ x.at = "clearing" /\ x.todo = {} /\ menu' = With(r) /\ last' = x.says
      /\ patched' = x.late /\ EndTx(r)
  BY DEF CommitUpload
<1>2. apart' = x.apart
  BY DEF CommitUpload
<1>3. /\ DOMAIN tx' = MenuRequests /\ \A q \in MenuRequests \ {r} : tx'[q] = tx[q]
      /\ tx'[r] = NoTx
  BY <1>1 DEF EndTx, MenuInv, Shapes
<1>4. Working(x, menu)
  BY DEF MenuInv
<1>5. /\ x.says \in Uploads /\ Valid(x.says)
      /\ \A w \in Lines(x.says) : w.key \in Held(r) /\ x.wrote[w.key] = w.row
      /\ Clearing(x, menu)
  BY <1>1, ClearingHolds
<1>6. /\ DOMAIN menu' = Keys
      /\ \A k \in Keys : menu'[k] = IF k \in Held(r) THEN x.wrote[k] ELSE menu[k]
  BY <1>1 DEF With
<1>7. \A k \in Held(r) : k \in Keys /\ Sits(k, x.wrote[k])
  BY <1>4 DEF Working, Held
<1>8. MenuRows'
  BY <1>6, <1>7 DEF MenuInv, MenuRows
<1>9. ASSUME NEW i \in MenuItems, menu[i] # NoRow
      PROVE  menu'[i] # NoRow
  BY <1>6, <1>7, <1>9, NoRowSitsNowhere, ItemsAndCategories
<1>10. ASSUME NEW q \in MenuRequests PROVE Working(tx'[q], menu')
  <2>1. CASE q = r
    BY <1>3, <2>1, NoTxWorks
  <2>2. CASE q # r
    <3> DEFINE y == tx[q]
               m2 == menu'
    <3>1. Working(y, menu) /\ tx'[q] = y
      BY <1>3, <2>2 DEF MenuInv
    <3>2. ASSUME NEW k \in DOMAIN y.wrote PROVE m2[k] = menu[k]
      <4>1. k \in Keys /\ k \notin Held(r)
        BY <2>2, <3>1 DEF MenuInv, Separate, Working, Held
      <4> QED BY <1>6, <4>1
    <3>3. y.at = "clearing" => y.apart
      BY <1>1, <2>2, OneIsClearing
    <3>4. Alike(y, y)
      <4>1. y.late \subseteq MenuItems
        BY <3>1 DEF Working
      <4> QED BY <4>1, Zenon DEF Alike
    <3>5. \A i \in MenuItems : menu[i] # NoRow => m2[i] # NoRow
      BY <1>9
    <3> HIDE DEF y, m2
    <3>6. y.at = "clearing" /\ ~y.apart =>
            \A i \in MenuItems \ y.late : m2[i] # NoRow /\ m2[i].available => menu[i] # NoRow /\ menu[i].available
      BY <3>3, Zenon
    <3>7. Working(y, m2)
      <4>1. Working(y, menu) /\ \A k \in DOMAIN y.wrote : m2[k] = menu[k]
        BY <3>1, <3>2, Zenon
      <4> QED BY <3>4, <3>5, <3>6, <4>1, WorkingStays
    <3> QED BY <3>1, <3>7 DEF m2
  <2> QED BY <2>1, <2>2
<1>11. ASSUME ~x.apart PROVE Is(menu', x.says, x.late)
  <2>1. ASSUME NEW ci \in DOMAIN x.says PROVE menu'[x.says[ci].id] = [position |-> ci]
    <3> DEFINE w == [key |-> x.says[ci].id, row |-> [position |-> ci]]
    <3>1. w \in Lines(x.says) /\ w.key = x.says[ci].id /\ w.row = [position |-> ci]
      BY <1>5, LinesAre, MenuAssumption
    <3> HIDE DEF w
    <3>2. w.key \in Held(r) /\ x.wrote[w.key] = w.row
      BY <1>5, <3>1
    <3>3. menu'[w.key] = w.row
      BY <1>6, <1>7, <3>2
    <3> QED BY <3>1, <3>3
  <2>2. ASSUME NEW i \in Mentioned(x.says) PROVE SaysOf(x.says, i, menu'[i])
    <3>1. x.says \in UploadShape
      BY <1>5, MenuAssumption
    <3>2. PICK w \in Lines(x.says) : w.key = i
      BY <1>5, <3>1, LinesAre
    <3>3. SaysOf(x.says, w.key, w.row)
      BY <1>5, <3>1, <3>2, LinesAre
    <3>4. menu'[w.key] = w.row
      BY <1>5, <1>6, <1>7
    <3> QED BY <3>2, <3>3, <3>4
  <2>3. ASSUME NEW i \in MenuItems \ x.late, i \notin Mentioned(x.says),
               menu'[i] # NoRow, menu'[i].available
        PROVE  FALSE
    <3>0. i \in Keys
      BY ItemsAndCategories
    <3>1. CASE i \in Held(r)
      <4>1. i \notin KeysOf(x.says)
        BY <1>5, <2>3, KeysOfAre
      <4>2. TakenOff(x, menu, i)
        BY <1>5, <3>1, <4>1, Zenon DEF Clearing, Held
      <4>3. menu'[i] = x.wrote[i]
        BY <1>6, <3>0, <3>1
      <4> QED BY <2>3, <4>2, <4>3, Zenon DEF TakenOff
    <3>2. CASE i \notin Held(r)
      <4>1. menu'[i] = menu[i]
        BY <1>6, <3>0, <3>2
      <4>2. menu[i] # NoRow /\ menu[i].available
        BY <2>3, <4>1, Zenon
      <4>3. i \in MenuItems \ (Mentioned(x.says) \union x.late)
        BY <2>3
      <4>4. i \in x.todo \union DOMAIN x.wrote
        BY <1>5, <1>11, <4>2, <4>3, Zenon DEF Clearing
      <4> QED BY <1>1, <3>2, <4>4 DEF Held
    <3> QED BY <3>1, <3>2
  <2> QED BY <2>1, <2>2, <2>3, Zenon DEF Is, Placed
<1>12. Committed'
  <2>1. last' \in Uploads /\ Valid(last') /\ patched' \subseteq MenuItems
    BY <1>1, <1>4, <1>5 DEF Working
  <2>2. ~apart' => Is(menu', last', patched')
    BY <1>1, <1>2, <1>11, Zenon
  <2> QED BY <2>1, <2>2, Zenon DEF Committed
<1>13. Shapes'
  <2>1. \A q \in MenuRequests \ {r} : DOMAIN tx[q] = Fields /\ tx[q].at \in Ats
    BY DEF MenuInv, Shapes
  <2>2. \A q \in MenuRequests : DOMAIN tx'[q] = Fields /\ tx'[q].at \in Ats
    BY <1>3, <2>1, NoTxWorks DEF Ats
  <2> QED BY <1>3, <2>2 DEF Shapes
<1>14. Separate'
  <2>1. \A p, q \in MenuRequests : p # q => DOMAIN tx[p].wrote \intersect DOMAIN tx[q].wrote = {}
    BY DEF MenuInv, Separate, Held
  <2>2. DOMAIN tx'[r].wrote = {}
    BY <1>3, NoTxWorks
  <2>3. \A p, q \in MenuRequests : p # q => DOMAIN tx'[p].wrote \intersect DOMAIN tx'[q].wrote = {}
    BY <1>3, <2>1, <2>2
  <2> QED BY <2>3 DEF Separate, Held
<1>15. Together'
  <2>1. ASSUME NEW q \in MenuRequests, (Uploading(q))'
        PROVE  q # r /\ tx'[q] = tx[q] /\ Uploading(q)
    <3>1. q # r
      BY <1>3, <2>1, NoTxWorks DEF Uploading
    <3> QED BY <1>3, <2>1, <3>1 DEF Uploading
  <2>2. ASSUME NEW p \in MenuRequests, NEW q \in MenuRequests, p # q,
               (Uploading(p))', (Uploading(q))', ~tx'[p].apart
        PROVE  ~ShareNothing(tx'[p].says, tx'[q].says)
    <3>1. Uploading(p) /\ Uploading(q) /\ tx'[p] = tx[p] /\ tx'[q] = tx[q]
      BY <2>1, <2>2
    <3>2. ~tx[p].apart
      BY <2>2, <3>1, Zenon
    <3>3. ~ShareNothing(tx[p].says, tx[q].says)
      BY <2>2, <3>1, <3>2, Zenon DEF MenuInv, Together
    <3> QED BY <3>1, <3>3
  <2> QED BY <2>2, Zenon DEF Together, Uploading
<1> QED BY <1>8, <1>10, <1>12, <1>13, <1>14, <1>15, Zenon DEF MenuInv

LEMMA ApplyPatchKeeps ==
  ASSUME MenuInv, NEW r \in MenuRequests, ApplyPatch(r)
  PROVE  MenuInv'
<1>1. PICK i \in tx[r].todo :
        /\ Free(r, i)
        /\ IF menu[i].category \in tx[r].joined
           THEN /\ \E a \in BOOLEAN : menu' = [menu EXCEPT ![i].available = a]
                /\ patched' = patched \union {i}
                /\ tx' = [q \in MenuRequests |->
                     IF q = r THEN NoTx
                     ELSE IF tx[q].at = "clearing" THEN [tx[q] EXCEPT !.late = @ \union {i}]
                     ELSE tx[q]]
           ELSE EndTx(r) /\ UNCHANGED <<menu, patched>>
  BY DEF ApplyPatch
<1>2. UNCHANGED <<last, apart>>
  BY DEF ApplyPatch
<1>3. CASE menu[i].category \notin tx[r].joined
  BY <1>1, <1>2, <1>3, EndKeeps
<1>4. CASE menu[i].category \in tx[r].joined
  <2>0. PICK a \in BOOLEAN : menu' = [menu EXCEPT ![i].available = a]
    BY <1>1, <1>4
  <2>1. /\ patched' = patched \union {i}
        /\ tx' = [q \in MenuRequests |->
             IF q = r THEN NoTx
             ELSE IF tx[q].at = "clearing" THEN [tx[q] EXCEPT !.late = @ \union {i}]
             ELSE tx[q]]
    BY <1>1, <1>4
  <2>2. i \in MenuItems /\ i \in Keys /\ menu[i] # NoRow
    BY ItemsAndCategories DEF MenuInv, Working
  <2>3. menu[i] \in ItemRow
    BY <2>2 DEF MenuInv, MenuRows, Sits
  <2> DEFINE row == [menu[i] EXCEPT !.available = a]
  <2>4. row \in ItemRow /\ Sits(i, row)
    <3>1. row \in ItemRow
      BY <2>3 DEF ItemRow
    <3> QED BY <2>2, <3>1, ItemsAndCategories DEF Sits
  <2>5. DOMAIN menu = Keys
    BY DEF MenuInv, MenuRows
  <2>6. DOMAIN menu' = Keys /\ menu'[i] = row /\ \A k \in Keys : k # i => menu'[k] = menu[k]
    BY <2>0, <2>2, <2>5
  <2> HIDE DEF row
  <2>7. MenuRows'
    BY <2>4, <2>6 DEF MenuInv, MenuRows
  <2>8. \A j \in MenuItems : menu[j] # NoRow => menu'[j] # NoRow
    BY <2>2, <2>4, <2>6, NoRowSitsNowhere, ItemsAndCategories
  <2>9. \A q \in MenuRequests : DOMAIN tx[q] = Fields
    BY DEF MenuInv, Shapes
  <2>10. ASSUME NEW q \in MenuRequests, q # r
         PROVE  /\ DOMAIN tx'[q] = Fields /\ tx'[q].at = tx[q].at /\ tx'[q].says = tx[q].says
                /\ tx'[q].left = tx[q].left /\ tx'[q].todo = tx[q].todo /\ tx'[q].wrote = tx[q].wrote
                /\ tx'[q].created = tx[q].created /\ tx'[q].updated = tx[q].updated
                /\ tx'[q].off = tx[q].off
                /\ tx'[q].late = IF tx[q].at = "clearing" THEN tx[q].late \union {i} ELSE tx[q].late
    BY <2>1, <2>9, <2>10 DEF Fields
  <2>11. ASSUME NEW q \in MenuRequests, q # r
         PROVE  tx'[q].apart = tx[q].apart
    BY <2>1, <2>9, <2>11 DEF Fields
  <2>12. DOMAIN tx' = MenuRequests /\ tx'[r] = NoTx
    BY <2>1
  <2>13. ASSUME NEW q \in MenuRequests PROVE Working(tx'[q], menu')
    <3>1. CASE q = r
      BY <2>12, <3>1, NoTxWorks
    <3>2. CASE q # r
      <4> DEFINE x == tx[q]
                 y == tx'[q]
                 m2 == menu'
      <4>1. Working(x, menu)
        BY DEF MenuInv
      <4>2. x.late \subseteq MenuItems
        BY <4>1 DEF Working
      <4>3. Alike(x, y)
        <5>1. x.late \subseteq y.late /\ y.late \subseteq MenuItems
          BY <2>2, <2>10, <3>2, <4>2
        <5>2. ~y.apart => ~x.apart
          BY <2>11, <3>2, Zenon
        <5> QED BY <2>10, <3>2, <5>1, <5>2, Zenon DEF Alike
      <4>4. ASSUME NEW k \in DOMAIN x.wrote PROVE m2[k] = menu[k]
        <5>1. k \in Keys /\ k # i
          BY <1>1, <3>2, <4>1 DEF Working, Free, Held
        <5> QED BY <2>6, <5>1
      <4>5. \A j \in MenuItems : menu[j] # NoRow => m2[j] # NoRow
        BY <2>8
      <4>6. ASSUME x.at = "clearing", NEW j \in MenuItems \ y.late
            PROVE  m2[j] = menu[j]
        <5>1. j # i /\ j \in Keys
          BY <2>10, <3>2, <4>6, ItemsAndCategories
        <5> QED BY <2>6, <5>1
      <4> HIDE DEF x, y, m2
      <4>7. x.at = "clearing" /\ ~y.apart =>
              \A j \in MenuItems \ y.late : m2[j] # NoRow /\ m2[j].available => menu[j] # NoRow /\ menu[j].available
        BY <4>6, Zenon
      <4>8. Working(y, m2)
        BY <4>1, <4>3, <4>4, <4>5, <4>7, WorkingStays, Zenon
      <4> QED BY <4>8 DEF y, m2
    <3> QED BY <3>1, <3>2
  <2>14. Committed'
    <3>1. last \in Uploads /\ Valid(last) /\ patched' \subseteq MenuItems
      BY <2>1, <2>2 DEF MenuInv, Committed
    <3>2. ASSUME ~apart PROVE Is(menu', last, patched')
      <4>1. Is(menu, last, patched)
        BY <3>2, Zenon DEF MenuInv, Committed
      <4>2. ASSUME NEW ci \in DOMAIN last PROVE menu'[last[ci].id] = [position |-> ci]
        <5>1. last[ci].id \in Categories /\ last[ci].id \in Keys /\ last[ci].id # i
          BY <2>2, <3>1, KeysOfAre, ItemsAndCategories
        <5>2. menu[last[ci].id] = [position |-> ci]
          <6>1. Placed(menu, last)
            BY <4>1, Zenon DEF Is
          <6> QED BY <6>1 DEF Placed
        <5> QED BY <2>6, <5>1, <5>2
      <4>3. ASSUME NEW j \in MenuItems \ patched'
            PROVE  /\ j \in Mentioned(last) => SaysOf(last, j, menu'[j])
                   /\ j \notin Mentioned(last) => ~(menu'[j] # NoRow /\ menu'[j].available)
        <5>1. j \in MenuItems \ patched /\ j # i /\ j \in Keys
          BY <2>1, <4>3, ItemsAndCategories
        <5>2. menu'[j] = menu[j]
          BY <2>6, <5>1
        <5>3. /\ j \in Mentioned(last) => SaysOf(last, j, menu[j])
              /\ j \notin Mentioned(last) => ~(menu[j] # NoRow /\ menu[j].available)
          BY <4>1, <5>1, Zenon DEF Is
        <5> QED BY <5>2, <5>3, Zenon
      <4> QED BY <4>2, <4>3, Zenon DEF Is, Placed
    <3> QED BY <1>2, <3>1, <3>2, Zenon DEF Committed
  <2>15. Shapes'
    <3>1. \A q \in MenuRequests : tx[q].at \in Ats
      BY DEF MenuInv, Shapes
    <3>2. \A q \in MenuRequests : DOMAIN tx'[q] = Fields /\ tx'[q].at \in Ats
      BY <2>10, <2>12, <3>1, NoTxWorks DEF Ats
    <3> QED BY <2>12, <3>2 DEF Shapes
  <2>16. Separate'
    <3>1. \A p, q \in MenuRequests : p # q => DOMAIN tx[p].wrote \intersect DOMAIN tx[q].wrote = {}
      BY DEF MenuInv, Separate, Held
    <3>2. DOMAIN tx'[r].wrote = {}
      BY <2>12, NoTxWorks
    <3>3. \A p, q \in MenuRequests : p # q => DOMAIN tx'[p].wrote \intersect DOMAIN tx'[q].wrote = {}
      BY <2>10, <3>1, <3>2
    <3> QED BY <3>3 DEF Separate, Held
  <2>17. Together'
    <3>1. ASSUME NEW q \in MenuRequests, (Uploading(q))'
          PROVE  q # r /\ tx'[q].says = tx[q].says /\ Uploading(q)
      <4>1. q # r
        BY <2>12, <3>1, NoTxWorks DEF Uploading
      <4> QED BY <2>10, <3>1, <4>1 DEF Uploading
    <3>2. ASSUME NEW p \in MenuRequests, NEW q \in MenuRequests, p # q,
                 (Uploading(p))', (Uploading(q))', ~tx'[p].apart
          PROVE  ~ShareNothing(tx'[p].says, tx'[q].says)
      <4>1. /\ Uploading(p) /\ Uploading(q) /\ p # r
            /\ tx'[p].says = tx[p].says /\ tx'[q].says = tx[q].says
        BY <3>1, <3>2
      <4>2. ~tx[p].apart
        BY <2>11, <3>2, <4>1, Zenon
      <4>3. ~ShareNothing(tx[p].says, tx[q].says)
        BY <3>2, <4>1, <4>2, Zenon DEF MenuInv, Together
      <4> QED BY <4>1, <4>3, Zenon
    <3> QED BY <3>2, Zenon DEF Together, Uploading
  <2> QED BY <2>7, <2>13, <2>14, <2>15, <2>16, <2>17, Zenon DEF MenuInv
<1> QED BY <1>3, <1>4

LEMMA RowsOfAre ==
  ASSUME NEW u \in Uploads, Valid(u)
  PROVE  /\ DOMAIN RowsOf(u) = Keys
         /\ \A w \in Lines(u) : RowsOf(u)[w.key] = w.row
         /\ \A k \in Keys : k \notin KeysOf(u) => RowsOf(u)[k] = NoRow
<1> DEFINE L == ToSet(CategoryRows(u) \o ItemRows(u))
<1>1. L = Lines(u)
  <2>1. All(u) \in Seq(Line)
    BY LinesAre, MenuAssumption
  <2>2. DOMAIN All(u) = 1..Len(All(u))
    BY <2>1, LenProperties
  <2> QED BY <2>2 DEF ToSet, Lines, All
<1>2. RowsOf(u) = [k \in Keys |-> IF \E w \in L : w.key = k THEN (CHOOSE w \in L : w.key = k).row ELSE NoRow]
  BY DEF RowsOf
<1> HIDE DEF L
<1>3. DOMAIN RowsOf(u) = Keys
  BY <1>2
<1>4. ASSUME NEW w \in Lines(u) PROVE RowsOf(u)[w.key] = w.row
  <2>1. w.key \in Keys /\ \A v \in Lines(u) : v.key = w.key => v = w
    BY KeysOfAre
  <2>2. (CHOOSE v \in L : v.key = w.key) = w
    BY <1>1, <2>1
  <2>3. \E v \in L : v.key = w.key
    BY <1>1
  <2> QED BY <1>2, <2>1, <2>2, <2>3
<1>5. ASSUME NEW k \in Keys, k \notin KeysOf(u) PROVE RowsOf(u)[k] = NoRow
  <2>1. ~\E w \in L : w.key = k
    BY <1>1, <1>5 DEF KeysOf
  <2> QED BY <1>2, <2>1
<1> QED BY <1>3, <1>4, <1>5

LEMMA MenuInitInv ==
  ASSUME MenuInit
  PROVE  MenuInv
<1>1. /\ last \in Uploads /\ Valid(last) /\ menu = RowsOf(last)
      /\ tx = [r \in MenuRequests |-> NoTx] /\ patched = {}
  BY DEF MenuInit
<1>2. last \in UploadShape
  BY <1>1, MenuAssumption
<1>3. /\ DOMAIN menu = Keys
      /\ \A w \in Lines(last) : menu[w.key] = w.row
      /\ \A k \in Keys : k \notin KeysOf(last) => menu[k] = NoRow
  BY <1>1, RowsOfAre
<1>4. MenuRows
  <2> SUFFICES ASSUME NEW k \in Keys PROVE menu[k] = NoRow \/ Sits(k, menu[k])
    BY <1>3 DEF MenuRows
  <2>1. CASE k \in KeysOf(last)
    <3>1. PICK w \in Lines(last) : w.key = k
      BY <2>1 DEF KeysOf
    <3>2. Sits(w.key, w.row)
      BY <1>1, KeysOfAre
    <3> QED BY <1>3, <3>1, <3>2
  <2> QED BY <1>3, <2>1
<1>5. Is(menu, last, patched)
  <2>1. ASSUME NEW ci \in DOMAIN last PROVE menu[last[ci].id] = [position |-> ci]
    <3> DEFINE w == [key |-> last[ci].id, row |-> [position |-> ci]]
    <3>1. w \in Lines(last) /\ w.key = last[ci].id /\ w.row = [position |-> ci]
      BY <1>1, <1>2, LinesAre
    <3> HIDE DEF w
    <3> QED BY <1>3, <3>1
  <2>2. ASSUME NEW i \in Mentioned(last) PROVE SaysOf(last, i, menu[i])
    <3>1. PICK w \in Lines(last) : w.key = i
      BY <1>1, <1>2, LinesAre
    <3>2. i \in MenuItems
      BY <1>1, <1>2, LinesAre
    <3>3. SaysOf(last, w.key, w.row)
      BY <1>1, <1>2, <3>1, <3>2, LinesAre
    <3> QED BY <1>3, <3>1, <3>3
  <2>3. ASSUME NEW i \in MenuItems, i \notin Mentioned(last) PROVE menu[i] = NoRow
    <3>1. i \in Keys /\ i \notin KeysOf(last)
      BY <1>1, <2>3, KeysOfAre, ItemsAndCategories
    <3> QED BY <1>3, <3>1
  <2> QED BY <2>1, <2>2, <2>3, Zenon DEF Is, Placed
<1>6. Committed
  BY <1>1, <1>5 DEF Committed
<1>7. \A r \in MenuRequests : tx[r] = NoTx
  BY <1>1
<1>8. Shapes
  BY <1>1, <1>7, NoTxWorks DEF Shapes, Ats
<1>9. \A r \in MenuRequests : Working(tx[r], menu)
  BY <1>7, NoTxWorks
<1>10. Separate
  BY <1>7, NoTxWorks DEF Separate, Held
<1>11. Together
  BY <1>7, NoTxWorks DEF Together, Uploading
<1> QED BY <1>4, <1>6, <1>8, <1>9, <1>10, <1>11 DEF MenuInv

LEMMA MenuStepInv ==
  ASSUME MenuInv, [MenuNext]_menuVars
  PROVE  MenuInv'
<1>1. CASE UNCHANGED menuVars
  BY <1>1 DEF menuVars, MenuInv, Shapes, MenuRows, Separate, Together, Committed, Held, Uploading
<1>2. CASE MenuNext
  <2>1. PICK r \in MenuRequests :
          \/ \E u \in Uploads : Upload(r, u)
          \/ \E i \in MenuItems : Patch(r, i)
          \/ \E items \in SUBSET MenuItems \ {{}} : Reserve(r, items)
          \/ Step(r)
          \/ TxFails(r)
    BY <1>2 DEF MenuNext
  <2>2. CASE \E u \in Uploads : Upload(r, u)
    BY <2>2, UploadKeeps
  <2>3. CASE \E i \in MenuItems : Patch(r, i)
    BY <2>3, PatchKeeps
  <2>4. CASE \E items \in SUBSET MenuItems \ {{}} : Reserve(r, items)
    BY <2>4, ReserveKeeps
  <2>5. CASE TxFails(r)
    BY <2>5, EndKeeps DEF TxFails
  <2>6. CASE Upsert(r)
    BY <2>6, UpsertKeeps
  <2>7. CASE LookForMissing(r)
    BY <2>7, LookForMissingKeeps
  <2>8. CASE Deactivate(r)
    BY <2>8, DeactivateKeeps
  <2>9. CASE CommitUpload(r)
    BY <2>9, CommitUploadKeeps
  <2>10. CASE ApplyPatch(r)
    BY <2>10, ApplyPatchKeeps
  <2>11. CASE TakeItem(r)
    BY <2>11, TakeItemKeeps
  <2>12. CASE CommitOrder(r)
    BY <2>12, EndKeeps DEF CommitOrder
  <2>13. CASE BreakMenuDeadlock(r)
    BY <2>13, EndKeeps DEF BreakMenuDeadlock
  <2> QED BY <2>1, <2>2, <2>3, <2>4, <2>5, <2>6, <2>7, <2>8, <2>9, <2>10, <2>11, <2>12, <2>13 DEF Step
<1> QED BY <1>1, <1>2

THEOREM MenuInvariant == MenuSpec => []MenuInv
<1>1. MenuInit => MenuInv
  BY MenuInitInv
<1>2. MenuInv /\ [MenuNext]_menuVars => MenuInv'
  BY MenuStepInv
<1> QED BY <1>1, <1>2, PTL DEF MenuSpec

\* The menu is the last upload committed, and what has been patched since, however
\* uploads, patches and orders met (SyncMenu, PatchItem, ReserveStock).
THEOREM TheLastUploadStands == MenuSpec => []MenuIsTheLastUpload
<1>1. MenuInv => MenuIsTheLastUpload
  <2> SUFFICES ASSUME MenuInv, ~apart
               PROVE  /\ \A ci \in DOMAIN last : menu[last[ci].id].position = ci
                      /\ \A i \in MenuItems \ patched :
                           IF i \in Mentioned(last) THEN SaysOf(last, i, menu[i]) ELSE ~OnSale(i)
    BY Zenon DEF MenuIsTheLastUpload
  <2>1. Is(menu, last, patched)
    BY Zenon DEF MenuInv, Committed
  <2>2. \A ci \in DOMAIN last : menu[last[ci].id].position = ci
    <3>1. Placed(menu, last)
      BY <2>1, Zenon DEF Is
    <3>2. ASSUME NEW ci \in DOMAIN last PROVE menu[last[ci].id].position = ci
      <4>1. menu[last[ci].id] = [position |-> ci]
        BY <3>1, Zenon DEF Placed
      <4>2. [position |-> ci].position = ci
        OBVIOUS
      <4> QED BY <4>1, <4>2, Zenon
    <3> QED BY <3>2
  <2>3. \A i \in MenuItems \ patched : IF i \in Mentioned(last) THEN SaysOf(last, i, menu[i]) ELSE ~OnSale(i)
    BY <2>1, Zenon DEF Is, OnSale
  <2> QED BY <2>2, <2>3
<1> QED BY <1>1, MenuInvariant, PTL

\* What an upload answers with is what its commit does to the menu, whatever the
\* others have committed since it counted (SyncMenu).
THEOREM TheCountsAreTrue == MenuSpec => []UploadsTellTheTruth
<1>1. MenuInv => UploadsTellTheTruth
  <2> SUFFICES ASSUME MenuInv, NEW r \in MenuRequests, tx[r].at = "clearing"
               PROVE  LET then == With(r)
                          was == {i \in MenuItems : menu[i] # NoRow}
                      IN  /\ tx[r].created = Cardinality(Mentioned(tx[r].says) \ was)
                          /\ tx[r].updated = Cardinality(Mentioned(tx[r].says) \intersect was)
                          /\ tx[r].off = Cardinality({i \in was \ Mentioned(tx[r].says) :
                                                         menu[i].available /\ ~then[i].available})
    BY Zenon DEF UploadsTellTheTruth
  <2> DEFINE x == tx[r]
             was == {i \in MenuItems : menu[i] # NoRow}
             gone == {i \in was \ Mentioned(x.says) : menu[i].available /\ ~With(r)[i].available}
  <2>1. /\ x.says \in Uploads /\ Valid(x.says)
        /\ KeysOf(x.says) \subseteq Held(r)
        /\ Writing(x, menu) /\ Clearing(x, menu)
    BY ClearingHolds
  <2>2. /\ Mentioned(x.says) \subseteq MenuItems
        /\ \A i \in MenuItems : i \in KeysOf(x.says) <=> i \in Mentioned(x.says)
    BY <2>1, KeysOfAre
  <2>3. Mentioned(x.says) \subseteq DOMAIN x.wrote
    BY <2>1, <2>2 DEF Held
  <2>4. NewOf(x, menu) = Mentioned(x.says) \ was /\ OldOf(x, menu) = Mentioned(x.says) \intersect was
    BY <2>2, <2>3 DEF NewOf, OldOf
  <2>5. x.created = Cardinality(NewOf(x, menu)) /\ x.updated = Cardinality(OldOf(x, menu))
    BY <2>1 DEF Writing
  <2>6. x.off = Cardinality(ExtraOf(x))
    BY <2>1 DEF Clearing
  <2>7. \A k \in Keys : With(r)[k] = IF k \in Held(r) THEN x.wrote[k] ELSE menu[k]
    BY DEF With
  <2>8. ASSUME NEW i \in ExtraOf(x) PROVE i \in gone
    <3>1. i \in Held(r) /\ i \in MenuItems /\ i \notin Mentioned(x.says) /\ i \in Keys
      BY ItemsAndCategories DEF ExtraOf, Held
    <3>2. i \notin KeysOf(x.says)
      BY <2>2, <3>1
    <3>3. TakenOff(x, menu, i)
      BY <2>1, <3>1, <3>2, Zenon DEF Clearing, Held
    <3>4. With(r)[i] = x.wrote[i]
      BY <2>7, <3>1
    <3> QED BY <3>1, <3>3, <3>4, Zenon DEF TakenOff
  <2>9. ASSUME NEW i \in gone PROVE i \in ExtraOf(x)
    <3>1. i \in MenuItems /\ i \in Keys /\ i \notin Mentioned(x.says)
      BY <2>9, ItemsAndCategories
    <3>2. menu[i].available /\ ~With(r)[i].available
      BY <2>9, Zenon
    <3>3. i \in Held(r)
      <4> SUFFICES ASSUME i \notin Held(r) PROVE FALSE
        OBVIOUS
      <4>1. With(r)[i] = menu[i]
        BY <2>7, <3>1
      <4> QED BY <3>2, <4>1, Zenon
    <3> QED BY <3>1, <3>3 DEF ExtraOf, Held
  <2>10. ExtraOf(x) = gone
    BY <2>8, <2>9, Zenon
  <2> QED BY <2>4, <2>5, <2>6, <2>10, Zenon
<1> QED BY <1>1, MenuInvariant, PTL

\* An upload has met one that shares nothing with it, or not.
Flags == apart \in BOOLEAN /\ \A r \in MenuRequests : tx[r].apart \in BOOLEAN

LEMMA FlagsStay ==
  ASSUME MenuInv, Flags, [MenuNext]_menuVars
  PROVE  Flags'
<1>0. DOMAIN tx = MenuRequests /\ \A r \in MenuRequests : DOMAIN tx[r] = Fields
  BY DEF MenuInv, Shapes
<1>1. NoTx.apart \in BOOLEAN
  BY DEF NoTx
<1>2. CASE UNCHANGED menuVars
  BY <1>2 DEF menuVars, Flags
<1>3. ASSUME NEW r \in MenuRequests, UNCHANGED apart,
             \A q \in MenuRequests : tx'[q].apart \in {tx[q].apart, NoTx.apart}
      PROVE  Flags'
  BY <1>1, <1>3, Zenon DEF Flags
<1>4. ASSUME NEW r \in MenuRequests, EndTx(r)
      PROVE  \A q \in MenuRequests : tx'[q].apart \in {tx[q].apart, NoTx.apart}
  BY <1>0, <1>4 DEF EndTx
<1>5. ASSUME NEW r \in MenuRequests, NEW u \in Uploads, Upload(r, u)
      PROVE  Flags'
  <2> DEFINE met == {q \in MenuRequests : Uploading(q) /\ ShareNothing(u, tx[q].says)}
             fresh == [NoTx EXCEPT !.at = "upserting", !.says = u,
                                   !.left = CategoryRows(u) \o ItemRows(u), !.apart = met # {}]
  <2>1. /\ UNCHANGED apart
        /\ tx' = [q \in MenuRequests |-> IF q = r THEN fresh ELSE [tx[q] EXCEPT !.apart = @ \/ q \in met]]
    BY <1>5 DEF Upload, BeginTx
  <2>2. fresh.apart \in BOOLEAN
    BY DEF NoTx
  <2>3. ASSUME NEW q \in MenuRequests PROVE [tx[q] EXCEPT !.apart = @ \/ q \in met].apart \in BOOLEAN
    BY <1>0 DEF Fields
  <2> HIDE DEF fresh, met
  <2>4. \A q \in MenuRequests : tx'[q].apart \in BOOLEAN
    BY <2>1, <2>2, <2>3
  <2>5. apart' \in BOOLEAN
    BY <2>1, Zenon DEF Flags
  <2> QED BY <2>4, <2>5, Zenon DEF Flags
<1>6. ASSUME NEW r \in MenuRequests, NEW i \in MenuItems, Patch(r, i)
      PROVE  Flags'
  <2>1. UNCHANGED apart /\ \A q \in MenuRequests : tx'[q].apart \in {tx[q].apart, NoTx.apart}
    BY <1>0, <1>6 DEF Patch, BeginTx, NoTx
  <2> QED BY <1>3, <2>1
<1>7. ASSUME NEW r \in MenuRequests, NEW items \in SUBSET MenuItems, Reserve(r, items)
      PROVE  Flags'
  <2>1. UNCHANGED apart /\ \A q \in MenuRequests : tx'[q].apart \in {tx[q].apart, NoTx.apart}
    BY <1>0, <1>7 DEF Reserve, BeginTx, NoTx
  <2> QED BY <1>3, <2>1
<1>8. ASSUME NEW r \in MenuRequests, Upsert(r)
      PROVE  Flags'
  <2>1. UNCHANGED apart /\ \A q \in MenuRequests : tx'[q].apart = tx[q].apart
    BY <1>0, <1>8 DEF Upsert, Fields
  <2> QED BY <1>3, <2>1
<1>9. ASSUME NEW r \in MenuRequests, LookForMissing(r)
      PROVE  Flags'
  <2>1. UNCHANGED apart /\ \A q \in MenuRequests : tx'[q].apart = tx[q].apart
    BY <1>0, <1>9 DEF LookForMissing, Fields
  <2> QED BY <1>3, <2>1
<1>10. ASSUME NEW r \in MenuRequests, Deactivate(r)
       PROVE  Flags'
  <2>1. UNCHANGED apart /\ \A q \in MenuRequests : tx'[q].apart = tx[q].apart
    BY <1>0, <1>10 DEF Deactivate, Fields
  <2> QED BY <1>3, <2>1
<1>11. ASSUME NEW r \in MenuRequests, CommitUpload(r)
       PROVE  Flags'
  <2>1. apart' = tx[r].apart /\ EndTx(r)
    BY <1>11 DEF CommitUpload
  <2>2. \A q \in MenuRequests : tx'[q].apart \in {tx[q].apart, NoTx.apart}
    BY <1>4, <2>1
  <2> QED BY <1>1, <2>1, <2>2, Zenon DEF Flags
<1>12. ASSUME NEW r \in MenuRequests, ApplyPatch(r)
       PROVE  Flags'
  <2>1. UNCHANGED apart /\ \A q \in MenuRequests : tx'[q].apart \in {tx[q].apart, NoTx.apart}
    BY <1>0, <1>4, <1>12 DEF ApplyPatch, Fields
  <2> QED BY <1>3, <2>1
<1>13. ASSUME NEW r \in MenuRequests, TakeItem(r)
       PROVE  Flags'
  <2>1. UNCHANGED apart /\ \A q \in MenuRequests : tx'[q].apart \in {tx[q].apart, NoTx.apart}
    BY <1>0, <1>4, <1>13 DEF TakeItem, Fields
  <2> QED BY <1>3, <2>1
<1>14. ASSUME NEW r \in MenuRequests, CommitOrder(r) \/ BreakMenuDeadlock(r) \/ TxFails(r)
       PROVE  Flags'
  <2>1. UNCHANGED apart /\ EndTx(r)
    BY <1>14 DEF CommitOrder, BreakMenuDeadlock, TxFails
  <2> QED BY <1>3, <1>4, <2>1
<1>15. CASE MenuNext
  <2>1. PICK r \in MenuRequests :
          \/ \E u \in Uploads : Upload(r, u)
          \/ \E i \in MenuItems : Patch(r, i)
          \/ \E items \in SUBSET MenuItems \ {{}} : Reserve(r, items)
          \/ Step(r)
          \/ TxFails(r)
    BY <1>15 DEF MenuNext
  <2> QED BY <1>5, <1>6, <1>7, <1>8, <1>9, <1>10, <1>11, <1>12, <1>13, <1>14, <2>1 DEF Step
<1> QED BY <1>2, <1>15

THEOREM MenuTypeCorrect == MenuSpec => []MenuTypeOK
<1>1. MenuInit => Flags
  <2> SUFFICES ASSUME MenuInit PROVE Flags
    OBVIOUS
  <2>1. NoTx.apart \in BOOLEAN
    BY DEF NoTx
  <2>2. \A r \in MenuRequests : tx[r] = NoTx
    BY DEF MenuInit
  <2>3. apart \in BOOLEAN
    BY Zenon DEF MenuInit
  <2> QED BY <2>1, <2>2, <2>3, Zenon DEF Flags
<1>2. MenuInv /\ Flags /\ [MenuNext]_menuVars => Flags'
  BY FlagsStay
<1>3. MenuInv /\ Flags => MenuTypeOK
  <2> SUFFICES ASSUME MenuInv, Flags PROVE MenuTypeOK
    OBVIOUS
  <2>1. \A k \in Keys : menu[k] = NoRow \/ Sits(k, menu[k])
    BY DEF MenuInv, MenuRows
  <2>2. \A c \in Categories : menu[c] = NoRow \/ menu[c] \in CategoryRow
    BY <2>1, ItemsAndCategories DEF Sits
  <2>3. \A i \in MenuItems : menu[i] = NoRow \/ menu[i] \in ItemRow
    BY <2>1, ItemsAndCategories DEF Sits
  <2>4. ASSUME NEW r \in MenuRequests
        PROVE  /\ DOMAIN tx[r] = DOMAIN NoTx
               /\ tx[r].at \in {"idle", "upserting", "clearing", "reserving", "patching"}
               /\ DOMAIN tx[r].wrote \subseteq Keys
    <3>1. DOMAIN tx[r] = Fields /\ tx[r].at \in Ats /\ Working(tx[r], menu)
      BY DEF MenuInv, Shapes
    <3> QED BY <3>1, NoTxWorks DEF Ats, Working
  <2>5. last \in Uploads \union {<<>>} /\ patched \subseteq MenuItems
    BY DEF MenuInv, Committed
  <2>6. apart \in BOOLEAN
    BY Zenon DEF Flags
  <2> QED BY <2>2, <2>3, <2>4, <2>5, <2>6, Zenon DEF MenuTypeOK
<1> QED BY <1>1, <1>2, <1>3, MenuInvariant, PTL DEF MenuSpec

----------------------------------------------------------------------------
(* Both stories. *)

\* A cart and a menu are of their types whichever of them is told.
THEOREM RowsTypeCorrect == MCSpec => []MCTypeOK
<1>1. MCInit => Init /\ MenuInit
  BY DEF MCInit
<1>2. [MCNext]_mcVars => [Next]_vars /\ [MenuNext]_menuVars
  BY DEF MCNext, mcVars
<1>3. Spec => []TypeOK
  BY CartAssumption, TypeCorrect
<1>4. TypeOK /\ MenuTypeOK => MCTypeOK
  BY DEF MCTypeOK
<1> QED BY <1>1, <1>2, <1>3, <1>4, MenuTypeCorrect, PTL DEF MCSpec, Spec, MenuSpec

=============================================================================
