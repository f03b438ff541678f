------------------------------ MODULE OrderList ------------------------------
(***************************************************************************)
(* A customer walks the list of their orders while orders are placed and   *)
(* moved: usecase/order Service.Orders over OrderRepo.List.                *)
(*                                                                         *)
(* Grain.  A page is one SELECT over what is committed.  created_at is     *)
(* now(), the beginning of the transaction that places the order, so an    *)
(* order may appear in the list behind orders that were placed before it,  *)
(* and two orders may carry the same time.  The id that breaks the tie is  *)
(* random.  Times are counted in orders placed.                            *)
(***************************************************************************)
EXTENDS Orders, SequencesExt

CONSTANTS
  Reader,  \* the customer who walks the list
  Wanted,  \* the statuses they ask for; none of them asks for all
  Limits   \* page sizes they ask for

ASSUME OrderListAssumption ==
  /\ Reader \in Users
  /\ Wanted \subseteq Statuses
  /\ Limits \subseteq Nat \ {0}

VARIABLES
  born,     \* orders.created_at
  idOf,     \* orders.id
  cursor,   \* next_cursor of the last page
  shown,    \* history variable: how often each order has been shown in this walk
  standing  \* history variable: orders that have matched since the walk began

rowVars == <<born, idOf>>
walkVars == <<cursor, shown>>
listVars == <<rowVars, walkVars, standing>>

Start == [at |-> "start", born |-> 0, id |-> 0]   \* no cursor: the first page
End == [at |-> "end", born |-> 0, id |-> 0]       \* no cursor with the last page

ListInit ==
  /\ born = [o \in OrderIds |-> 0]
  /\ idOf = [o \in OrderIds |-> 0]
  /\ cursor = Start
  /\ shown = [o \in OrderIds |-> 0]
  /\ standing = {}

\* buildFilter: the customer's own orders, in one of the statuses asked for.
Matching ==
  {o \in 1..placed : owner[o] = Reader /\ (Wanted # {} => status[o] \in Wanted)}

\* (created_at, id) < the cursor
Older(o, at) == born[o] < at.born \/ (born[o] = at.born /\ idOf[o] < at.id)

PositionOf(o) == [at |-> "row", born |-> born[o], id |-> idOf[o]]

\* ORDER BY created_at DESC, id DESC LIMIT n
List(after, n) ==
  LET rows == {o \in Matching : after # Start => Older(o, after)}
      sorted == SetToSortSeq(rows, LAMBDA o, p : Older(p, PositionOf(o)))
  IN SubSeq(sorted, 1, IF Len(sorted) < n THEN Len(sorted) ELSE n)

\* Mutant: the cursor is made of the row that was read only to be counted.
NextCursorOfTheRowBeyond(rows, n) ==
  IF Len(rows) > n THEN PositionOf(rows[n + 1]) ELSE End

NextCursor(rows, n) ==
  IF Len(rows) > n THEN PositionOf(rows[n]) ELSE End

ReadPage(n) ==
  LET rows == List(cursor, n + 1)
      page == SubSeq(rows, 1, IF Len(rows) > n THEN n ELSE Len(rows))
  IN
  /\ cursor # End
  /\ cursor' = NextCursor(rows, n)
  /\ shown' = [o \in OrderIds |-> IF o \in ToSet(page) THEN shown[o] + 1 ELSE shown[o]]
  /\ UNCHANGED <<rowVars, standing>>
  /\ UNCHANGED vars

\* The client starts again from the first page.
BeginWalk ==
  /\ cursor' = Start
  /\ shown' = [o \in OrderIds |-> 0]
  /\ standing' = Matching
  /\ UNCHANGED rowVars
  /\ UNCHANGED vars

\* What the rest of the system does to the list: a new order brings a time and
\* an id, and every step may change what matches.
Stamped(o) ==
  /\ \E t \in 1..o : born' = [born EXCEPT ![o] = t]
  /\ \E id \in OrderIds \ {idOf[p] : p \in 1..(o - 1)} : idOf' = [idOf EXCEPT ![o] = id]

Around ==
  /\ IF placed' > placed THEN Stamped(placed') ELSE UNCHANGED rowVars
  /\ standing' = standing \intersect Matching'
  /\ UNCHANGED walkVars

----------------------------------------------------------------------------
(* The list is walked as Paging says: an order is the row of its id, and the *)
(* newest comes first.                                                     *)

OrderOf(row) == CHOOSE o \in OrderIds : idOf[o] = -row
RowsOf(S) == {-idOf[o] : o \in S}
Placed == {o \in 1..placed : owner[o] = Reader}

ListPaging == INSTANCE Paging WITH
  Rows <- {-o : o \in OrderIds},
  table <- RowsOf(Placed),
  key <- [row \in {-o : o \in OrderIds} |->
            IF row \in RowsOf(Placed) THEN -born[OrderOf(row)] ELSE 0],
  matching <- RowsOf(Matching),
  cursor <- [at |-> cursor.at, key |-> -cursor.born, id |-> -cursor.id],
  times <- [row \in {-o : o \in OrderIds} |->
              IF row \in RowsOf(Placed) THEN shown[OrderOf(row)] ELSE 0],
  standing <- RowsOf(standing)

=============================================================================
