------------------------------ MODULE VenueList ------------------------------
(***************************************************************************)
(* A client walks the list of venues while their shifts open and close:    *)
(* usecase/catalog Service.Venues over VenueRepo.ListVenues.  The client   *)
(* chooses one of three orders; the cursor says which one it was issued    *)
(* for, and is refused with another.  The filter is not in the cursor: the *)
(* client repeats it with every page and may change it on the way.         *)
(*                                                                         *)
(* Grain.  A page is one SELECT; the cuisines of its venues, read after it, *)
(* never change, and neither do the names and the numbers venues are       *)
(* ordered by.  Search and cuisine filters are "asked for", a set of       *)
(* venues; open_now is kept apart because shifts change under it.          *)
(***************************************************************************)
EXTENDS Integers, Sequences, FiniteSets
LOCAL INSTANCE SequencesExt

CONSTANTS
  Venues,  \* ids of the active venues
  Ranks,   \* what a venue's name, fee or cooking time may be
  Limits   \* page sizes clients ask for

VARIABLES
  rank,      \* name, delivery_fee and avg_cook_minutes of each venue
  open,      \* venues.is_open
  openNow,   \* whether the client asks for open venues only
  askedFor,  \* venues its search and its cuisine let through
  sort,      \* the order this walk was begun in
  cursor,    \* next_cursor of the last page
  shown,     \* history variable: how often each venue has been shown in this walk
  standing   \* history variable: venues that have matched since the walk began

vars == <<rank, open, openNow, askedFor, sort, cursor, shown, standing>>

Sorts == {"name", "delivery_fee", "avg_cook_minutes"}
Start == [at |-> "start", sort |-> "name", key |-> 0, id |-> 0]
End == [at |-> "end", sort |-> "name", key |-> 0, id |-> 0]

Matching(filter, among, shifts) == {v \in among : filter => v \in shifts}

Init ==
  /\ rank \in [Sorts -> [Venues -> Ranks]]
  /\ open = Venues
  /\ openNow \in BOOLEAN
  /\ askedFor = Venues
  /\ sort \in Sorts
  /\ cursor = Start
  /\ shown = [v \in Venues |-> 0]
  /\ standing = Venues

\* The venue opens or closes its shift.
SetShift(v) ==
  /\ open' = IF v \in open THEN open \ {v} ELSE open \union {v}
  /\ standing' = standing \intersect Matching(openNow, askedFor, open')
  /\ UNCHANGED <<rank, openNow, askedFor, sort, cursor, shown>>

\* The client asks for its next page with another filter.
ChangeFilter ==
  /\ openNow' \in BOOLEAN
  /\ askedFor' \in SUBSET Venues
  /\ standing' = standing \intersect Matching(openNow', askedFor', open)
  /\ UNCHANGED <<rank, open, sort, cursor, shown>>

\* The client starts again from the first page, in an order of its choice.
BeginWalk ==
  /\ sort' \in Sorts
  /\ cursor' = Start
  /\ shown' = [v \in Venues |-> 0]
  /\ standing' = Matching(openNow, askedFor, open)
  /\ UNCHANGED <<rank, open, openNow, askedFor>>

PositionOf(v, s) == [at |-> "row", sort |-> s, key |-> rank[s][v], id |-> v]

\* (key, id) > the cursor
Follows(v, s, at) == rank[s][v] > at.key \/ (rank[s][v] = at.key /\ v > at.id)

\* WHERE ... ORDER BY key, id LIMIT n
ListVenues(s, after, n) ==
  LET rows == {v \in Matching(openNow, askedFor, open) :
                 after # Start => Follows(v, s, after)}
      sorted == SetToSortSeq(rows, LAMBDA v, w : Follows(w, s, PositionOf(v, s)))
  IN SubSeq(sorted, 1, IF Len(sorted) < n THEN Len(sorted) ELSE n)

\* decodeCursor: a cursor belongs to one order.
Belongs(at, s) == IF at = Start THEN s = sort ELSE at.sort = s

\* A page in the order s; one more row than its limit is read.
Page(s, n) ==
  LET rows == ListVenues(s, cursor, n + 1)
      page == SubSeq(rows, 1, IF Len(rows) > n THEN n ELSE Len(rows))
  IN
  /\ cursor # End
  /\ Belongs(cursor, s)
  /\ cursor' = IF Len(rows) > n THEN PositionOf(page[n], s) ELSE End
  /\ shown' = [v \in Venues |-> IF v \in ToSet(page) THEN shown[v] + 1 ELSE shown[v]]
  /\ UNCHANGED <<rank, open, openNow, askedFor, sort, standing>>

Next ==
  \/ \E v \in Venues : SetShift(v)
  \/ ChangeFilter
  \/ BeginWalk
  \/ \E s \in Sorts, n \in Limits : Page(s, n)

Spec == Init /\ [][Next]_vars

----------------------------------------------------------------------------

Paged == INSTANCE Paging WITH
  Rows <- Venues,
  table <- Venues,
  key <- rank[sort],
  matching <- Matching(openNow, askedFor, open),
  cursor <- [at |-> cursor.at, key |-> cursor.key, id |-> cursor.id],
  times <- shown

=============================================================================
