------------------------------- MODULE Paging -------------------------------
(***************************************************************************)
(* A list read page by page while its table changes: the orders of a       *)
(* customer (usecase/order Service.Orders over OrderRepo.List, newest      *)
(* first) and the venues (usecase/catalog Service.Venues over              *)
(* VenueRepo.ListVenues).  Both order the rows by a key and then by id and *)
(* hand the client a cursor, the key and the id of the last row it was     *)
(* shown; the server keeps nothing of a walk.                              *)
(*                                                                         *)
(* Grain.  A page is one SELECT.  What the rest of the system does between *)
(* two pages is Change: rows come, anywhere in the order, and rows start   *)
(* and stop matching the filter of the walk.  A newest-first list has its  *)
(* creation times negated as keys.  The limit may be another for each page.*)
(***************************************************************************)
EXTENDS Integers, FiniteSets

CONSTANTS
  Rows,    \* ids of all rows there may ever be
  Limits   \* page sizes clients ask for

\* What the theorems of PagingProofs assume.
PagingAssumption ==
  /\ Rows \subseteq Int /\ IsFiniteSet(Rows)
  /\ Limits \subseteq Nat \ {0}

VARIABLES
  table,     \* rows that are there; none is ever deleted
  key,       \* what each of them is ordered by
  matching,  \* rows the filter of the walk lets through
  cursor,    \* what the client has been handed with the last page
  times,     \* history variable: how often each row has been shown in this walk
  standing   \* history variable: rows that have matched since the walk began

tableVars == <<table, key, matching>>
walkVars == <<cursor, times, standing>>
vars == <<tableVars, walkVars>>

Start == [at |-> "start", key |-> 0, id |-> 0]   \* no cursor: the first page
End == [at |-> "end", key |-> 0, id |-> 0]       \* no cursor with the last page
PositionOf(r) == [at |-> "row", key |-> key[r], id |-> r]
Cursors == [at : {"start", "row", "end"}, key : Int, id : Int]

TypeOK ==
  /\ table \subseteq Rows
  /\ key \in [Rows -> Int]
  /\ matching \subseteq table
  /\ cursor \in Cursors
  /\ times \in [Rows -> Nat]
  /\ standing \subseteq matching

\* A walk begins with whatever is in the table.
Init ==
  /\ table \subseteq Rows
  /\ key \in [Rows -> Int]
  /\ matching \subseteq table
  /\ cursor = Start
  /\ times = [r \in Rows |-> 0]
  /\ standing = matching

----------------------------------------------------------------------------

\* ORDER BY key, id
Before(q, r) == key[q] < key[r] \/ (key[q] = key[r] /\ q < r)

\* WHERE (key, id) > cursor
Past(c, r) ==
  \/ c.at = "start"
  \/ /\ c.at = "row"
     /\ c.key < key[r] \/ (c.key = key[r] /\ c.id < r)

\* LIMIT n
First(n, S) == {r \in S : Cardinality({q \in S : Before(q, r)}) < n}

Left == {r \in matching : Past(cursor, r)}

\* One row more than asked for tells whether there is another page.
Fetched(n) == First(n + 1, Left)
Page(n) == First(n, Fetched(n))
More(n) == Cardinality(Fetched(n)) > n

TurnPage(n) ==
  /\ cursor.at # "end"
  /\ cursor' \in IF More(n)
                 THEN {PositionOf(r) : r \in {q \in Page(n) : \A p \in Page(n) : ~Before(q, p)}}
                 ELSE {End}
  /\ times' = [r \in Rows |-> IF r \in Page(n) THEN times[r] + 1 ELSE times[r]]
  /\ UNCHANGED <<tableVars, standing>>

\* A new walk may ask for other rows, and for another order of them.
Begin ==
  /\ table \subseteq table' /\ table' \subseteq Rows
  /\ key' \in [Rows -> Int]
  /\ matching' \subseteq table'
  /\ cursor' = Start
  /\ times' = [r \in Rows |-> 0]
  /\ standing' = matching'

\* A row keeps its place for good.
Change ==
  /\ table \subseteq table' /\ table' \subseteq Rows
  /\ key' \in [Rows -> Int]
  /\ \A r \in table : key'[r] = key[r]
  /\ matching' \subseteq table'
  /\ standing' = standing \intersect matching'
  /\ UNCHANGED <<cursor, times>>

Next == Change \/ Begin \/ \E n \in Limits : TurnPage(n)

Spec == Init /\ [][Next]_vars

----------------------------------------------------------------------------
(* Properties *)

\* However the table changes and however the pages are cut, a walk shows no row
\* twice, and a row that has matched all along is either shown already or still
\* to come: after the last page none of them is missing.
WalkShowsEachRowOnce ==
  /\ \A r \in Rows : times[r] <= 1
  /\ \A r \in standing : times[r] = 0 => Past(cursor, r)

=============================================================================
