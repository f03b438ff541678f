------------------------------- MODULE MenuSync -------------------------------
(***************************************************************************)
(* The menu of one venue while its own systems upload it whole, patch it   *)
(* item by item, and customers order from it: MenuRepo.SyncMenu, PatchItem *)
(* and ReserveStock, all at once.                                          *)
(*                                                                         *)
(* Grain.  PostgreSQL runs at READ COMMITTED.  A step is one row that a    *)
(* statement writes, or the moment a statement looks at the menu to find   *)
(* its rows.  A row that a transaction has written is seen by nobody else  *)
(* before the commit and may be written by nobody else: they wait, and then*)
(* look at the row again before they write it.  Transactions that wait for *)
(* each other are found out and one of them is rolled back.                *)
(*                                                                         *)
(* Of an item the model keeps its category, its place in it and whether it *)
(* is on sale; names, prices and counts are written together with these    *)
(* (what becomes of the counts is in Orders).                              *)
(***************************************************************************)
EXTENDS Naturals, FiniteSets, SequencesExt

CONSTANTS
  Categories,      \* external_id of the categories a venue may upload
  MenuItems,       \* external_id of the items
  Uploads,         \* the uploads it sends: sequences of [id, items], items [id, available]
  MenuRequests,    \* requests about the menu handled at one time
  MaxBegun         \* bound: requests begun

\* What a venue may upload.  Categories and items are rows of two tables: no
\* key stands for one of each.
UploadShape == Seq([id : Categories, items : Seq([id : MenuItems, available : BOOLEAN])])

ASSUME MenuAssumption ==
  /\ IsFiniteSet(Categories) /\ IsFiniteSet(MenuItems)
  /\ Categories \intersect MenuItems = {}
  /\ Uploads \subseteq UploadShape

VARIABLES
  menu,     \* menu_categories and menu_items, as committed
  tx,       \* where each request is, and what it has written
  begun,    \* requests begun so far
  last,     \* history variable: the upload committed last
  apart,    \* history variable: it met another with which it shares no category
  patched   \* history variable: items patched since it looked for the missing ones

menuVars == <<menu, tx, begun, last, apart, patched>>

NoRow == [position |-> 0]
NoRows == [k \in {} |-> NoRow]
Keys == Categories \union MenuItems

CategoryRow == [position : 1..Cardinality(Categories)]
ItemRow == [category : Categories, position : 1..Cardinality(MenuItems), available : BOOLEAN]

----------------------------------------------------------------------------
(* An upload and the rows it becomes: MenuUpload.Normalize. *)

CategoryIds(u) == [ci \in DOMAIN u |-> u[ci].id]
ItemIds(u) == FlattenSeq([ci \in DOMAIN u |-> [ii \in DOMAIN u[ci].items |-> u[ci].items[ii].id]])

\* An identifier appears once in the whole upload.
Valid(u) == IsInjective(CategoryIds(u)) /\ IsInjective(ItemIds(u))

\* The index in an array becomes the position of a row.
CategoryRows(u) == [ci \in DOMAIN u |-> [key |-> u[ci].id, row |-> [position |-> ci]]]

ItemRows(u) ==
  FlattenSeq([ci \in DOMAIN u |->
    [ii \in DOMAIN u[ci].items |->
       [key |-> u[ci].items[ii].id,
        row |-> [category |-> u[ci].id, position |-> ii,
                 available |-> u[ci].items[ii].available]]]])

Mentioned(u) == ToSet(ItemIds(u))
ShareNothing(u, v) == ToSet(CategoryIds(u)) \intersect ToSet(CategoryIds(v)) = {}

----------------------------------------------------------------------------

\* says: the upload; left: rows to upsert yet; todo: items to look at yet;
\* wrote: rows written and not committed; moved: the category a patch joined.
NoTx == [at |-> "idle", says |-> <<>>, left |-> <<>>, todo |-> {}, wrote |-> NoRows,
         created |-> 0, updated |-> 0, off |-> 0, apart |-> FALSE, late |-> {}, joined |-> {}]

Uploading(r) == tx[r].at \in {"upserting", "clearing"}

MenuTypeOK ==
  /\ \A c \in Categories : menu[c] = NoRow \/ menu[c] \in CategoryRow
  /\ \A i \in MenuItems : menu[i] = NoRow \/ menu[i] \in ItemRow
  /\ \A r \in MenuRequests :
       /\ DOMAIN tx[r] = DOMAIN NoTx
       /\ tx[r].at \in {"idle", "upserting", "clearing", "reserving", "patching"}
       /\ DOMAIN tx[r].wrote \subseteq Keys
  /\ last \in Uploads \union {<<>>}
  /\ apart \in BOOLEAN
  /\ patched \subseteq MenuItems

\* The rows of an upload that meets nothing.
RowsOf(u) ==
  [k \in Keys |->
     IF \E w \in ToSet(CategoryRows(u) \o ItemRows(u)) : w.key = k
     THEN (CHOOSE w \in ToSet(CategoryRows(u) \o ItemRows(u)) : w.key = k).row
     ELSE NoRow]

\* The venue has uploaded its first menu; an empty one leaves it without any.
MenuInit ==
  /\ last \in {u \in Uploads : Valid(u)}
  /\ menu = RowsOf(last)
  /\ tx = [r \in MenuRequests |-> NoTx]
  /\ begun = 0
  /\ apart = FALSE
  /\ patched = {}

OnSale(i) == menu[i] # NoRow /\ menu[i].available

Held(r) == DOMAIN tx[r].wrote
Free(r, k) == \A q \in MenuRequests \ {r} : k \notin Held(q)

\* Rows a statement writes next, in any order that does not come from the code.
NextRows(r) == IF tx[r].left # <<>> THEN {Head(tx[r].left).key} ELSE tx[r].todo

Wrote(r, k, row) == [j \in Held(r) \union {k} |-> IF j = k THEN row ELSE tx[r].wrote[j]]

\* A request comes in.
BeginTx(r) ==
  /\ tx[r] = NoTx
  /\ begun < MaxBegun
  /\ begun' = begun + 1
  /\ UNCHANGED <<menu, last, apart, patched>>

EndTx(r) == tx' = [tx EXCEPT ![r] = NoTx] /\ UNCHANGED begun

----------------------------------------------------------------------------
(* A full upload: MenuRepo.SyncMenu. *)

Upload(r, u) ==
  /\ BeginTx(r)
  /\ Valid(u)
  /\ LET met == {q \in MenuRequests : Uploading(q) /\ ShareNothing(u, tx[q].says)}
     IN  tx' = [q \in MenuRequests |->
           IF q = r
           THEN [NoTx EXCEPT !.at = "upserting", !.says = u,
                             !.left = CategoryRows(u) \o ItemRows(u), !.apart = met # {}]
           ELSE [tx[q] EXCEPT !.apart = @ \/ q \in met]]

\* One row of upsertCategories or upsertItems; xmax = 0 tells a new item.
Upsert(r) ==
  /\ tx[r].left # <<>>
  /\ LET k == Head(tx[r].left).key
         new == k \in MenuItems /\ menu[k] = NoRow
         old == k \in MenuItems /\ menu[k] # NoRow
     IN  /\ Free(r, k)
         /\ tx' = [tx EXCEPT
              ![r].left = Tail(@),
              ![r].wrote = Wrote(r, k, Head(tx[r].left).row),
              ![r].created = @ + (IF new THEN 1 ELSE 0),
              ![r].updated = @ + (IF old THEN 1 ELSE 0)]
  /\ UNCHANGED <<menu, begun, last, apart, patched>>

\* Mutant: only the categories of the upload are cleared.
MissingFromItsCategories(u) ==
  {i \in MenuItems \ Mentioned(u) : OnSale(i) /\ menu[i].category \in ToSet(CategoryIds(u))}

\* What deactivateMissingItems finds: items on sale in the menu as committed.
Missing(u) == {i \in MenuItems \ Mentioned(u) : OnSale(i)}

LookForMissing(r) ==
  /\ tx[r].at = "upserting"
  /\ tx[r].left = <<>>
  /\ tx' = [tx EXCEPT ![r].at = "clearing", ![r].todo = Missing(tx[r].says), ![r].late = {}]
  /\ UNCHANGED <<menu, begun, last, apart, patched>>

\* Mutant: every item that was found is counted.
DeactivateFound(r) ==
  /\ tx[r].at = "clearing"
  /\ \E i \in tx[r].todo :
       /\ Free(r, i)
       /\ tx' = [tx EXCEPT
            ![r].todo = @ \ {i},
            ![r].wrote = IF OnSale(i) THEN Wrote(r, i, [menu[i] EXCEPT !.available = FALSE]) ELSE @,
            ![r].off = @ + 1]
  /\ UNCHANGED <<menu, begun, last, apart, patched>>

\* The row is looked at again once it is free: somebody may have taken it off.
Deactivate(r) ==
  /\ tx[r].at = "clearing"
  /\ \E i \in tx[r].todo :
       /\ Free(r, i)
       /\ IF OnSale(i)
          THEN tx' = [tx EXCEPT
                 ![r].todo = @ \ {i},
                 ![r].wrote = Wrote(r, i, [menu[i] EXCEPT !.available = FALSE]),
                 ![r].off = @ + 1]
          ELSE tx' = [tx EXCEPT ![r].todo = @ \ {i}]
  /\ UNCHANGED <<menu, begun, last, apart, patched>>

\* The menu with what a transaction has written to it.
With(r) == [k \in Keys |-> IF k \in Held(r) THEN tx[r].wrote[k] ELSE menu[k]]

CommitUpload(r) ==
  /\ tx[r].at = "clearing"
  /\ tx[r].todo = {}
  /\ menu' = With(r)
  /\ last' = tx[r].says
  /\ apart' = tx[r].apart
  /\ patched' = tx[r].late
  /\ EndTx(r)

----------------------------------------------------------------------------
(* A patch of one item: MenuRepo.PatchItem. *)

\* The item is found by joining it to its category; one the venue does not have
\* is not found, and nothing happens.
Patch(r, i) ==
  /\ BeginTx(r)
  /\ menu[i] # NoRow
  /\ tx' = [tx EXCEPT ![r] = [NoTx EXCEPT !.at = "patching", !.todo = {i},
                                            !.joined = {menu[i].category}]]

\* A row that has changed since is joined to the same category again: a patch
\* whose item an upload has moved in the meantime does not find it any more.
ApplyPatch(r) ==
  /\ tx[r].at = "patching"
  /\ \E i \in tx[r].todo :
       /\ Free(r, i)
       /\ IF menu[i].category \in tx[r].joined
          THEN /\ \E a \in BOOLEAN : menu' = [menu EXCEPT ![i].available = a]
               /\ patched' = patched \union {i}
               /\ tx' = [q \in MenuRequests |->
                    IF q = r THEN NoTx
                    ELSE IF tx[q].at = "clearing" THEN [tx[q] EXCEPT !.late = @ \union {i}]
                    ELSE tx[q]]
          ELSE EndTx(r) /\ UNCHANGED <<menu, patched>>
  /\ UNCHANGED <<begun, last, apart>>

----------------------------------------------------------------------------
(* The rows of an order: MenuRepo.ReserveStock. *)

\* An item that is not on sale refuses the order, and nothing happens.
Reserve(r, items) ==
  /\ BeginTx(r)
  /\ \A i \in items : OnSale(i)
  /\ tx' = [tx EXCEPT ![r] = [NoTx EXCEPT !.at = "reserving", !.todo = items]]

\* An item taken off sale in the meantime refuses the order as well.
TakeItem(r) ==
  /\ tx[r].at = "reserving"
  /\ \E i \in tx[r].todo :
       /\ Free(r, i)
       /\ IF OnSale(i)
          THEN tx' = [tx EXCEPT ![r].todo = @ \ {i}, ![r].wrote = Wrote(r, i, menu[i])]
          ELSE EndTx(r)
  /\ UNCHANGED <<menu, begun, last, apart, patched>>

\* The order is placed, or refused by something else: its rows are free again.
CommitOrder(r) ==
  /\ tx[r].at = "reserving"
  /\ tx[r].todo = {}
  /\ EndTx(r)
  /\ UNCHANGED <<menu, last, apart, patched>>

----------------------------------------------------------------------------

\* Everybody in the set waits for a row that somebody else in it has written.
WaitForEachOther(S) ==
  \A r \in S :
    /\ NextRows(r) # {}
    /\ \A k \in NextRows(r) : \E q \in S \ {r} : k \in Held(q)

\* Mutant: the transaction that was rolled back is tried again at once.
TryAgain(r) ==
  /\ \E S \in SUBSET MenuRequests : r \in S /\ WaitForEachOther(S)
  /\ LET u == tx[r].says
     IN  tx' = [tx EXCEPT ![r] =
           IF Uploading(r)
           THEN [NoTx EXCEPT !.at = "upserting", !.says = u,
                             !.left = CategoryRows(u) \o ItemRows(u), !.apart = TRUE]
           ELSE [@ EXCEPT !.todo = @ \union Held(r), !.wrote = NoRows]]
  /\ UNCHANGED <<menu, begun, last, apart, patched>>

\* PostgreSQL rolls one of them back, and InTx does not try it again.
BreakMenuDeadlock(r) ==
  /\ \E S \in SUBSET MenuRequests : r \in S /\ WaitForEachOther(S)
  /\ EndTx(r)
  /\ UNCHANGED <<menu, last, apart, patched>>

\* A statement fails or the client is gone: nothing of it is left.
TxFails(r) ==
  /\ tx[r] # NoTx
  /\ EndTx(r)
  /\ UNCHANGED <<menu, last, apart, patched>>

\* What a request does once it has come in.
Step(r) ==
  \/ Upsert(r)
  \/ LookForMissing(r)
  \/ Deactivate(r)
  \/ CommitUpload(r)
  \/ ApplyPatch(r)
  \/ TakeItem(r)
  \/ CommitOrder(r)
  \/ BreakMenuDeadlock(r)

MenuNext ==
  \E r \in MenuRequests :
    \/ \E u \in Uploads : Upload(r, u)
    \/ \E i \in MenuItems : Patch(r, i)
    \/ \E items \in SUBSET MenuItems \ {{}} : Reserve(r, items)
    \/ Step(r)
    \/ TxFails(r)

MenuSpec == MenuInit /\ [][MenuNext]_menuVars

\* A transaction that has begun goes on; those that wait for a row are served
\* in turn (strong fairness), and a deadlock is found out.
MenuFairness == \A r \in MenuRequests : SF_menuVars(Step(r))

----------------------------------------------------------------------------
(* Properties *)

\* The row an upload gives an item, read off the upload itself.
SaysOf(u, i, row) ==
  \E ci \in DOMAIN u : \E ii \in DOMAIN u[ci].items :
    /\ u[ci].items[ii].id = i
    /\ row = [category |-> u[ci].id, position |-> ii, available |-> u[ci].items[ii].available]

\* The menu is the last upload committed, and what has been patched since: its
\* categories and items are where it puts them and nothing else is on sale,
\* however uploads, patches and orders met, save for an upload that met another
\* with which it shares no category.
MenuIsTheLastUpload ==
  ~apart =>
    /\ \A ci \in DOMAIN last : menu[last[ci].id].position = ci
    /\ \A i \in MenuItems \ patched :
         IF i \in Mentioned(last) THEN SaysOf(last, i, menu[i]) ELSE ~OnSale(i)

\* The counts an upload answers with are what it does to the menu at the moment
\* it is committed, and not what it found when it began.
UploadsTellTheTruth ==
  \A r \in MenuRequests :
    tx[r].at = "clearing" =>
      LET then == With(r)
          was == {i \in MenuItems : menu[i] # NoRow}
      IN  /\ tx[r].created = Cardinality(Mentioned(tx[r].says) \ was)
          /\ tx[r].updated = Cardinality(Mentioned(tx[r].says) \intersect was)
          /\ tx[r].off = Cardinality({i \in was \ Mentioned(tx[r].says) :
                                         menu[i].available /\ ~then[i].available})

=============================================================================
