------------------------------- MODULE MCRows -------------------------------
(***************************************************************************)
(* Instances of Cart and of MenuSync for TLC: requests that meet at the    *)
(* rows of the database, told one "story" after the other.                 *)
(*   cart   a customer fills, empties and orders one cart                  *)
(*   menu   a venue uploads and patches its menu while it is ordered from  *)
(***************************************************************************)
EXTENDS Cart, MenuSync

CONSTANT Stories  \* which of them to tell

VARIABLE story

mcVars == <<vars, menuVars, story>>

Offered(i) == [id |-> i, available |-> TRUE]
SoldOut(i) == [id |-> i, available |-> FALSE]
Category(c, items) == [id |-> c, items |-> items]

\* Menus with and without a category in common; items in either order, in
\* another category, on and off sale; the last one is refused.
MCUploads ==
  {<<>>,
   <<Category("c1", <<Offered("i1")>>)>>,
   <<Category("c2", <<SoldOut("i1"), Offered("i2")>>)>>,
   <<Category("c1", <<Offered("i2")>>), Category("c2", <<Offered("i1")>>)>>,
   <<Category("c2", <<Offered("i1")>>), Category("c1", <<Offered("i2")>>)>>,
   <<Category("c1", <<Offered("i1")>>), Category("c2", <<Offered("i1")>>)>>}

MCInit ==
  /\ Init
  /\ MenuInit
  /\ story \in Stories
  /\ story = "cart" => last = <<>>

MCNext ==
  /\ \/ story = "cart" /\ Next /\ UNCHANGED menuVars
     \/ story = "menu" /\ MenuNext /\ UNCHANGED vars
  /\ UNCHANGED story

MCSpec == MCInit /\ [][MCNext]_mcVars
FairMCSpec == MCSpec /\ Fairness /\ MenuFairness

----------------------------------------------------------------------------

\* The types of both stories.
MCTypeOK == TypeOK /\ MenuTypeOK

\* Nobody waits for a row for ever: placements and removals take the rows of a
\* cart and of its items in opposite orders, uploads, patches and orders those of
\* a menu in orders that have nothing to do with each other.
NobodyWaitsForEver ==
  /\ \A r \in Requests : req[r] # Idle ~> req[r] = Idle
  /\ \A r \in MenuRequests : tx[r] # NoTx ~> tx[r] = NoTx

=============================================================================
