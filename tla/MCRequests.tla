----------------------------- MODULE MCRequests -----------------------------
(***************************************************************************)
(* Instances of Checkout, Idempotency and Api for TLC: what the client of a*)
(* request may rely on, told one "story" after the other.                  *)
(*   checkout  a customer fills, checks and orders a cart while the venue  *)
(*             changes; the story ends with the order, as the menu it      *)
(*             leaves is one to begin with                                 *)
(*   key       an order is asked for again and again under one key         *)
(*   calls     one process answers calls, stops and starts again           *)
(***************************************************************************)
EXTENDS Idempotency, Checkout, Api

CONSTANT Stories  \* which of them to tell

VARIABLE story

mcVars == <<vars, checkoutVars, apiVars, story>>

OneMenuItem == CHOOSE m \in Item : m.available
OneRequest == CHOOSE r \in Requests : TRUE

CheckoutStep ==
  /\ story = "checkout"
  /\ order = NoOrder
  /\ CheckoutNext

\* Attempts are alike: they are sent in a fixed order.
Turn == CHOOSE turn \in [Attempts -> 1..Cardinality(Attempts)] :
          \A a, b \in Attempts : turn[a] = turn[b] => a = b
ByTurns ==
  \A a, b \in Attempts : Turn[a] < Turn[b] /\ phase'[a] = "new" => phase'[b] = "new"

KeyStep ==
  /\ story = "key"
  /\ Next
  /\ ByTurns

CallsStep ==
  /\ story = "calls"
  /\ ApiNext

MCNext ==
  /\ \/ CheckoutStep /\ UNCHANGED <<vars, apiVars>>
     \/ KeyStep /\ UNCHANGED <<checkoutVars, apiVars>>
     \/ CallsStep /\ UNCHANGED <<vars, checkoutVars>>
  /\ UNCHANGED story

\* A process that could not start: nothing is owed to anybody.
NoProcess ==
  /\ main = "down" /\ exit = "1"
  /\ signalled = FALSE /\ background = FALSE
  /\ calls = [s \in Slots |-> NoCall]

\* What is not told of has one beginning, at which nothing has to happen.
MCInit ==
  /\ story \in Stories
  /\ Init /\ CheckoutInit
  /\ IF story = "calls" THEN ApiInit ELSE NoProcess
  /\ story # "key" => \A a \in Attempts : asked[a] = OneRequest
  /\ story # "checkout" => \A i \in Items : menu[i] = OneMenuItem

MCSpec == MCInit /\ [][MCNext]_mcVars
FairMCSpec == MCSpec /\ Fairness /\ ApiFairness

----------------------------------------------------------------------------

\* The types of the guard of a key and of a checkout.
MCTypeOK == TypeOK /\ CheckoutTypeOK

=============================================================================
