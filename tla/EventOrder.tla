------------------------------ MODULE EventOrder ------------------------------
(***************************************************************************)
(* What the platform promises about the events of an order: each one takes *)
(* effect at the venue once, and the events of one order do so in the order*)
(* in which its changes were committed.  Nothing is promised between two   *)
(* orders.                                                                 *)
(***************************************************************************)
EXTENDS Naturals, Sequences

CONSTANTS Aggregates, Events

VARIABLES
  written,  \* the events of each aggregate, as they were committed
  done      \* those of them that have taken effect, as they did

eventVars == <<written, done>>

EventInit ==
  /\ written = [a \in Aggregates |-> <<>>]
  /\ done = [a \in Aggregates |-> <<>>]

Write(a, e) ==
  /\ written' = [written EXCEPT ![a] = Append(@, e)]
  /\ UNCHANGED done

TakeEffect(a) ==
  /\ Len(done[a]) < Len(written[a])
  /\ done' = [done EXCEPT ![a] = Append(@, written[a][Len(@) + 1])]
  /\ UNCHANGED written

EventNext ==
  \E a \in Aggregates :
    \/ \E e \in Events : Write(a, e)
    \/ TakeEffect(a)

EventSpec == EventInit /\ [][EventNext]_eventVars

=============================================================================
