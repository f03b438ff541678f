----------------------------- MODULE Idempotency -----------------------------
(***************************************************************************)
(* The guard of POST /orders: platform/idempotency over IdempotencyRepo,   *)
(* and the job that collects expired keys.  The attempts are the requests a*)
(* customer sends under ONE key; keys do not meet, since the customer and  *)
(* the key are the primary key of the table.  The operation guarded is an  *)
(* order placed in the transaction of its attempt, or a refusal.           *)
(*                                                                         *)
(* Grain.  An attempt is one transaction: the INSERT that claims the key,  *)
(* the SELECT after a conflict, the handler, and the commit together with  *)
(* the answer (Complete) are its steps.  An uncommitted claim is seen by   *)
(* nobody but the INSERTs of others, which wait for it to end.             *)
(***************************************************************************)
EXTENDS Naturals, FiniteSets

CONSTANTS
  Attempts,   \* requests sent under the key
  Requests,   \* what a request asks for: its operation and its fingerprint
  Nobody,     \* not an attempt
  MaxLives    \* bound: how often an answer of the key has expired

ASSUME IdempotencyAssumption == Nobody \notin Attempts /\ MaxLives \in Nat

VARIABLES
  phase,     \* where an attempt is
  asked,     \* what it asks for
  reply,     \* the answer of an attempt that has been answered
  claim,     \* whose uncommitted row holds the key
  stored,    \* the committed row of the key
  lives,     \* answers of the key that have expired
  placed,    \* the orders: in which life of the key an attempt has placed one
  unguarded  \* history variable: attempts carried out without a claim

vars == <<phase, asked, reply, claim, stored, lives, placed, unguarded>>

NoRow == [answer |-> Nobody]
NoReply == [kind |-> "none"]
Created(a) == [kind |-> "created", order |-> a]
Replayed(a) == [kind |-> "replayed", order |-> a]
Refusals == [kind : {"failed", "reuse", "in_flight"}]

Rows == {NoRow} \union
  [answer : Attempts \union {Nobody}, request : Requests, fresh : BOOLEAN]
Replies == {NoReply} \union Refusals \union
  [kind : {"created", "replayed"}, order : Attempts]

TypeOK ==
  /\ phase \in [Attempts -> {"new", "sent", "conflicted", "running", "answered"}]
  /\ asked \in [Attempts -> Requests]
  /\ reply \in [Attempts -> Replies]
  /\ claim \in Attempts \union {Nobody}
  /\ stored \in Rows
  /\ lives \in 0..MaxLives
  /\ placed \in [Attempts -> 0..(MaxLives + 1)]
  /\ unguarded \in SUBSET Attempts

Init ==
  /\ phase = [a \in Attempts |-> "new"]
  /\ asked \in [Attempts -> Requests]
  /\ reply = [a \in Attempts |-> NoReply]
  /\ claim = Nobody
  /\ stored = NoRow
  /\ lives = 0
  /\ placed = [a \in Attempts |-> 0]
  /\ unguarded = {}

----------------------------------------------------------------------------

\* A customer who has not heard, or does not care, sends the key again.
Send(a) ==
  /\ phase[a] = "new"
  /\ phase' = [phase EXCEPT ![a] = "sent"]
  /\ UNCHANGED <<asked, reply, claim, stored, lives, placed, unguarded>>

Answer(a, answer) ==
  /\ phase' = [phase EXCEPT ![a] = "answered"]
  /\ reply' = [reply EXCEPT ![a] = answer]

Release(a) == claim' = IF claim = a THEN Nobody ELSE claim

\* Mutant: the claim does not wait for the one in progress.
ReserveUnseen(a) ==
  /\ phase[a] = "sent"
  /\ IF stored = NoRow
     THEN claim' = a /\ phase' = [phase EXCEPT ![a] = "running"]
     ELSE phase' = [phase EXCEPT ![a] = "conflicted"] /\ UNCHANGED claim
  /\ UNCHANGED <<asked, reply, stored, lives, placed, unguarded>>

\* The INSERT of Reserve: it waits for a claim in progress, claims a free key
\* and leaves a row that is there alone.
Reserve(a) ==
  /\ phase[a] = "sent"
  /\ claim = Nobody
  /\ IF stored = NoRow
     THEN claim' = a /\ phase' = [phase EXCEPT ![a] = "running"]
     ELSE phase' = [phase EXCEPT ![a] = "conflicted"] /\ UNCHANGED claim
  /\ UNCHANGED <<asked, reply, stored, lives, placed, unguarded>>

\* Mutant: the key alone decides.
ReplayableByKey(a) ==
  IF stored.answer = Nobody THEN [kind |-> "in_flight"] ELSE Replayed(stored.answer)

\* What a stored attempt answers a repeated one.
Replayable(a) ==
  IF stored.request # asked[a] THEN [kind |-> "reuse"]
  ELSE IF stored.answer = Nobody THEN [kind |-> "in_flight"]
  ELSE Replayed(stored.answer)

\* The SELECT of Reserve, a statement later.  A row that has been collected in
\* between sends the attempt to the handler without a claim.
Get(a) ==
  /\ phase[a] = "conflicted"
  /\ IF stored = NoRow
     THEN /\ phase' = [phase EXCEPT ![a] = "running"]
          /\ unguarded' = unguarded \union {a}
          /\ UNCHANGED reply
     ELSE Answer(a, Replayable(a)) /\ UNCHANGED unguarded
  /\ UNCHANGED <<asked, claim, stored, lives, placed>>

\* Mutant: the claim outlives the transaction of an attempt that failed.
FailKeepsTheClaim(a) ==
  /\ phase[a] \in {"sent", "conflicted", "running"}
  /\ Answer(a, [kind |-> "failed"])
  /\ UNCHANGED <<asked, claim, stored, lives, placed, unguarded>>

\* The handler refuses, a statement fails or the process dies: the transaction
\* is rolled back and the claim with it.
Fail(a) ==
  /\ phase[a] \in {"sent", "conflicted", "running"}
  /\ Answer(a, [kind |-> "failed"])
  /\ Release(a)
  /\ UNCHANGED <<asked, stored, lives, placed, unguarded>>

\* Mutant: the UPDATE of Complete is taken for one that inserts.
CompletedAnyway(a) ==
  IF claim = a THEN [answer |-> a, request |-> asked[a], fresh |-> TRUE]
  ELSE [stored EXCEPT !.answer = a]

\* Complete: the answer goes into the row of the key, whosever it is; where
\* there is no committed row and no claim it goes nowhere.
Completed(a) ==
  IF claim = a THEN [answer |-> a, request |-> asked[a], fresh |-> TRUE]
  ELSE IF stored = NoRow THEN NoRow
  ELSE [stored EXCEPT !.answer = a]

\* The order, the answer and the claim are committed together.  The customer
\* may still be told of a failure, when the commit is not acknowledged.
Commit(a) ==
  /\ phase[a] = "running"
  /\ stored' = Completed(a)
  /\ Release(a)
  /\ placed' = [placed EXCEPT ![a] = lives + 1]
  /\ \E answer \in {Created(a), [kind |-> "failed"]} : Answer(a, answer)
  /\ UNCHANGED <<asked, lives, unguarded>>

----------------------------------------------------------------------------
(* Time and the collector. *)

\* The answer is not kept for ever.
Expire ==
  /\ stored # NoRow
  /\ stored.fresh
  /\ lives < MaxLives
  /\ lives' = lives + 1
  /\ stored' = [stored EXCEPT !.fresh = FALSE]
  /\ UNCHANGED <<phase, asked, reply, claim, placed, unguarded>>

\* Mutant: the collector does not look at the time.
DeleteAny ==
  /\ stored # NoRow
  /\ stored' = NoRow
  /\ UNCHANGED <<phase, asked, reply, claim, lives, placed, unguarded>>

DeleteExpired ==
  /\ stored # NoRow
  /\ ~stored.fresh
  /\ stored' = NoRow
  /\ UNCHANGED <<phase, asked, reply, claim, lives, placed, unguarded>>

----------------------------------------------------------------------------

Next ==
  \/ \E a \in Attempts :
       \/ Send(a)
       \/ Reserve(a)
       \/ Get(a)
       \/ Fail(a)
       \/ Commit(a)
  \/ Expire
  \/ DeleteExpired

Spec == Init /\ [][Next]_vars

\* The server works on the attempts it has received, on one or another of them;
\* the claim in the way of some, which an attempt holds until its commit or its
\* failure, goes away in the end.
Fairness == WF_vars(\E a \in Attempts : Reserve(a) \/ Get(a) \/ Commit(a))

FairSpec == Spec /\ Fairness

----------------------------------------------------------------------------
(* Properties *)

Orders == {a \in Attempts : placed[a] > 0}

\* However often and however concurrently a request is sent, and whatever fails
\* in between, the attempts that hold the key place one order between them for
\* as long as its answer is kept.
OneOrderPerKey ==
  \A a, b \in Orders \ unguarded : a # b => placed[a] # placed[b]

\* An order and the answer to its repeats come and go together: the row of the
\* key is there until the answer expires, it is fresh, and it is the row of
\* what that order was asked for.
OrderIsRemembered ==
  \A a \in Orders \ unguarded :
    placed[a] = lives + 1 =>
      stored # NoRow /\ stored.fresh /\ stored.request = asked[a]

\* A customer is told of an order only if it exists and is what they asked for,
\* be it created or replayed, and no repeat is ever turned away for an attempt
\* still in progress: it waits for that attempt.  An answer written by an
\* attempt without a claim is the one exception.
AnswersAreTrue ==
  \A a \in Attempts :
    /\ reply[a].kind # "in_flight"
    /\ reply[a].kind \in {"created", "replayed"} =>
         /\ reply[a].order \in Orders
         /\ asked[reply[a].order] = asked[a] \/ reply[a].order \in unguarded

\* A claim is never left behind: every attempt is answered, after whichever
\* attempts fail before it.
EveryAttemptIsAnswered ==
  \A a \in Attempts : []<>(phase[a] \in {"new", "answered"})

=============================================================================
