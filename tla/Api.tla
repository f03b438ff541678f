--------------------------------- MODULE Api ---------------------------------
(***************************************************************************)
(* One kitchen-api process and the calls it serves: how it starts, stops   *)
(* on a signal and dies, how a call waits for a connection of the pool,    *)
(* and what its client is told.  Which operations there are, and what each *)
(* of them may answer, is KitchenContract and PartnerContract.             *)
(*                                                                         *)
(* Grain.  What a request is refused for before it is carried out is one   *)
(* step; carrying it out is one step between taking the connection and     *)
(* giving it back (the other modules look inside), two for an operation    *)
(* the idempotency middleware guards.                                      *)
(***************************************************************************)
EXTENDS KitchenContract, PartnerContract, FiniteSets, FiniteSetsExt

CONSTANTS
  Slots,     \* bound: calls under way at once
  Focused,   \* bound: slots that take only operations of Focus
  Focus,
  MaxConns   \* connections of the pool

VARIABLES
  main,        \* where main is; "stopped": httpx.Serve has returned
  signalled,   \* the context of main is cancelled
  background,  \* the reader of the status topic runs
  exit,        \* what the process is going to end with
  calls        \* the call of each slot

process == <<main, signalled, background, exit>>
apiVars == <<process, calls>>

Operations == DOMAIN KitchenOperations \cup DOMAIN PartnerOperations
ContractOf(op) ==
  IF op \in DOMAIN KitchenOperations THEN KitchenOperations[op] ELSE PartnerOperations[op]
OpsOf(s) == IF s \in Focused THEN Focus ELSE Operations

ASSUME ApiAssumption ==
  /\ MaxConns \in Nat \ {0}
  /\ IsFiniteSet(Slots)
  /\ Focus \subseteq Operations

\* A call is "in" until it has its connection, "guarded" while the idempotency
\* middleware holds one for it, "working", "streaming", and "finished" until
\* its client has read the answer.  done: what it asks for is in the database.
\* cut: who has broken the connection; "lost" is a call the server broke off.
NoCall == [stage |-> "none", op |-> "none", held |-> 0, status |-> 0,
           done |-> FALSE, cut |-> "nobody"]
Lost == [NoCall EXCEPT !.stage = "lost", !.cut = "server"]
Dropped(c) == IF c.cut = "server" THEN Lost ELSE NoCall

Live(s) == calls[s].stage \notin {"none", "lost"}
Called(s) == ContractOf(calls[s].op)
Borrowed == MapThenSumSet(LAMBDA s : calls[s].held, Slots)

ApiInit ==
  /\ main = "starting" /\ exit = "none"
  /\ signalled = FALSE /\ background = FALSE
  /\ calls = [s \in Slots |-> NoCall]

----------------------------------------------------------------------------
(* The process *)

\* postgres.New has reached the database and the reader of the topic is started
\* before the server listens.
Start ==
  /\ main = "starting"
  /\ main' = "serving"
  /\ background' = TRUE
  /\ UNCHANGED <<signalled, exit, calls>>

\* No configuration, or no database: a signal cancels the ping as well.
StartFails ==
  /\ main = "starting"
  /\ main' = "down"
  /\ exit' = "1"
  /\ UNCHANGED <<signalled, background, calls>>

Signal ==
  /\ main # "down" /\ ~signalled
  /\ signalled' = TRUE
  /\ UNCHANGED <<main, background, exit, calls>>

\* The address is taken, or accepting fails: Serve returns, and main waits for
\* what it runs in the background all the same.
ServeFails ==
  /\ main = "serving"
  /\ main' = "stopped"
  /\ exit' = "1"
  /\ UNCHANGED <<signalled, background, calls>>

Shutdown ==
  /\ main = "serving" /\ signalled
  /\ main' = "draining"
  /\ UNCHANGED <<signalled, background, exit, calls>>

\* Mutant: Shutdown does not wait for the calls under way.
DrainedAtOnce ==
  /\ main = "draining"
  /\ main' = "stopped"
  /\ exit' = "0"
  /\ UNCHANGED <<signalled, background, calls>>

Drained ==
  /\ main = "draining"
  /\ \A s \in Slots : ~Live(s)
  /\ main' = "stopped"
  /\ exit' = "0"
  /\ UNCHANGED <<signalled, background, calls>>

\* HTTP_SHUTDOWN_TIMEOUT has passed: the connections are closed, and with them
\* the contexts of the calls.
DrainTimesOut ==
  /\ main = "draining"
  /\ \E s \in Slots : Live(s)
  /\ main' = "stopped"
  /\ exit' = "1"
  /\ calls' = [s \in Slots |->
       CASE calls[s].stage = "finished" -> Lost
         [] Live(s) /\ calls[s].cut = "nobody" -> [calls[s] EXCEPT !.cut = "server"]
         [] OTHER -> calls[s]]
  /\ UNCHANGED <<signalled, background>>

StopBackground ==
  /\ background /\ signalled
  /\ background' = FALSE
  /\ UNCHANGED <<main, signalled, exit, calls>>

\* The deferred wg.Wait has returned; db.Close hands out no more connections.
CloseDb ==
  /\ main = "stopped" /\ ~background
  /\ main' = "closing"
  /\ UNCHANGED <<signalled, background, exit, calls>>

\* What is still under way ends with the process.
Exit ==
  /\ main = "closing" /\ Borrowed = 0
  /\ main' = "down"
  /\ calls' = [s \in Slots |-> IF Live(s) THEN Lost ELSE calls[s]]
  /\ UNCHANGED <<signalled, background, exit>>

\* A transaction under way is rolled back, or was committed the moment before.
Crash ==
  /\ main # "down"
  /\ main' = "down"
  /\ exit' = "killed"
  /\ background' = FALSE
  /\ calls' = [s \in Slots |-> IF Live(s) THEN Lost ELSE calls[s]]
  /\ UNCHANGED signalled

Restart ==
  /\ main = "down"
  /\ main' = "starting" /\ exit' = "none"
  /\ signalled' = FALSE /\ background' = FALSE
  /\ calls' = [s \in Slots |-> NoCall]

----------------------------------------------------------------------------
(* The calls *)

Free == Borrowed < MaxConns /\ main # "closing"

\* The connection goes back to the pool; nobody reads the answer of a call that
\* is cut.
Finished(s, status, done) ==
  calls' = [calls EXCEPT ![s] =
    IF @.cut # "nobody" THEN Dropped(@)
    ELSE [@ EXCEPT !.stage = "finished", !.held = 0, !.status = status, !.done = done]]

\* A request arrives and passes the layers in front of its operation, or not.
Accept(s, op, flaws) ==
  LET answer == Refusal(ContractOf(op), flaws)
  IN  /\ main = "serving" /\ ~Live(s)
      /\ calls' = [calls EXCEPT ![s] =
           [NoCall EXCEPT !.op = op, !.status = answer,
                          !.stage = IF answer = 0 THEN "in" ELSE "finished"]]
      /\ UNCHANGED process

\* The idempotency middleware opens the transaction the operation will join.
Guard(s) ==
  /\ calls[s].stage = "in" /\ Called(s).caller = "guarded"
  /\ Free
  /\ calls' = [calls EXCEPT ![s].stage = "guarded", ![s].held = 1]
  /\ UNCHANGED process

\* It knows the key: the stored answer, another request under it, one in flight.
ReplayAnswer(s) ==
  /\ calls[s].stage = "guarded"
  /\ \/ Finished(s, 200, TRUE)
     \/ \E f \in {"unprocessable", "conflict", "internal"} : Finished(s, StatusOf[f], FALSE)
  /\ UNCHANGED process

\* Mutant: every InTx takes a connection of its own.
InTxAnew(held) == held + 1

\* InTx joins the transaction of the context, if there is one.
InTx(held) == IF held > 0 THEN held ELSE 1

Begin(s) ==
  /\ \/ calls[s].stage = "in" /\ Called(s).caller # "guarded"
     \/ calls[s].stage = "guarded"
  /\ InTx(calls[s].held) > calls[s].held => Free
  /\ calls' = [calls EXCEPT ![s].stage = "working", ![s].held = InTx(@)]
  /\ UNCHANGED process

\* The operation succeeds, or fails and leaves nothing; or the answer to its
\* COMMIT is lost, and nobody knows.
Finish(s) ==
  /\ calls[s].stage = "working"
  /\ \/ \E answer \in Called(s).answers : Finished(s, answer, Called(s).changes)
     \/ \E f \in Called(s).fails : Finished(s, StatusOf[f], FALSE)
     \/ Finished(s, StatusOf["internal"], Called(s).changes)
  /\ UNCHANGED process

\* The stream of an order gives its connection back and stays open until the
\* order ends, which it hears from the reader of the topic.
OpenStream(s) ==
  /\ calls[s].stage = "working" /\ calls[s].op = "StreamOrderEvents"
  /\ calls' = [calls EXCEPT ![s].stage = "streaming", ![s].held = 0]
  /\ UNCHANGED process

EndStream(s) ==
  /\ calls[s].stage = "streaming"
  /\ background
  /\ Finished(s, 200, FALSE)
  /\ UNCHANGED process

BreakStream(s) ==
  /\ calls[s].stage = "streaming" /\ calls[s].cut # "nobody"
  /\ calls' = [calls EXCEPT ![s] = Dropped(@)]
  /\ UNCHANGED process

\* The wait for a connection ends with the pool or with the context of the call.
GiveUp(s) ==
  /\ calls[s].stage \in {"in", "guarded"}
  /\ calls[s].cut # "nobody" \/ main = "closing"
  /\ Finished(s, StatusOf["internal"], FALSE)
  /\ UNCHANGED process

\* No connection can be made.
NoDatabase(s) ==
  /\ calls[s].stage = "in"
  /\ Finished(s, StatusOf["internal"], FALSE)
  /\ UNCHANGED process

ReadAnswer(s) ==
  /\ calls[s].stage = "finished"
  /\ calls' = [calls EXCEPT ![s] = NoCall]
  /\ UNCHANGED process

ClientLeaves(s) ==
  /\ Live(s) /\ calls[s].cut = "nobody"
  /\ calls' = [calls EXCEPT ![s] =
       IF @.stage = "finished" THEN NoCall ELSE [@ EXCEPT !.cut = "client"]]
  /\ UNCHANGED process

----------------------------------------------------------------------------

Stopping ==
  \/ Shutdown \/ Drained \/ DrainTimesOut
  \/ StopBackground \/ CloseDb \/ Exit

Handle(s) ==
  \/ Finish(s) \/ OpenStream(s) \/ BreakStream(s)
  \/ GiveUp(s) \/ ReadAnswer(s)

ApiNext ==
  \/ Start \/ StartFails \/ Signal \/ ServeFails \/ Crash \/ Restart
  \/ Stopping
  \/ \E s \in Slots :
       \/ \E op \in OpsOf(s) : \E flaws \in SUBSET FlawsOf(ContractOf(op)) : Accept(s, op, flaws)
       \/ Guard(s) \/ ReplayAnswer(s) \/ Begin(s) \/ NoDatabase(s)
       \/ Handle(s)
       \/ EndStream(s) \/ ClientLeaves(s)

ApiSpec == ApiInit /\ [][ApiNext]_apiVars

\* The pool serves those who wait in their order; queries, pings and answers
\* end; Shutdown has a timeout.  Nothing says that a key is known already.
ApiFairness ==
  /\ WF_apiVars(Start \/ StartFails) /\ WF_apiVars(Stopping)
  /\ \A s \in Slots : WF_apiVars(Handle(s)) /\ SF_apiVars(Guard(s) \/ Begin(s))

----------------------------------------------------------------------------
(* Properties *)

\* What the handlers answer although the API documents do not say so: 400 where
\* only the wrapper or the header of the customer can fail, 404 for a venue
\* withdrawn after its key was read, 501 for what is not built.
Undocumented(op) ==
  (IF op \in {"GetOrder", "CancelOrder", "GetVenue", "GetVenueMenu", "StreamOrderEvents",
              "GetPartnerOrder", "StartCooking", "HandoverOrder", "MarkReady"}
   THEN {400} ELSE {})
  \cup (IF op \in {"GetMe", "OpenShift", "CloseShift"} THEN {404} ELSE {})
  \cup (IF op = "ListPartnerOrders" THEN {501} ELSE {})

\* A client may act on what it is told: the answer is one the API document
\* declares (with the known exceptions), a success it can decode means that what
\* it asked for is there, a refusal that nothing has changed; and the venue
\* takes it for what it is.
AnswersAreHonest ==
  \A s \in Slots : calls[s].stage = "finished" =>
    LET o == Called(s)  status == calls[s].status
    IN  /\ status \in o.writes \cup Undocumented(calls[s].op)
        /\ status \in 200..299 => status \in o.reads /\ calls[s].done = o.changes
        /\ status \in 400..499 => ~calls[s].done
        /\ calls[s].op \in DOMAIN PartnerOperations =>
             /\ Learns(status) = "done" => calls[s].done = o.changes
             /\ Learns(status) \notin {"done", "failed"} => ~calls[s].done
             /\ calls[s].op \in Dereferenced /\ Learns(status) = "done" => 200 \in o.reads

\* A process that ends with 0 has been told to and has left no call without its
\* answer; and what runs in the background never finds the pool closed.
OrderlyStop ==
  /\ exit = "0" => signalled /\ \A s \in Slots : ~Live(s) /\ calls[s].cut # "server"
  /\ main = "closing" => ~background

\* Whoever calls and waits is answered, however few connections there are: no
\* call holds one and waits for another.  An open stream has been answered.
EveryCallEnds ==
  \A s \in Slots : []<>(calls[s].stage \in {"none", "lost", "streaming"})

\* A process that is told to stop stops, whatever its calls are doing.
SignalledProcessStops == []<>(signalled => main = "down")

NothingWaitsForEver == EveryCallEnds /\ SignalledProcessStops
=============================================================================
