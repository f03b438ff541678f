# Kitchen platform: specifications, model checking and proofs

This directory holds TLA+ specifications of the kitchen delivery platform of
this repository (`src/`), the TLC configurations that check them on small
instances, and theorems about them that TLAPS checks. Every definition is
written from the Go sources; `PROJECT.json` maps each one to the lines it stands
for.

Parse, check and prove from inside this directory, for example:

    tlasany Orders.tla
    tlc -workers 2 -config MCOrders.cfg MCOrders
    tlapm OrdersProofs.tla

## 1. The system

Customers fill a cart at a venue, place an order, and watch it being accepted,
cooked and delivered. Three processes and two stores take part:

| process or store | code | state |
|---|---|---|
| kitchen-api | `cmd/kitchen-api`, `internal/transport`, `internal/usecase` | the calls under way, the pool of connections, the stream hub (subscribers and their queues); the rest is in PostgreSQL |
| worker | `cmd/worker`, `internal/worker` | none: sweeps over the tables, the publisher of the outbox, collectors |
| venue service | `venue/` | its own PostgreSQL: incoming orders, dishes, processed events |
| PostgreSQL | `internal/repo/postgres`, `migrations` | carts, menu, venues, orders, history, outbox, idempotency keys |
| Kafka | `internal/broker/kafka` | the orders topic (partitioned by venue) and the status topic (partitioned by order) |

How they meet:

- a placement reads the cart and the menu, reserves stock, and writes the order,
  its first history entry and its outbox row in one transaction;
- a move (customer, venue by the partner API, or a sweep of the worker) reads
  the order under a row lock, and writes status, history and outbox rows;
- the worker publishes outbox rows to Kafka inside a transaction that holds them;
- the venue's consumer puts an event and its effect into one transaction (inbox)
  and commits the offset later; its autopilot calls the partner API and writes
  the answers down;
- every kitchen-api process consumes the status topic from its end and hands the
  updates to the hub, which offers them to the open streams;
- a guarded `POST /orders` claims its idempotency key in the transaction of the
  order and stores its answer there;
- every request passes a generated wrapper (parameters), the middleware
  (customer, key of the venue, idempotency), a strict handler (body) and the
  handler of its operation; whatever fails becomes a status in `apierr`, and the
  client generated from the same document decodes it.

### Components and what makes them correct

| component | state and operations | what is hard | correct when |
|---|---|---|---|
| Order rules `internal/domain/order` | the state machine, totals, the check of a cart, `FromCart` | prices that move, repeated events | a repeated event changes nothing; nobody pays what they have not seen |
| Order use case `internal/usecase/order` | placement, moves, sweeps, events | rivals for one order; stale lists; a failure in the middle of a sweep | one history per order, one event per entry, stock comes back once, no order hangs |
| Cart `internal/usecase/cart`, `repo/postgres/cart.go` | set, remove, clear; lock and clear of a placement | statements at READ COMMITTED; lock order of items and cart | requests that do not meet keep a cart of one venue, an order holds all it empties, nobody waits for ever |
| Menu, stock, shifts | uploads, patches, reservation, release, declared counts, stop list | races for the last portion; uploads, patches and orders at the same rows | counts balance and never go below zero; the menu is the last upload and what was patched since |
| Outbox, Kafka, inbox | write, fetch, send, record, handle, commit the offset | ids against commits, late and repeated sends, crashes | a venue's events reach the topic in the order of the changes, each takes effect once |
| Order stream | hub, subscription, snapshot, missed entries, live updates | updates between two reads, full queues, new processes | no silent hole, never backwards, the end is learned |
| Idempotency | claim, read, complete, expire, collect | concurrent retries, rollback, expiry under a running attempt | one order per key, true answers, no claim left behind |
| Venue service | kitchen, autopilot, consumer, bootstrap | two books over an unreliable call, restarts | both books agree in the end, dishes balance, nothing is sold twice |
| Worker jobs | reaper, courier, publisher, collectors | lists gone stale, errors | every listed order is moved or given up in the end |
| Lists `usecase/order/order.go`, `usecase/catalog` | pages of orders and venues behind a cursor | rows that come, move and stop matching between two pages | a walk shows no row twice and misses none that matched all along |
| HTTP transport, generated code | layers of refusals, statuses, what each side declares | answers nobody declared, calls under way when something else fails | an answer is a declared one and true |
| Process, pool `cmd/kitchen-api`, `platform/httpx`, `repo/postgres/db.go` | start, signal, drain, timeout, crash, restart; transactions and connections | calls that wait for each other, a pool closed too early | exit code 0 means nobody was cut off; nobody waits for ever |
| demo, seed, configuration and logging | tools and settings | | not modelled, see section 8 |

The hazards of the code, line by line with the properties aimed at them, are in
`PROJECT.json` under `hazards`.

## 2. Modules

| module | models | kind |
|---|---|---|
| `OrderFsm` | `internal/domain/order/fsm.go`: statuses, events, the table of transitions | operators |
| `OrderLife` | what the platform promises about one order and what its venue hears of it | abstract specification |
| `Orders` | placement, moves, the two sweeps, stock, history and outbox rows, for many customers | detailed specification, implements `OrderLife` |
| `Paging` | what a list read page by page promises while its table changes | abstract specification |
| `OrderList` | the list of a customer's orders, on top of `Orders` | detailed, implements `Paging` |
| `VenueList` | the list of venues in its three orders | detailed, implements `Paging` |
| `PagingProofs` | theorems about `Paging` | proofs |
| `MCOrders` | four stories of `Orders`, `OrderList` and `VenueList` | for TLC |
| `OrdersProofs` | theorems about `Orders` | proofs |
| `EventOrder` | each event takes effect once, those of one order in the order of commits | abstract specification |
| `Delivery` | outbox, publishing worker, partition, consumer, inbox | detailed, implements `EventOrder` |
| `DeliveryProofs` | theorems about `Delivery` | proofs |
| `OrderStream` | one customer watching one order: hub, status consumer, Follow | detailed |
| `OrderStreamProofs` | theorems about `OrderStream` | proofs |
| `Idempotency` | all attempts under one key | detailed |
| `Cart` | one customer's cart, statement by statement | detailed |
| `MenuSync` | one venue's menu: uploads, patches and reservations, row by row | detailed |
| `MCRows` | two stories, of `Cart` and of `MenuSync` | for TLC |
| `RowsProofs` | theorems about `Cart`, `MenuSync` and `MCRows` | proofs |
| `Checkout` | totals, check, drafting and reservation against a menu that changes | detailed |
| `VenueKitchen` | the venue service against the platform's books | detailed |
| `VenueKitchenProofs` | theorems about `VenueKitchen` | proofs |
| `Contract` | the layers a request passes and the statuses of its refusals | operators |
| `KitchenContract`, `PartnerContract` | every operation of the two APIs: what its generated wrapper, decoder, responses and client accept, what its handler may answer; what the venue's client makes of an answer | operators |
| `Api` | one kitchen-api process, its pool and its calls | detailed |
| `MCRequests` | three stories, of `Idempotency`, `Checkout` and `Api` | for TLC |
| `RequestProofs` | theorems about `Idempotency`, `Checkout`, `Api` and `MCRequests`: what stands around the transaction of a request | proofs |
| `SetSums` | lemmas: the sum of a function over a finite set, least elements | proofs |

Some operators named "Mutant" stand before the definition they are a plausible
bug of. No specification uses them. Put in the place of the definition
they make TLC report the property that guards against that bug
(`PROJECT.json`, `mutants`).

### How the modules fit

`Orders` takes the rows it writes (`toVenue`, `toStatus`) as sent in the order of
its transactions. That is what `EventOrder` promises per order and what
`Delivery` implements; across the orders of a venue `Delivery` keeps the order of changes that
do not overlap (`FirstCopiesInOrder`). `VenueKitchen` and `OrderStream` stand on the same promise
from the other end: the first reads a topic that hands every event over once,
the second one that keeps the order of the entries and may repeat them
(a status consumer has no inbox). `Cart` looks at the
steps `Orders` takes as one transaction per cart request, `MenuSync` at those it takes as one upload or one reservation. `Checkout` looks at the
arithmetic `Orders` leaves out. `OrderList` extends `Orders` and reads what its
transactions commit. `Api` looks at the way to and from the transactions of the
other modules: it takes each of them as one step that succeeds, fails or
succeeds unheard. `Idempotency` has its guarded attempts, `Api` only the connection
they hold. The modules are connected by these assumptions, not by one composed
specification; section 9 has the plan for that.

### Correspondence to the code

**Orders.** One action is one transaction, with one exception: `Create`
(`usecase/order/order.go:102-146`) is `Draft` (lock and read) and `Place`
(reserve to commit), because others commit between the two; a cart without a row
cannot be locked, and then `LockNothing` comes first. `Cancel`, `Accept`,
`Reject`, ... are `move` (`transition.go:169-253`) with the actor's event, in two steps: `Decide`
reads the order under its row lock and decides, `Finish` writes and commits what was decided on
the status read then (`MoveFails` rolls back); an order being moved (`moving`) is decided by nobody else
(`OrderIsFree`). A sweep's `Move` of one order is a transaction of its own and stays one step.
`Apply` includes the early return of a repeated event, the history entry, the
return of the stock and the outbox rows. `StaleUnaccepted` and `StaleDelivering`
read a list, `Reap` and `Deliver` move its head, `ReapMisses` and `DeliverMisses`
skip what is no longer movable, `ReaperFails` and `CourierFails` end a sweep.
`TimePasses` makes the next order overdue, the oldest first; the courier's waiting time is left out: an order that has been handed over may be listed at any time. `Abandon` is PostgreSQL
breaking a deadlock. A request that is refused changes nothing and
has no action.

**Delivery.** `Insert` gives out a row id, `EndChange` commits or rolls back;
ids of two orders may commit against their order. `past` remembers what had been
committed when a row was inserted. `Fetch`, `Publish`,
`PublishFails`, `WrittenLate` (the broker writes what the worker was told had
failed), `Record` and `RollBack` are a batch of `worker/outbox.go:53-119`.
`Handle` with `Remember` is the deduplicated handler, `CommitOffset` and `Resume`
the consumer's progress and restart.

**OrderStream.** `Subscribe`, `ReadOrder`, `ReadHistory`, `SendMissed`, `Follow`,
`TakeUpdate`, `GiveUp` are the steps of `transport/http/kitchen/events.go:36-125` and of `usecase/order/timeline.go`; `Publish` is the hub
under its lock with its drop of a full queue; `Join` is the moment the consumer
of a new process has its place in the topic.

**Idempotency.** `Reserve` is the INSERT that waits for an uncommitted row of the
same key, `Get` the SELECT after a conflict and all it may find, `Commit` the
handler's success with its stored answer, `Fail` every way to roll back,
`Expire` and `DeleteExpired` the end of an answer.

**Cart.** A request is a small program over the rows: `SetItem`/`StoreItem`,
`RemoveItem`/`LookForItems`/`ForgetEmptyVenue`, `Clear`, and `Draft`/`Place` or
`Refuse` of a placement; `KeepVenue` is a removal that found other items and leaves the venue. Row locks are guards (`RowIsFree`, `ClearIsFree`).
`alone` and `crossed` remember whether requests have met.
`BreakDeadlock` is PostgreSQL, `Fail` a lost connection (in `MenuSync`
`BreakMenuDeadlock` and `TxFails`).

**MenuSync.** `Valid`, `CategoryRows` and `ItemRows` are `MenuUpload.Normalize`. `Upsert` is
one row of `upsertCategories` or `upsertItems`, in the order of the upload;
`LookForMissing` the moment `deactivateMissingItems` looks at the menu, `Deactivate` one row it
then writes, after looking at it again. `Patch` finds the item of `PatchItem`, `ApplyPatch` writes it
or finds that it has been moved. `Reserve` and `TakeItem` are the rows of `ReserveStock`. A row
written and not committed (`Held`) may be written by nobody else (`Free`).

**Checkout.** `Problems` is `Cart.Validate` line by line, `Total` is
`Cart.Totals`, `Accepts` is the refusals of `FromCart`, `Reservable` what the
UPDATE of `ReserveStock` asks of each row. The venue may change price, count,
stop list and shift between any two steps.

**VenueKitchen.** `Receive`, `CancelReads` and `CancelSettles` are the consumer
(`usecase/kitchen/kitchen.go`), `ReadRipe`, `Call` and `Advance` the autopilot
with its three answers (agreed, refused with the current status, lost),
`ReadDishes`, `SetItemAvailability` and `SetAvailable` the stop list, `Restart`
the bootstrap with its menu upload and new day. The state the consumer reads is
kept in `reading`, so the autopilot can come in between.

**OrderList, VenueList.** `ReadPage` and `Page` are one request for a page, with
the extra row that tells of another page and the cursor made of the last row shown
(`usecase/order/order.go:225-252`, `usecase/catalog/catalog.go:73-97`). `Stamped`
gives a new order its `created_at`, the begin of its transaction, which may be
older than those of orders already in the list, and a random id. `Belongs` is the refusal of a
cursor issued for another order of the list; filters are not in the cursor and may change between
pages (`ChangeFilter`). The filter of a page is read with it: `standing` remembers what matched all along.

**Contract, KitchenContract, PartnerContract.** Five definitions for each operation:
`...Binds` the parameters its wrapper binds, `...Decodes` whether its strict
handler reads a body, `...Writes` the statuses its response types can be written
with, `...Reads` those the generated client decodes, `...Served` who may call its
handler and what it may answer. `Refusal` puts the layers in their order: a parameter is
refused before the caller is looked at, the caller before the body. A body that is no JSON is
refused in front of the operation. `CreateOrder` with an empty or mistyped body passes the idempotency
middleware, which can fingerprint it, and is refused by its strict handler inside the middleware's
transaction (`middleware.go:102`): that is `Finish` with the failure `invalid`.

**Api.** `Start`, `Signal`, `Shutdown`, `Drained`, `DrainTimesOut`, `StopBackground`, `CloseDb`, `Exit`
are `run` and `serve` of `cmd/kitchen-api/main.go` with `platform/httpx/server.go`,
in the order of their deferred calls. `Accept` is a request up to its operation,
`Guard` the transaction of the idempotency middleware, `Begin` and `InTx` the one of
the operation, `Finish` its end with every answer the handler can give and with
the answer of a COMMIT lost, `OpenStream` and `EndStream` the stream of an order.

## 3. Runs

Runs that pass:

| run | module and configuration | shows |
|---|---|---|
| `orders` | MCOrders, MCOrders.cfg | Four stories. *race*: two customers race for two portions while the venue closes, stops selling and recounts: the history is one walk of the state machine, the status events are exactly its moves, the count and the portions held balance, and only one placement that locks a cart gets it. *sweeps*: customer, venue, reaper and courier race for two orders: the venue hears of every end it did not decide, once; `Orders` implements `OrderLife`; no order hangs. *list* and *venues*: a walk through pages of ones and twos implements `Paging` whatever happens between two pages. |
| `delivery` | Delivery, Delivery.cfg | With failed, late and repeated sends, lost batches and consumer restarts, the first copies in the topic stand in the order of the changes: a change that began after another was committed stays behind it, of the same order or of another of the venue (`api/asyncapi/events.yaml:14-15`); every committed event takes effect, and `Delivery` implements `EventOrder`. |
| `stream` | OrderStream, OrderStream.cfg | A customer has every entry up to the newest they have, unless the hub gave up on them or the process had not joined the topic; nothing comes twice or backwards; who comes back learns of the end. |
| `rows` | MCRows, MCRows.cfg | Two stories of requests that meet at rows. *cart*: concurrent requests on one cart: an order holds whatever it throws out; changes made one after the other leave a cart of one venue, and one that meets no other and empties the cart makes up for any that met before. *menu*: two uploads, patches and reservations at a time: the menu is the last upload committed and what was patched since, except after an upload that met another with no category in common (section 8); the counts an upload answers are what it did. In both, nobody waits for a row for ever. |
| `requests` | MCRequests, MCRequests.cfg | Three stories. *key*: four attempts under one key, with different contents, failures and expiry: one order for each life of the key among those that hold it, answers that are true, and an answer for everybody. *checkout*: the sum paid is the one shown and what the lines add up to; a check foretells what the code does with an order (which is not what the API document says of it: `checkout_problems`); only a change of the venue after the draft can make a reservation fail or a price stale; the menu and the check agree on what can be ordered. *calls*: every operation of both APIs, with and without each flaw, while the process starts, is told to stop, drains, times out, crashes and starts again: answers are the declared ones (but for the gaps listed in section 8) and true; exit code 0 means that no call was cut off; with one connection for two calls, some of which take transactions inside transactions, nobody waits for ever. |
| `kitchen` | VenueKitchen, VenueKitchen.cfg | The kitchen is at most one step behind what the platform agreed to, dishes balance, nothing is sold twice short of a restart or a lost race, ended orders leave the kitchen, and the stop list catches up. |

Runs that show a disagreement of the code with one of its comments or documents (details
and lines in `PROJECT.json`, `findings`):

| run | what TLC finds |
|---|---|
| `orders_firstcart` | A placement that comes before the customer's first cart row exists locks nothing; the item arrives between its lock and its read, and a second placement orders the same cart. `repo/postgres/cart.go:217-219` says this cannot be. |
| `cart_venues` | Two first items of two venues, at once, both pass the check: a cart of two venues. `domain/cart/cart.go:92` says a cart holds items of one venue only. The reservation refuses the foreign item, so the cart cannot be ordered until it is taken out. |
| `cart_empty` | Two removals of the last two items, at once, each still find the item of the other: the cart is empty and keeps its venue. `repo/postgres/cart.go:200-201` says the venue of a cart with no items left is released, so that the next item may come from any venue: an item of another venue is let in under the old one, and cannot be ordered. |
| `stream_end` | The last move commits between reading the order and its history. The stream sends it as a missed entry, drops its live copy as seen and never closes, although `transport/http/kitchen/events.go:36-38` has it live as long as the order. The customer is told (`EndIsLearned`); the connection stays. |
| `checkout_problems` | A price rises after the item was put into the cart. The check lists `price_changed` and shows the new total, and the order with that total is placed. `api/openapi/kitchen.yaml:222-223` says that `POST /orders` with a list of problems that is not empty ends in an error; the code means to accept it (`domain/order/create.go:104-106`). |
| `kitchen_stoplist` | The venue tells the platform "off sale" and fails before writing it down, then the dish comes back: by its own record there is nothing to tell, and the dish stays off sale. `kitchen.go:175-176` says the venue keeps what the platform was last told. |

## 4. Bounds, and why they are enough

- `orders`: 2 customers, 2 placements at a time, 1 item, a count of at most 2, 1
  recount; 204,300 states. *race*: carts of 1, 2 orders: two placements of one customer, two
  customers for the last portion, a cancellation between reservation and
  recount. Requests are alike, and so are customers: the first to come is always
  the same one (`ByTurns`). The kitchen does not get to cook here. *sweeps*: 1 customer, 1 placement at a time, 2 orders of up to 2
  portions, batches of 1, a quiet venue, one order being moved by a request at a time: a list read by one sweep is overtaken by
  moves of the other actors, and portions of two orders come back. *list*: up to 3
  orders of one customer, pages of 1 and 2, a filter on one status: the smallest list with a
  row before, on and behind a cursor. *venues*: 3 venues whose ranks tie in
  either place, all three orders, pages of 1 and 2.
- `delivery`: 2 orders, 3 events, batches of 2, 2 faults, 1 worker. Two events of
  one order with one of another between, committed against their ids, is the
  smallest case in which a batch can reorder, and the one in which the events of two
  orders of a venue could change places; two faults let a late write meet a lost batch.
- `stream`: an order of at most 5 entries, a queue of 2, 2 repeats: the queue
  overflows while the customer reads. `stream_end` uses a queue that cannot
  overflow and no repeats, so that neither is to blame.
- `requests`; 367,105 states. *key*: 4 attempts of 2 contents, sent in a fixed order as they are
  alike, 1 expiry: one to hold the key, one to wait, one to come with another content, one
  for the next life. *checkout*: 2 items, prices 1 and 3, up to 2 portions, counts up to 1 or
  none, fee 1, minimum 3, 2 changes: the minimum is met only by some carts, and differs
  between stored and current prices; two changes can cancel each other. The story ends with an
  order, since the menu that leaves is one to begin with. *calls*: 2 calls at a time, one of any
  operation and one of the two whose connections are special (the guarded one and the
  stream), and 1 connection: a call that has it makes the other one wait, and one that
  needed a second would wait for itself. Signals, crashes and restarts are unbounded. What a
  story does not tell of stays at its beginning, where no fairness asks for a step (the process
  of the other two stories is down).
- `rows`: 2 requests at a time; 59,159 states. *cart*: 2 venues of 2 dishes: every pair of operations of
  the code meets at every statement. *menu*: 3 requests, 2 categories, 2 items and 6
  uploads that share categories or none, list rows in opposite orders, move items
  between categories, sell them out, and list one twice: two requests meet, and a third one
  follows or precedes them. The menu they start from may be that of any of the uploads.
- `kitchen`: 2 orders of up to 2 portions, 2 portions to sell, 1 fault, 1 restart:
  the second order finds the dish short or sold out, and a fault meets a
  restart. The second order, the fault and the restart may fall anywhere.

- `checkout_problems`: 1 item, 2 prices, a minimum any portion meets: nothing but the price
  can be wrong with the order of the counterexample. `cart_venues` and `cart_empty`: the cart of `rows`.

Bounds are in guards and named in the comments of the CONSTANTS. Deadlock
checking is off in every run, because each bounded system stops when its
orders, changes and faults are spent; the liveness properties say that
it does not stop too early.

## 5. Fairness

- **Orders**: weak fairness of time and of reading a list; strong fairness of moving a listed
  order, because the sweep tries again every run and a row held by somebody else is released
  (`SKIP LOCKED` passes over it now and takes it later). It is fairness of the sweep, not of an
  order: while sweeps keep coming to orders they could move, they one day move one, and there are
  finitely many. Weak fairness of dropping from the list an order that is no longer
  movable. Of moves decided again and again by customers and venues one is one day committed
  (strong): without it, a customer whose cancellation fails every time, and always just as a
  sweep comes by, could keep an order for ever. Sweeps run for as long as the
  worker does (`worker/pace.go`). Customers and venues need not begin anything.
- **Delivery**: a transaction ends; the publisher polls; the consumer handles and
  commits. No fairness for a late write, and faults are finite.
- **OrderStream**: the consumer joins and the topic delivers; the handler goes on;
  a waiting customer connects again. Strong fairness where leaving could always
  come first. An order need not move.
- **Idempotency**: the server works on what it has received, on one attempt or another (weak
  fairness of all of them together; there are finitely many). Failing is
  not fair: nothing relies on an attempt failing, and each fails at most once.
- **Cart**, **MenuSync**: a transaction goes on; who waits for a row is served (PostgreSQL's lock
  queue, hence strong fairness); a deadlock is found.
- **VenueKitchen**: the consumer and the autopilot repeat for as long as the
  service lives; faults and restarts are finite.
- **Api**: starting, stopping and handling a call go on (weak); a connection is
  had in the end by who waits for one (strong: the pool serves in the order of
  asking), whether or not a guarded call finds its key known.
  `Shutdown` has a timeout, so that stopping needs nothing of the calls. No
  fairness for the end of a stream, for clients, signals, crashes and a database that is away.
- **Checkout**, **OrderList** and **VenueList** state no liveness: a client need not ask for the next page.

"Every attempt is answered", "every call ends", "a process told to stop stops" and "every event takes
effect" are written as `[]<>` of a state predicate (nothing open, or the end reached). An attempt that is
answered stays so and a call that is open stays open until it ends, so this says the same as
"leads to", and TLC checks it faster.

## 6. What is proved

TLAPS checks these for every value of the constants that satisfies the modules'
named assumptions (`OrdersAssumption`, `IdempotencyAssumption`, `CheckoutAssumption`,
`ApiAssumption`, `PagingAssumption`, `DeliveryAssumption`, `OrderStreamAssumption`,
`CartAssumption`, `MenuAssumption`, `VenueKitchenAssumption`), the theorems on order in
`Delivery` for one worker (`OneWorker`). Bounds are among the constants: a theorem
holds for all of them.

`OrdersProofs`:

- `RepeatIsSilent`: no event leads from a status to itself, and a repeated event
  is recognised as one exactly where the table would not move the order. This is what makes `Apply` safe to retry.
- `TypeCorrect`: `TypeOK`, including that no count falls below zero. Inductive by
  itself, given that a reservation subtracts only what it covers; one lemma per
  kind of step (placement, move, sweep).
- `HistoryTold`, `StatusTold`, `VenueTold`: the three properties about what an
  order leaves behind, from one inductive invariant `IInv` = `TypeOK`, "an order
  exists exactly when its number has been given out" (`Numbered`), "a move that has been decided
  on is still the one to make" (`MovesStand`: the order has the status read, nobody else is moving
  it, and the actor may make that move) and the three properties of every order. `HistoryIsTheLife` alone is not inductive: that a new order
  starts from nothing needs `Numbered`, and that the move appended continues the
  last entry needs the status to be that entry's. The argument goes by single orders: `NewOrder` and
  `MovedOrder` show the step for the order that changes, `NextOrdersOK` that all
  the others are as they were.
- `OrdersImplementLife`: every step maps to a step of `OrderLife` or a stutter
  under the mapping of statuses and of the rows for the venue; from `IInv`.
- `CartIsSpentOnce`: from `CInv`, by which a placement that has drafted under a
  lock is the only one with the cart of its customer, and the cart is as it was
  read and not empty.

- `PortionsAddUp` (`StockIsConserved`): between two declarations of the venue, the count
  of an item and the portions held by the orders that are alive change by opposite amounts.
  The portions are a sum over all orders; a step changes the term of one of them
  (`SumChanges`), if an order that does not exist yet holds nothing (`NothingYet`).

`SetSums` is what the sums of the other modules rest on. `SumFunctionOnSet` of the
community modules is defined by recursion, and the prover cannot instantiate the library's
induction theorems, so each fact is shown by a smallest counterexample: a set of finite
sets has one with the fewest elements (`FewestOf`), and taking an element out of that one
leads to the contradiction. Results: the sum of natural numbers is one (`SumIsNatural`),
one term can be taken out or changed (`SumWithout`, `SumChanges`), a sum is at least its terms, sums
are monotone. The same way of arguing serves wherever a model picks or joins sequences.

`RequestProofs`, on `MCRequests`: `RequestTypesHold` (`MCTypeOK`), for every story, from the type
theorems of `Idempotency` and `Checkout`. On `Idempotency`: `TypeCorrect`, `PlacesOneOrder`, `RemembersItsOrder` and
`TellsTheTruth` from the invariant `IInv`, which adds to the properties that an uncommitted claim
belongs to a running attempt and excludes a committed row (`ClaimIsHeld`), that
no order is of a life still to come (`PlacedInTime`), and that a row tells of an
order that exists (`RowTellsOfAnOrder`).

On `Checkout`, for any menu and any prices: `CheckoutTypeCorrect`, `PaysTheShown`
(`PaysWhatWasShown`), `ChecksAreTrue` (`CheckTellsTheTruth`) and `OnlyChangesRunOut`
(`OnlyTheOvertakenRunOut`). The invariant `CheckoutInv` adds that a draft has the total the
customer expects and the venue asks for (`DraftIsAgreed`), and that a check still on the
screen while nothing has changed is what a check would find now (`ScreenIsCurrent`).

On `Api`, for any number of calls and any pool: `StopsInOrder` (`OrderlyStop`), from an invariant
over the shape of a call, that nothing is cut by the server before the drain has timed out
(`NothingCut`), and that 0 is the exit code only of a process that was told to stop and has
drained (`EndsInOrder`). `ToldTheTruth` (`AnswersAreHonest`): every answer is one the
operation's documents and client know and tells whether the operation was done. `Sound` is
what the tables of the two contracts must say of an operation for that, shown for each of
them (`AllAreSound`); `CallsInv` carries it through the stages of a call.

`PagingProofs`: `TypeCorrect` and `WalksAreWhole` from `IInv`: a row that has been
shown is not past the cursor (`ShownIsPassed`), a row that matched all along
and was not shown is (`StandingComes`). The step of a page needs that the rows read are the first
ones of those left (`FirstIsAPrefix`), that fewer rows than asked for are all
(`ShortPrefixIsAll`, from the least row of a finite set), and that a row keeps its
place.

`DeliveryProofs`: `TypeCorrect` for any number of workers, and `InOrder`
(`FirstCopiesInOrder`) under `OneWorker`. The property says nothing of a row that is not yet in the
topic, so the invariant does: a batch holds what comes before what it holds
(`HeldFromTheFront`, where counting the free rows and having one worker come in), a
message that may still be written late has everything before it in the topic
(`LateComesAfter`), an order has one undecided row at a time, its last
(`RowsFollow`), and what was committed when a row was inserted has a lower id and contains all
that the order of the row had committed (`PastIsPast`): that carries the order of ids, in which a
batch is read, over to the order of changes. `AppendingKeepsOrder` is the step both `Publish` and `WrittenLate` take.
`DeliversInOrder` (`ImplementsEventOrder`) is the refinement, on top of it: the inbox holds what stands in a
first part of the topic (`KnownIsTheFront`), so what it knows of an order is a beginning of
what was committed of it; a new event is the next one of its order (`TheNextOneIsNext`) and its
handling a `TakeEffect`, a commit is a `Write` because no later change of the order is there
yet, and every other step is a stutter. The mapping picks the rows of an order out of a
sequence (`Picks`, a recursive function); `PicksAgree`, `PickUpGrows` and
`PicksOfMore` are its lemmas, by shortest counterexample.

`OrderStreamProofs`: `TypeCorrect`, `GoesForward` (`NeverGoesBack`) and `LeavesNoHole`
(`NoHoleWithoutAReason`). The last needs where every entry is while the customer does not
have it: in the history to be read, in the queue, or still to be offered by the process;
`JoinedFirst`, `OfferedIsQueued` and `QueueIsInOrder` are the parts.

`RowsProofs`, on `Cart`: `TypeCorrect`, `KnowsItsVenue` (`CartKnowsItsVenue`) and
`SwallowsNothing` (`NothingIsSwallowed`), from what a request knows between two statements: what a
placement has read covers the cart as long as it holds its row (`DraftCoversTheCart`), and what a request
that has met no other has found out is still so (`ReadIsCurrent`).

On `MenuSync`, for any venue, any uploads and any number of requests: `TheLastUploadStands`
(`MenuIsTheLastUpload`), `TheCountsAreTrue` (`UploadsTellTheTruth`) and, with the types of both, `RowsTypeCorrect`
(`MCTypeOK`). `MenuInv` says that no row is written by two transactions (`Separate`);
that two uploads under way share a category, unless one is marked as having met an upload it
shares nothing with (`Together`: with `Separate`, only one of them has then written that
category); that an upload has every row of its file written as the file has it or still to
write, and has counted the new and the old ones (`Writing`); that one which clears has written
them all, has taken off sale and counted what else it wrote, and has every other item on sale
still to look at, save those that came late (`Clearing`); and that the committed menu is the
last upload but for what was patched since (`Committed`). The rows of an upload are a
flattened sequence of sequences: `Joins`, `FlattenRelates` and `FlattenHas` are the lemmas on
that, again by shortest counterexample.

`VenueKitchenProofs`: `TypeCorrect`, `KeepsStep` (`KitchenKeepsStep`), `DishesAddUp`
(`DishesBalance`) and `NeverSoldTwice` (`NothingIsSoldTwice`). For `KeepsStep`, the two books are
brought together by calls whose answers come late; the invariant says that an order of the
run is where it was read or has ended (`RipeIsCurrent`), that an answer is still what the
platform has for the order (`AnswerIsCurrent`: only the autopilot takes orders along the line,
and it makes one call at a time), that an announced end has come and an order is announced once
to a venue that does not have it (`TopicIsTrue`).

For the dishes (`SalesInv`), what the platform has promised by a message of the topic is a sum
over the orders announced and not called off by then. Without a restart, the platform sells what it has
not promised, and never promises more than there is (`MenuCovers`); the topic tells of
every order and every end (`NewsIsComplete`), announcing an order before calling it off (`NewsIsInOrder`); and an
order in the books of the kitchen has been announced and, short of a lost race, not been called off
(`BooksFollow`). So what the kitchen holds is part of what was promised at its place in the topic.

The type invariants of `Delivery` and `OrderStream` are proved only: no run checks
them besides.

## 7. What is only model-checked

- All liveness (`NothingHangs`, `NothingWaitsForEver`, `EveryEventTakesEffect`,
  `EndIsLearned`, `EveryAttemptIsAnswered`, `NobodyWaitsForEver`,
  `EndedOrdersLeaveTheKitchen`, `StopListCatchesUp`): fairness and ENABLED are out
  of the prover's reach.
- `ListsArePaged`, that `OrderList` and `VenueList` implement `Paging`: a page is cut from a list
  sorted by the community module's `SetToSortSeq`, which takes the order as an operator.
  `WalkShowsEachRowOnce`, which carries over from `Paging`, is proved there.
- The properties of the six runs that show a disagreement: they do not hold.

Every other invariant and action property of a passing run is stated by a theorem.

## 8. What is assumed or left out

- One worker process, as `README.md:286-287` and `302-304` of the repository
  assume. With `Workers = {w1, w2}` TLC finds `FirstCopiesInOrder` violated:
  `SKIP LOCKED` lets the second worker overtake a batch being sent.
- One venue in `Orders`, since two share nothing but the sweeps; one counted dish
  in `VenueKitchen`; one subscriber in `OrderStream`; one key in `Idempotency`.
- Deadlocks in PostgreSQL are found by it and one side rolled back: an external
  behaviour, `Abandon`, `BreakDeadlock` and `BreakMenuDeadlock`.
- Of the HTTP layer: the fields of bodies (`toOrder`, `toCart`, ... and their
  parsing), headers and routing by path. Of the generated code: the request
  builders of the clients, the models and the embedded documents. They keep no
  state and decide nothing but what `...Binds` and `...Decodes` say.
- The processes of the worker and of the venue service: they start, drain and
  stop by the same functions as kitchen-api, and serve only `/healthz`.
- Of `MenuUpload.Normalize` the checks of single fields (`requiredField`, `optionalField`, negative
  numbers), and that positions are spread by tens. The API keys of venues (`Authenticate`).
- The single reads (a menu, an order, cuisines) change nothing; `KitchenContract` has what they may answer.
- The pace of the jobs (`worker/pace.go`) is fairness only. Configuration,
  logging, the demo and the seed keep no state of the system.

Behaviour met on the way that the models contain and no property forbids:

- A placement under way commits after `CloseShift` has answered
  (`usecase/order/order.go:163` checks the shift on what it drafted from).
- An item without a count at placement may have one when the order ends; the
  returned portions are then added to a count that never lost them
  (`menu.go:241`). `StockIsConserved` therefore speaks of steps between two
  declarations of the venue.
- A retry whose conflicting row is collected before it is read goes on without
  a claim, as `get` answers not found for first use: the history variable
  `unguarded` in `Idempotency` names these attempts, and the properties are about
  the others. `idempotency.go:25-26` rules such a race out in words. Such an attempt may also
  complete the row of another one, with another request (`middleware.go:108`); `AnswersAreTrue`
  excepts the answers it writes.
- A venue that restarts uploads its own counts while orders are on their way to it, and is made
  to promise more than it has (`bootstrap.go:79`). `DishesBalance` counts that (`overdrawn`),
  `NothingIsSoldTwice` excepts it (`restarts > 0`).
- Two uploads at once that have no category in common leave a menu that neither of them
  holds: each looks for the items to take off sale before the other has committed its
  own (`menu_sync.go:194`), although `menu_sync.go:14-17` has the items missing from a
  snapshot taken off sale. An upload with a category in common waits for the first at its
  row, and the next upload puts things right. `MenuIsTheLastUpload` excepts these uploads
  (`apart`); without the exception TLC finds it violated by two one-item uploads.
- A patch whose item an upload moves to another category while the patch waits for its row answers that there
  is no such item (`menu_sync.go:223`): PostgreSQL joins the new row to the category it found first.
- A cancellation that races the autopilot may find the order moved on and do
  nothing (`kitchen.go:102-106`). The next call to the platform is refused and
  brings the venue in line: `EndedOrdersLeaveTheKitchen`.
- An order accepted by a venue that then goes silent has no timer
  (`domain/order/fsm.go:46`).
- Answers no API document declares (`Undocumented` in `Api`): 400 for a bad id or
  customer on `getOrder`, `cancelOrder`, `getVenue`, `getVenueMenu`, the stream and the
  moves of the venue without a body; 404 on `me` and the shifts when the venue is
  withdrawn after its key was read; 501 on the list of a venue's orders. A
  generated client sees them as an answer without a body.
- A stream that is open while the process drains cannot hear of the end of its
  order once the reader of the topic has stopped: the drain runs into its
  timeout, and the process ends with 1 (`httpx/server.go:70-76`).
- When the address is taken, `httpx.Serve` returns but the deferred `wg.Wait`
  holds the process until somebody signals it (`cmd/kitchen-api/main.go:94-102`).
- When the answer of a COMMIT is lost, a caller is told 500 for what was done
  (`repo/postgres/db.go:90`); the idempotency key is what makes a repeat harmless.

## 9. Plan

Done so far: the order of sections 2 and 3, core first (orders, delivery, stream,
idempotency, cart, kitchen, checkout, lists, the APIs and their process, the menu), and the
theorems of section 6.

Left, in this order:

1. `ListsArePaged` as theorems: `OrderList` and `VenueList` need the sorting of a page written
   as a function, and the lists their own invariant (an id belongs to one order, a cursor to a row).
2. One composition of `Orders`, `Delivery` and `VenueKitchen` for one order and one dish, in
   place of the assumptions by which they fit together.
