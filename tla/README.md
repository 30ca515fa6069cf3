# ShopNest in TLA+

A verification project for the ShopNest monorepo: TLA+ models of the browser
pages, the services that take a checkout from a user's cart to an order and on
to a delivery task, the web session, and the settings that connect them; TLC
configurations that check them on small instances; TLAPS proofs for instances
of any size. Paths below are relative to the repository root.

## 1. The system

| Component | State | Operations that change it | Talks to |
|---|---|---|---|
| **web pages** (`apps/web/src/pages`, `components/Modal.tsx`) | what a mounted page shows and waits for, Apollo's observable | add, checkout, filter, edit, save, delete, open, close, reload | api-gateway |
| **web session** (`auth/*`, `main.tsx`, `RequireAuth.tsx`) | token in `localStorage` and in each tab, expiry timer | sign in/out, expiry, storage events, 401s | api-gateway |
| **api-gateway** (`graphql/*`) | none (library throttler) | verifies the JWT, forwards GraphQL fields, maps errors | all services |
| **user-svc** (`auth/auth.service.ts`) | Postgres `users`, unique e-mail | `register`, `login` | Postgres |
| **shop-svc cart** (`shop.service.ts`) | `cart:<user>` in Redis, 7 days; products in Mongo | `addToCart` (GET, change, SET), `clearCart` (DEL), expiry, `createProduct` | Redis, Mongo |
| **shop-svc checkout** (`shop.controller.ts`, `checkout-publisher.service.ts`) | `kafkaReady` per pod | snapshot the cart, publish `CheckoutRequested` over Kafka, Service Bus or HTTP, clear the cart | order-svc |
| **order-svc order creation** (`order.service.ts`, `entities/`) | Postgres `orders`, `order_lines`, `processed_events` | `createOrderFromCheckout` | Postgres, publisher |
| **order-svc listeners** (`kafka-checkout-listener.service.ts`, `service-bus-listener.service.ts`, `internal.controller.ts`) | offsets of group `order-svc`; message locks | consume, settle, dead-letter; HTTP call | order creation |
| **order-svc publisher** (`order-created-publisher.service.ts`) | `ready` per pod | publish `OrderCreated` | Kafka |
| **task-svc consumer** (`Messaging/OrderCreatedKafkaConsumer.cs`) | offsets of group `task-svc` | consume, insert a delivery task, commit | Kafka, Postgres |
| **task-svc tasks** (`Services/TaskService.cs`, `Caching/TaskCache.cs`) | Postgres `tasks` with `xmin`; cache entries in Redis | create, update, delete, fill, remove, expire | Postgres, Redis |
| **settings** (`packages/shared`, `Hosting/EnvFileLoader.cs`, `KafkaConsumerConfiguration.cs`, `redis.module.ts`, `CachingServiceCollectionExtensions.cs`, `scripts/ensure-kafka-topic.mjs`) | `.env` files, the cluster's secret, what each process read at its start | edit, install certificates, seed, boot | Kafka, Redis |
| **development scripts** (`scripts/dev-stack.mjs`, `seed-secrets.mjs`) | two child processes, first exit code | spawn, SIGINT, exit | the services |
| **rate limiter**, **observability**, contracts, deployment | none of their own, or library counters | configuration | |

How a checkout flows:

    page --click--> gateway --> cart --snapshot--> CheckoutRequested
      --(Kafka | Service Bus | HTTP)--> order-svc: Postgres transaction
      --commit--> OrderCreated (Kafka) --> task-svc: task --> task page

Each arrow may repeat, be delayed or (where the code gives up) be lost, and
each service runs on two replicas (`infra/k8s/*.yaml`).

What is hard, and what would make each part correct:

- *Order creation*: concurrent deliveries of one checkout race through two
  look-ups that see committed rows only; two unique indexes decide. Correct: at
  most one order per correlation id, keys that name the right order, at most
  one publication, never before the commit.
- *Listeners*: rebalances and lock expiry hand one message to two pods; a pod
  dies between the call and the settlement, or its consumer never connects.
  Correct: nothing is acknowledged without its order, orders come in the order of
  the log, and a message is given up only for what befell itself.
- *Cart and its pages*: read-modify-write without a transaction, a clear that
  deletes whatever is there, buttons that forget a request when the page is left.
  Correct: never more items than were added; for a user whose requests do not
  overlap, no item lost or ordered twice; what is ordered is what was shown.
- *Delivery tasks*: manual commits, failures, users who edit and delete while
  events are redelivered. Correct: no order passed over without a failure; a
  user's edit survives.
- *Task cache*: filled and removed beside the database. Correct: no lost update;
  a stale entry has a known cause.
- *Task page*: handlers that go on after an await with the variables of an older
  render, refetches that join or replace requests, one form for all tasks.
  Correct: a save sends its own task; the list is the one asked for.
- *Session*: tabs share one storage and hear of changes late; timers, 401s and
  sign-ins race. Correct: a token names an account, a valid session ends for a
  reason, a sign-out reaches every tab.
- *Settings*: three programs parse the same keys and every process keeps what it
  read. Correct: the same file means the same connection.

`PROJECT.json` lists every component and every hazard at its line.

## 2. Modules

| Module | Models | Runs | Proofs |
|---|---|---|---|
| `OrderBook` | what order-svc promises: a book with one accepted checkout per correlation id and at most one publication of each | refined by `orders` | |
| `OrderService` | `createOrderFromCheckout` on several pods, over Postgres, and the publication that follows | `orders` | `OrderServiceProofs` |
| `KafkaCheckoutListener` | extends `OrderService` with the Kafka consumer group | `kafka` | `KafkaCheckoutProofs` |
| `ServiceBusListener` | extends `OrderService` with the Service Bus pumps | `bus` | `ServiceBusProofs` |
| `ShopCheckout` | cart, checkout handler and transport choice | `shop_transport` | `StorefrontProofs` |
| `Storefront` | extends `ShopCheckout` with the product and cart pages | `shop` | `StorefrontProofs` |
| `OrderCreatedConsumer` | task-svc's consumer and the delivery tasks | `delivery`, `delivery_retry` | `TaskSvcProofs` |
| `TaskService` | requests on tasks, with their cache entries | `tasks`, `tasks_conflict` | `TaskSvcProofs` |
| `TaskBoard` | the task page over the task resolvers | `board` | `TaskBoardProofs` |
| `Accounts` | users and tokens of user-svc | (extended by `WebSession`) | |
| `WebSession` | extends `Accounts` with the tabs of a browser, the guard and the answers | `session` | `WebSessionProofs` |
| `Settings` | pure functions: from files to environments to connections | (extended by `DevStack`) | |
| `DevStack` | extends `Settings` with the processes, the local stack and the seeded secret | `settings` | `DevStackProofs` |

`MC*.tla` give the constants their values.

### OrderService

Every worker `w` is one call of `createOrderFromCheckout` in progress on pod
`Home[w]`; `pc[w]` is the statement it will run next. `orders` and `processed`
hold committed rows only. What a transaction has written is known from its
worker: `pc[w]` in `{"save", "commit"}` means its order row `ord[w]` is in the
table uncommitted, `"commit"` that its key is too. An INSERT of a value another
open transaction holds is disabled (`CorrHeld`, `KeyHeld`: Postgres makes it
wait) and fails when the value was committed (`DuplicateCorrelation`).

| Action | `order.service.ts` |
|---|---|
| `Start` | the listeners' and the controller's calls |
| `LookupHit`, `LookupMiss` | 34-46, with the dimension check |
| `RecheckHit`, `RecheckMiss` | 50-58, inside the transaction |
| `InsertOrder`, `DuplicateCorrelation` | 60-79 |
| `SaveKey` | 81-84 |
| `Commit` | 86-93; the caller hears of it or loses the connection |
| `Abort` | any query before the commit fails |
| `Emit` | 95-103 and the publisher: up to `MaxCopies` copies in the topic (one for each attempt of the producer that arrived), none when unready |
| `Return` | the answer or the error reaches the caller |
| `Restart` | the pod dies; the producer of the new one connects or not |

The lines of an order are inserted in the transaction of their order and never
read separately, so a row carries its message instead. `save` of the key is an
upsert; that it always inserts is not assumed but shown (`SaveNeverOverwrites`).
The assumption `KeyMeansOneCorrelation` is the callers' contract: Kafka and HTTP
use the correlation id as key, Service Bus the id of one message.

### Listeners

Both modules EXTEND `OrderService` and drive its actions: `Deliver`/`Begin` do
its `Start`, `Finish`/`Complete`/`DeadLetter`/`GiveUpBatch` its `Return`,
`PodDies` its `Restart`; by construction every step of a listener is a step of
`OrderService` or none, so that what holds there holds here.

Kafka: `pos` is the position of the owner's session, `stored` the group's offset,
`base` the place where reading began after the last reset to the end. A rebalance
may take a partition from a pod whose `eachMessage` is running; the late resolve is
then ignored. `subscribed` holds the pods that have a consumer: a pod whose
`connect` or `subscribe` failed (lines 36-43) has none until the next pod takes its
place (`PodDies`), and one whose kafkajs run ends after an error it does not retry
(`ConsumerStops`; nobody awaits or restarts the run of line 45) has none any more.

Service Bus: locks are `holder`, a lock may expire at any time, and a settlement
without the lock throws. `GiveUpBatch` is the outer catch: `deadLetterMessage`
threw too, with the message untouched, completed (by the `completeMessage` before
it) or dead-lettered all the same. `failed`, a history variable, remembers the
messages a query failed for.

### ShopCheckout and Storefront

In `ShopCheckout` every await of `addToCart` and of the checkout handler is a
step. `Publish` may end the call although the message went out. `Fail` ends a
call anywhere. A call that ended in an error has no later effect: a Redis command
that is executed after its caller gave up is not modelled. `added`, `ordered` (what
the messages sent so far hold, item by item) and `expired` are history variables.

`Storefront` decides which of these calls a user can make: `tab[u]` is the mounted
page, with the requests it has sent, the latest of them (Apollo's `loading`) and
`pending` (the page's `pendingId`). `ClickAdd` and `ClickCheckout` do the module's
`AddToCart` and `Checkout`; `Serve` is any step of a call together with the answer
that reaches the page; `Open` mounts a page anew, which forgets its requests while
they go on; `Disconnect` tells the page of an error while the request goes on.
`overlapped` and `unsure` remember the users for whom the code promises less:
those who had two requests in progress, and those who were told of an error
although the checkout had been sent.

### OrderCreatedConsumer

`Consume` moves the session's position, only `Commit` moves `stored`, and after
an exception nothing seeks back, as in the loop at
`OrderCreatedKafkaConsumer.cs:59-105`. `EnsureDeliveryTask` is an insert whose
primary-key violation is swallowed. `Edit` and `Delete` are the REST calls, in
one step each (their steps are in `TaskService`).

### TaskService and TaskBoard

In `TaskService` a row is its version, which stands for content and `xmin`. A GET
is look-up, read, fill; a PUT is load, save (WHERE xmin = what was loaded),
remove; a DELETE is delete, remove. `Cancel` is the request's cancellation token,
an error or a dying pod. One shared Redis is assumed; the in-memory backend is a
cache per process, which task-svc's README rules out for several replicas.

`TaskBoard` is one tab of `TasksPage.tsx`. A filter setting is the list request it
makes (`Query`); which rows it matches is left open, so `List` reads any subset of
the rows. `Fetch` is Apollo: a request is joined when it asks for the same
variables, replaced when it asks for others. `Render` is the effect that resets
the edit form. The three mutations keep the variables of the render that was
clicked (`under`). `strayed`, `since` and `late` are history variables.

### Accounts and WebSession

`storage` is the token in `localStorage`, `tok[t]` the one in the state of tab `t`,
`events[t]` the storage events it has not handled, `flight` the requests in
progress of all tabs. Every reader of an expired token removes it (`Stored`).
`Load` is a page load, `Visit` a link, `Ask` a query or mutation of a page,
`Submit` a login or register form. The answers are `Guarded` and `Unauthenticated`
(the gateway's guard, the error link), `Login`, `WrongPassword`, `Check` and
`Register` (user-svc), and `Fail`. The clock `now` counts in units of a token's
lifetime.

### Settings and DevStack

`Settings` has no state: `NestEnv` and `TaskEnv` say which of two files decides a
key, `Forwarded` what is copied into the cluster's secret, `NodeKafka`,
`TaskKafka`, `ScriptKafka`, `ShopRedis` and `TaskRedis` which connection an
environment gives. Values are abstracted to what the code tests (absent, empty,
set; for `KAFKA_SSL` its case, for `KAFKA_SASL_MECHANISM` and
`KAFKA_SSL_ENDPOINT_IDENTIFICATION_ALGORITHM` the value in lower case, for
`REDIS_URL` its shape). A connection is where its trust comes from, whether the
broker's host is checked, the parts of a client certificate and the mechanism of
the credentials. That the host is checked unless switched off is the default of
kafkajs's TLS sockets and of librdkafka since 2.0. In `DevStack` files
are edited at any time, each process keeps in `conf` what it read at its start
and the root file of that moment, and `phase`, `child`, `code` are the
orchestrator's.

## 3. What the runs show

| Run | Instance | Result |
|---|---|---|
| `orders` | 2 pods, 3 callers, 4 messages on 2 correlation ids, 3 keys, 2 uuids | the six invariants, `RowsAreFinal`, refinement of `OrderBook` |
| `kafka` | 2 pods, 1 partition of 2 records, 3 checkouts (one malformed) and junk, 2 faults | `OffsetsFollowOrders`, `OrdersFollowTheLog`; `EveryCheckoutOrdered` |
| `bus` | 2 pumps, 3 messages (2 copies of one checkout), 1 fault | `CompletedMeansOrdered`, `NoCheckoutLostUnfailed`, `DeadLetterHasCause`; `EveryMessageSettles`, `EveryCallEnds` |
| `shop` | 1 user, 2 products, 2 requests at once, 2 additions, 3 checkouts | `NothingFromNowhere`, `ItemsConserved`, `OrderedOnce`, `OrderedWasShown` |
| `delivery` | 2 pods, 1 partition of 3 records, 2 orders, 2 faults | `OffsetsFollowTasks`, `EditsSurviveRedelivery`, `EveryOrderIsDelivered` |
| `tasks` | 3 requests, 1 task, 4 versions | `NoLostUpdate`, `StaleHasACause` |
| `board` | 2 tasks, 2 filters | `SavesItsOwnTask`, `ListIsCurrent` |
| `session` | 2 tabs, 3 accounts on 2 e-mails, 2 forms, 2 requests at once, lifetime 1, clock to 2 | `TokensNameAccounts`, `ValidSessionEndsForAReason`, `MixedByAnotherSignIn`, `SignedOutEverywhere` |
| `settings` | 4 documented root files, 1 edit, 2 runs of the stack | `OneConnection`, `StackStopsWhole` |

Bounds. In `orders` two callers are enough to collide on one index; the third
makes a wait behind a wait possible, and on two pods one can die while the other
goes on. Four messages cover the ways two deliveries can be related: same message, same
correlation id with different keys, different correlation ids, and a malformed
one that shares the id of a proper one. `MaxCopies` is 2 in `orders`, where copies
are counted, and 1 in the runs of the listeners, which do not look at them; the
proofs hold for any number. With one partition two pods meet most
often; partitions share nothing but their pods. In `delivery` three records let
an offset pass a failed record. Two faults give a failure during the recovery
from another; `bus` has one, since its locks end and its pods leave messages
behind without a fault as well (with two faults its safety properties hold on
1.6 million states, its liveness takes too long). In `shop` carts of different
users are different keys and share nothing but the pods, so one user is enough;
two requests at once are what overlaps, and two additions let an item arrive
between a snapshot and a clear. In `tasks`, `MaxWrites` 4 allows two updates
around a deletion and a re-insertion. In `board` the second task is the one a
modal is opened for while the first is saved. In `session` a token can be issued,
expire and be issued again, and each of two tabs can have a request with an older
token on its way (932,920 states). In `settings` one edit between two starts is
what makes two processes disagree; every key of every file can be the one edited.
Every bound is a constant of its module and is used in a guard. Deadlock is not
checked in the runs that stop when their logs, messages, additions, ids or runs
are used up (`kafka`, `bus`, `shop`, `shop_transport`, `delivery`,
`delivery_retry`, `board`, `settings`). It is checked in the others.

Symmetry is used only in runs without liveness properties.

### Fairness

`OrderService`'s calls, in the listeners: strong fairness of a call's own
steps, because a transaction that waits in an index is woken when the holder
ends (Postgres queues the waiters), though others may take the value in between.
The listeners: their loops run (`for`, `while`, kafkajs's runner), the group
assigns a free partition to some pod as long as one has joined it, the broker ends
a lock nobody renews. Nothing makes a pod join: whether its consumer connects is
decided once, when it starts, and no fairness speaks of it.
`WebSession`: time passes, a browser delivers storage events and runs due timers
(all weak); no user, request or answer is fair. `DevStack`: a child that has been
sent SIGINT ends. No fairness is assumed of producers, users, failures or
rebalances, and `MaxFaults` bounds the failures: what recovers does so when the
failures stop. `Storefront`, `TaskBoard` and `TaskService` state safety only.

### Where code and words differ

Three runs check a sentence of the repository and find it violated.

| Run | Sentence | What the code does |
|---|---|---|
| `delivery_retry` | `OrderCreatedKafkaConsumer.cs:94-95` "Don't commit — partition will retry." | `Consume` has moved on; the next commit stores an offset past the failed record, and the order has no task |
| `shop_transport` | `README.md:44` "based on which env vars are present" | based on whether the producer connected when the pod started |
| `tasks_conflict` | `TaskItem.cs:28-33` the controller answers 409 | nothing catches the exception: 500 |

More places read too strong, in a way a reader of the models can see without a
run: a duplicate `OrderCreated` is ignored (`apps/task-svc/README.md:128`) only
while the task exists, so it brings back a task a user has deleted; a single
transient failure sends a checkout to the dead letter queue, which is not the
blocking and retrying partition `kafka-checkout-listener.service.ts:69-72`
compares it with; removing a cache entry after the write commits
(`TaskService.cs:180-182`) narrows but does not close the race with a reader that
read before the write and fills after the removal; and
`KafkaConsumerConfiguration.cs:7` promises the semantics of
`packages/shared/src/kafka.ts`, from which it differs for the settings that
`OneConnection` lists: only task-svc reads
`KAFKA_SSL_ENDPOINT_IDENTIFICATION_ALGORITHM`, and the topics script passes
`KAFKA_SASL_MECHANISM` to kafkajs unchecked where the others fall back to
scram-sha-256; and `seed-secrets.mjs` forwards none of `KAFKA_SSL`,
`KAFKA_SASL_MECHANISM` and `TASK_DATABASE_URL`, although its header speaks of any
`KAFKA_*` key, so that a pod logs in to Kafka with another mechanism than the local
process of the same file, and one of task-svc cannot start from a seeded secret.

Some properties say less than one would wish, because the code does no more. Each
names its exceptions, and a mutant or a dropped exception violates it:

- `ItemsConserved`, `OrderedOnce` and `OrderedWasShown` exempt users whose requests
  overlapped: two tabs' worth of requests from one tab lose items or order twice.
  `OrderedOnce` also exempts a user told of an error for a checkout that went out.
- `EveryCheckoutOrdered` promises nothing while no pod has a consumer, which lasts
  until a pod is replaced: a broker outage at the start of both pods stops the
  group although the pods look healthy.
- `DeadLetterHasCause` counts one failed query as a cause: the checkout is then in
  the dead letter queue for good.
- `ValidSessionEndsForAReason` lists a late 401 of an older token, the clamped
  timer and a wrong password in another tab as reasons.
- `MixedByAnotherSignIn` says that a tab shows one user's data under another's
  token only after a sign-in elsewhere, or a sign-in answered late.
- `ListIsCurrent` allows the list of the filters a mutation began under, and a
  deleted task in an answer to a request sent before.

### Mistakes the properties would catch

A definition named `...Bug` is the definition after it with a plausible mistake;
no specification uses one. Putting it in place of the original violates the
property named.

| Module | Mistake | Property |
|---|---|---|
| `OrderService` | `CorrTakenBug`: another column is unique | `OneOrderPerCorrelation` |
| | `CorrHeldBug`: the insert does not wait | `SaveNeverOverwrites` |
| | `CommitBug`: order and key not in one transaction | `KeysAndOrdersAgree` |
| | `SaveKeyBug`: publishes inside the transaction | `AnswersAreCommitted` |
| | `AnswerExistingBug`: publishes for a redelivery too | `OnePublisherPerOrder` |
| | `EmitRetryBug`: resends after an error | `TypeOK`, `ImplementsOrderBook` |
| | `EmitUndoBug`: deletes an order it could not announce | `RowsAreFinal` |
| | `DuplicateCorrelationBug`: retries the insert | `EveryCallEnds` |
| `KafkaCheckoutListener` | `AssignBug`: no reset policy | `KTypeOK` |
| | `AssignEndBug`: every session begins at the end | `EveryCheckoutOrdered` |
| | `FinishSwallowBug`: the exception is not rethrown | `OffsetsFollowOrders` |
| | `DeliverAheadBug`: the call is not awaited | `OrdersFollowTheLog` |
| `ServiceBusListener` | `BeginKeepBug`: the message stays in the batch | `BTypeOK` |
| | `BeginEarlyBug`: completes before the call | `CompletedMeansOrdered` |
| | `BeginTwiceBug`: ignores redelivered messages | `EveryMessageSettles` |
| | `DeadLetterBatchBug`: dead-letters the whole batch | `NoCheckoutLostUnfailed` |
| | `GiveUpBatchBug`: the rest of the batch is dead-lettered too | `DeadLetterHasCause` |
| `ShopCheckout` | `SetCartBug`: a retry adds twice | `NothingFromNowhere` |
| | `PublishBug`: clears after a failed send | `ItemsConserved` |
| | `ClearCartBug`: the cart is kept | `OrderedOnce` |
| `Storefront` | `OpenCachedBug`: shows a cached cart | `OrderedWasShown` |
| `OrderCreatedConsumer` | `AssignBug`, `AssignEndBug`: as above | `CTypeOK`, `EveryOrderIsDelivered` |
| | `ConsumeBug`: commits on read | `OffsetsFollowTasks` |
| | `EnsureDeliveryTaskBug`: an upsert | `EditsSurviveRedelivery` |
| `TaskService` | `FetchBug`: no null check | `TypeOK` |
| | `SaveBlindBug`: no concurrency token | `NoLostUpdate` |
| | `SaveEarlyBug`: invalidates before the write | `StaleHasACause` |
| `TaskBoard` | `ClickableBug`: a modal that leaves the page clickable | `TypeOK` |
| | `SaveTwiceBug`: Save is never disabled | `SavesItsOwnTask` |
| | `DeletedNoRefetchBug`: no refetch after a delete | `ListIsCurrent` |
| | `FilterStaysBug`: a filter missing among the memo's dependencies | `ListIsCurrent` |
| `Accounts` | `InsertedAnywayBug`: a lost race signs in all the same | `TokensNameAccounts` |
| `WebSession` | `ShowUnguardedBug`: no RequireAuth | `TypeOK` |
| | `StoredEarlyBug`: a token counts as expired too early | `ValidSessionEndsForAReason` |
| | `WithoutQueriesBug`: a left page's queries are not cancelled | `MixedByAnotherSignIn` |
| | `DueLateBug`: the timer is due after the expiry | `SignedOutEverywhere` |
| `Settings` | `NestEnvBug`: the service's own file first | `OneConnection` |
| | `TaskKafkaBug`: KAFKA_SSL is not looked at | `OneConnection` |
| `DevStack` | `ExitNoStopBug`: the other child is not stopped | `StackStopsWhole` |
| | `FirstCodeBug`: the last exit code wins | `StackStopsWhole` |

## 4. What is proved

Every theorem holds for all values of the constants that satisfy the named
assumptions of its module. None of the invariants is inductive alone; each proofs
module states the strengthening and shows `Init`, every action and the
consequence.

**`OrderServiceProofs`**: `TypeCorrect`, `UniqueOrders`, `KeysAgree`,
`NoKeyIsTakenOver`, `SinglePublisher`, `AnswersCommitted` (the six invariants of
`orders`), `RowsFinal` (the action property) and `Refinement` (`OrderService`
implements `OrderBook`). `OneOrderPerCorrelation` survives `Commit` only if the
committing transaction is alone on its correlation id and finds it free, which is
`SaveNeverOverwrites`; that one survives a `Commit` of another worker because two
transactions past their insert never share a correlation id, and its part about
keys because every claimed key belongs to an order with the key's correlation id
(`KeysAndOrdersAgree` and the assumption `KeyMeansOneCorrelation`).
`OnePublisherPerOrder` needs uncommitted uuids to be nobody else's
(`PendingIdsAreFresh`). `IInv` joins them with `TypeOK` and `CallsHaveArguments`.
The refinement uses that a correlation id with an order has exactly one
(`OneOrderOf`), so the mapping's CHOOSE is determined: `Commit` is `Accept`, an
`Emit` that leaves copies is `Publish`, every other step stutters. `NoCircularWait`
is the safety half of `EveryCallEnds`: a transaction that others can wait for waits
for nobody, since two transactions past the insert of their orders have different
correlation ids, hence different keys; the wait for a key never happens.

**`KafkaCheckoutProofs`**: `OffsetsFollowOrdersHolds`, `OrdersFollowTheLogHolds`,
`KTypeCorrect`. Since each step is one of `OrderService`'s (`DrivesStep`), `IInv` is
available under the listener. `RecordInHand` ties a pod's record to the arguments of
its call and, while the pod owns the partition, to the read position: with
`AnswersAreCommitted` an answered call then has the order of the record that is
resolved, and a position moves by one. `OrdersFollowTheLog` rests on
`OffsetsFollowOrders` when a record is handed to a pod, and afterwards on a `base`
that only moves forward and orders that stay.

**`ServiceBusProofs`**: `CompletedMeansOrderedHolds`, `BTypeCorrect`, along the same
lines with `CallIsOfMessage`, and
`NoCheckoutLostUnfailedHolds`. The invariant `UInv` behind the last: while nothing
has failed, the messages in a pump's hands are locked by it, every lock is of such a
message, and a call that threw was malformed or has its order already, made by
another copy. Without the locks two pumps could settle one message twice.
`DeadLetterHasCauseHolds` goes on where that one stops: a call that threw was
malformed, has its order, or met a failing query itself (`ThrowsHaveCause`).

**`StorefrontProofs`**, of both shop modules. In `ShopCheckout` alone:
`NothingFromNowhereHolds`. What a call has read was once in the cart, hence added
(`SeenWasAdded`), and `added` only grows. Under the pages:
`NothingFromNowhereInStore` (every step of the pages is one of `ShopCheckout` or
none), `OrderedWasShownHolds`, `ItemsConservedHolds` and `OrderedOnceHolds`. `OrderedWasShown` rests on the cart
on the screen being the cart in Redis as long as the user's requests do not overlap
(`PageIsCurrent`, `OneAtATime`), and on a checkout in progress having the cart of
its click (`CheckoutIsOfPage`). The other two are entries of one ledger (`LInv`),
kept for users whose requests do not overlap: what a call has read is the cart of
this moment (`SeenIsCurrent`), and for every item

    added <= in the cart + ordered + expired
    ordered + in the cart <= added               unless the user is unsure

(`Balance`), where the items of a cart that was sent and waits for its DEL count as
ordered and no longer as in the cart (`InCart`). The ledger needs the
invariant of the pages, for without `OneAtATime` an addition between snapshot and
clear is deleted unseen.

**`TaskSvcProofs`**, of the consumer (`OffsetsFollowTasksHolds`,
`EditsSurviveRedeliveryHolds`, `CTypeCorrect`) and of the requests
(`NoLostUpdateHolds`, `StaleHasACauseHolds`, `TypeCorrect`). What the group has read
or stored lies below a record that was inserted, has failed or is in some pod's
hands (`ReadIsDelivered`, `StoredIsDelivered`), and tasks exist only for inserted
rows (`TasksWereCreated`); a pod has read up to the record in its hands while it owns
the partition (`OwnersArePlaced`). For the requests: versions never recur
(`VersionsAreFresh`) and a version that an update has replaced is in no row
(`ReplacedIsGone`), so an update is of the current row and every earlier one of
another.

**`TaskBoardProofs`**: `SavesItsOwnTaskHolds`, `ListIsCurrentHolds`,
`TypeCorrect`. `FormIsOpenTask` says when the form holds the open task,
`WatchedIsShown` that the watched list is the one of the filters or has strayed,
`GoneSince` what an answer on its way may still name.

**`WebSessionProofs`**: `TypeCorrect`, `TokensNameAccountsHolds`,
`ValidSessionEndsForAReasonHolds` and `MixedByAnotherSignInHolds`, for any number of
tabs, accounts, forms and requests. The invariant `WInv` is `TypeOK`,
`TokensNameAccounts` place by place (`NamedTokens`), and that a query in flight
belongs to a tab on a private page (`QueriesArePrivate`). Tokens are handed from
storage to tab to event to request, so a proof for one place needs the others; the
third part says that a tab that has left its private page waits for nobody's data.
The two action properties
are then shown action by action: of most that they change nothing the property
speaks of, of the rest that they are one of its reasons. `ExpiredIsDueHolds` is what
`SignedOutEverywhere` rests on when no storage event helps: a timer is never set for
later than the expiry of the token its tab holds (`TimersCover`), so a tab with an
expired token has a timer that is due.

**`DevStackProofs`**: `OneConnectionHolds`, for any root files and any number of edits
and runs. The files change under the processes, so the invariant `DInv` speaks of
what a process has read: how it was made from the root file of that time (`Derived`)
and that the process could boot with it (`RunningIsDerived`), the same of the secret
(`SecretIsDerived`). The rest is about `Settings` alone: `NestAgrees`, `PodAgrees`,
`TaskAgrees` and `ScriptAgrees` show that each of the other readings of a root file
is `NodeKafka` of it unless `Mixed`, and `RedisOfRoot` that a process of shop-svc
boots with none of the forms on which the two Redis clients could still differ.
`ScriptAgrees` is where the proof needs the values a mechanism may have: the script
agrees with the rest on the three known ones and on none.
`StopsTogetherHolds` and `FirstCodeStaysHolds` are the safety of `StackStopsWhole`:
whoever is left has been told, the stack has ended exactly when both children are
gone, and its code is that of the first. `PInv` says what the children and the code
can be in each phase.

Assumptions. Besides the types of the constants (`MaxForms`, `MaxTimeout` and the
other bounds are naturals; `None` is no token, account or number; the templates of
`DevStack` are environments; `MaxCopies` is a natural), three say something of the system:
`KeyMeansOneCorrelation` (above), and `OnePodOneCall` and `PumpPerPod`: a listener has
one message in its hands at a time, as `eachMessage` and the pump's loop do.

Only model-checked: the liveness properties (`EveryCheckoutOrdered`,
`EveryMessageSettles`, `EveryCallEnds`, `EveryOrderIsDelivered`,
`SignedOutEverywhere`, `StackStopsWhole`), which rest on fairness and so on ENABLED,
out of the prover's reach; of three of them the safety they need is proved
(`NoCircularWait`, `ExpiredIsDueHolds`, `StopsTogetherHolds`; their statements
stand in the proof modules and belong to no run). Every invariant, every action property and every
refinement that a run checks is proved as well.

## 5. Not modelled

- Product catalogue, order queries, the form for a product and the list of
  orders: plain reads and inserts whose results no other step depends on.
- The rate limiters of the gateway and of task-svc: the counters live in libraries;
  refusals are among the failures the models allow.
- Metrics, tracing, logging, generated contracts, deployment manifests.
- Which rows a task filter matches, paging arithmetic, rendering; the content of
  messages, which are model values: DTO validation appears as the malformed message.
- Of the scripts: the Grafana part of `seed-secrets.mjs`, `check-kafka-pems.mjs`,
  the creation of topics, the syntax of `.env` files (their four parsers are taken to
  agree on it), and the names of topics and groups.
- task-svc's in-memory cache, which is not meant for several replicas.

## 6. Plan

Done: all modules above. What could follow:

1. `CheckoutPipeline`: shop-svc, order-svc and task-svc composed over their topics,
   each by its promise (`OrderBook` for order-svc), with end-to-end properties.
2. The safety that the liveness of the listeners rests on: where a record or a message
   that is not settled can be.
