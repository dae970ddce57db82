# eShopOnContainers (DDD workshop): TLA+ models, checks and proofs

This directory models the shop in `src/`, a cut-down eShopOnContainers without
an event bus: services call each other over HTTP and gRPC, keep their state in
SQL Server or Redis, and have no transaction that spans two of them. Most of what
can go wrong is therefore about steps of several requests that interleave, calls
whose fate is unknown, and copies that are stale when they are written back. That
is what most modules are about. The others are about the one large program the
repository ships to browsers, the token client of Basket.API's Swagger page: a
manager of tokens shared by windows, a promise library, and the arithmetic behind
the signatures of tokens.

`tlc -config X.cfg MCModule.tla` runs a check, `tlapm Module.tla` a proof.
Paths below are relative to `src/src/`.

## 1. The system

| Component | State | Operations | Talks to |
|---|---|---|---|
| Ordering.API (`Services/Ordering`) | tables orders, orderItems, buyers, paymentmethods, cardtypes (SQL Server through EF Core) | new order, cancel, ship, list, details, draft (HTTP and gRPC) | called by WebMVC and the aggregator |
| Basket.API (`Services/Basket`) | Redis: one JSON value per buyer | get, overwrite (HTTP and gRPC), checkout, delete | called by the aggregator (gRPC) and by WebMVC through the gateway |
| Web.Bff.Shopping aggregator (`ApiGateways`) | none; a copy of a basket per request | add an item, replace items, set quantities, draft | Basket.API, Catalog.API, Ordering.API, all gRPC with `GrpcExceptionInterceptor` |
| WebMVC (`Web/WebMVC`) | none; the page in the browser | cart, order page, checkout, cancel, ship | aggregator, Basket.API, Ordering.API |
| Catalog.API (`Services/Catalog`) | tables of items, brands, types | queries, create, update, delete | called by aggregator and WebMVC |
| Webhooks.API, WebhookClient | table of subscriptions; a list of received hooks, in memory | subscribe (with a handshake), unsubscribe, send; check, receive | each other |
| Token client (`Services/Basket/Basket.API/Auth/Client`): `oidc-token-manager.js`, a bundle of several libraries that the repository ships, and `enable-token-client.js` | `localStorage`, shared by the windows of a browser: one key for the token, one for the state of a request; per page a manager with timers and at most one popup | ask for a token (redirect, popup, hidden frame), renew, expire, log out, hear of other windows | an authorization server, other windows |
| - its promises (es6-promise) | promises, subscribers, one queue of jobs | new, resolve, reject, then, all, race; flush | the manager |
| - its numbers, hashes, certificates (jsbn, jsrsasign, CryptoJS) | none, but for the buffers of hashers | arithmetic, RSA, SHA-1/256/512, Base64, ASN.1 | the manager, to verify tokens |
| Identity.API (`Services/Identity`) | users and grants kept by libraries | login, consent, tokens | all web clients |
| Startup: `MigrateDbContext`, the `...ContextSeed` classes | the tables they fill | migrate, seed, retry | every service with a database |
| Ordering.BackgroundTasks, Ordering.SignalrHub, Payment.API, WebStatus | none left | health checks | - |

What makes the parts hard, and what makes them correct:

* **New order.** Three saves in one request with a read between them, no
  transaction, EF Core's retries of commits that were not acknowledged. Correct
  when an order ends up with the buyer and the card of its own request, an answer
  201 means that the customer sees the order, status and description agree, and a
  failure has a cause outside the request. An order that fails at the second save
  stays behind without a buyer; cards can be stored twice. Both are the code's
  behaviour and the properties say exactly when.
* **Cancel and ship.** The status found is not looked at, only columns that differ
  from the row read are written, and the last save of the new order rewrites the
  whole row. Correct when no row is torn and a shipped or cancelled order that its
  customer can see does not fall back to Submitted.
* **Basket.** Read, change the copy, overwrite; a failed call is a null answer, so
  a failed read looks like an absent basket and a failed write like a success.
  Correct when a product has one line, a request alone does exactly what it means,
  and overlapping requests lose whole changes but never mix them.
* **Checkout.** The basket is deleted in one service, then the order is asked for
  in another. Correct when a careful customer loses nothing and orders nothing
  twice without having been told of an error.
* **Lines of an order.** Merged one by one with a checked-out draft merged again.
  Correct when the result is the merge per product whatever the order of lines.
* **Startup.** Each service migrates and seeds its database before it serves; a table
  is filled if it is empty, and several instances do so at once, fail, stop and start
  again. Correct when who serves without an error has all the rows, when only a race
  of two instances doubles a row, and when starts repair what starts left behind.
* **Catalog.** An item is put back whole, so an edit can be undone by a client that
  looked earlier; saves that got no acknowledgement are repeated; prices are copied
  into baskets and never refreshed. Correct when an edit is lost only to one that
  looked before it, a deleted item stays away, answers tell the truth, and nobody is
  charged a price that was never offered.
* **Webhooks.** A subscription is stored after its receiver granted it, hooks are sent
  with the stored token, and the receiver keeps a list that requests append to
  unlocked. Correct when granted hooks are accepted and those accepted are listed,
  whenever no two were received at once.
* **Token client.** Windows write the same two keys and hear of it later; timers,
  answers and the user come in any order. Correct when a window shows the stored
  token or will soon, a token that was just stored is not removed, requests that do
  not overlap succeed, and a popup that is gone does not block the next.
* **Promises.** Correct when a promise settles once, handlers run once and in order, and
  nobody waits for what is settled; resolving functions may be called twice, at any
  time, with promises and thenables.
* **Numbers and hashes.** Correct when digits compute what integers do, hashes what the
  standards say, for inputs in any chunks, and when two hashers do not share state.

`PROJECT.json` lists every part and, under `hazards`, each of these at its line.

## 2. The modules

| Module | Models | Extends / instantiates |
|---|---|---|
| `Ordering` | `OrdersController.NewOrderAsync`, `CancelOrderAsync`, `ShipOrderAsync` over the tables of `OrderingContext` | instance of `OrderBook` |
| `OrderBook` | what the ordering service promises: the abstract specification | |
| `OrderingInv` | the inductive invariant `IInv` | `Ordering` |
| `OrderingProofs` | its theorems, what only overlapping requests can do, and the refinement | `OrderingInv`, TLAPS |
| `OrderManager` | `OrderManager.AddOrderItem`, `GetTotal`, the draft endpoints | |
| `Basket` | Basket.API's store and the aggregator's three handlers | |
| `Purchase` | WebMVC's cart, order page and checkout over the basket and the order service | instance of `OrderBook` |
| `SeedHost` | `MigrateDbContext` and `Program` of Catalog.API and Ordering.API: instances that start, give up, stop and start again | |
| `CatalogSeed` | `CatalogContextSeed.SeedAsync`: brands, types, items, pictures | `SeedHost` |
| `OrderingSeed` | `OrderingContextSeed.SeedAsync`: card types, statuses | `SeedHost` |
| `IdentitySeed` | `SeedData.EnsureSeedData` and its retry policy | |
| `Catalog` | `CatalogController`'s PUT, POST and DELETE, the prices copied to baskets and charged | |
| `Stock` | `CatalogItem.AddStock`, `RemoveStock` | |
| `Webhooks` | `WebhooksController`, `GrantUrlTesterService`, `WebhooksSender`, and WebhookClient's check, reception and list | |
| `TokenManager` | `TokenManager` and `enable-token-client.js` in several windows | |
| `OidcClient` | the `OidcClient`s of one page, its own and one per renewal or popup: calls that load the provider's metadata and keys, and check tokens with them | |
| `Promises` | the promise library | |
| `BigInteger`, `Rsa` | jsbn: digits, division, the four reducers, powers, primes, keys | `Rsa` extends `BigInteger` |
| `Numbers` | the two against the integers | instances of both |
| `Sha`, `Base64`, `Certificate` | the block functions of the hashes; Base64; ASN1HEX and X509 up to the key | |
| `Ciphers` | the three against their standards | instances of the three |
| `Hasher` | `WordArray`, `BufferedBlockAlgorithm` and the hashers as objects that share parts | |
| `BasketProofs`, `PurchaseProofs`, `PromisesProofs` | their inductive invariants and theorems | the module they are named after, TLAPS |
| `SeedsProofs`, `IdentitySeedProofs`, `ShopProofs`, `TokenManagerProofs` | the same for the specifications that a run checks together | `MCSeeds` (both), `MCShop`, `MCTokenManager`, TLAPS |
| `MCOrdering`, `MCBasket`, `MCPurchase`, `MCCatalogSeed`, `MCPromises` | bounds, scenarios and symmetry for TLC | the module they are named after |
| `MCTokenManager` | the token manager and its client in one run | `TokenManager`, instance of `OidcClient` |
| `MCSeeds` | the three seeds in one run | `OrderingSeed`, instances of `CatalogSeed` and `IdentitySeed` |
| `MCShop` | Catalog, webhooks, stock and lines in one run | `Catalog`, instances of `Webhooks`, `Stock`, `OrderManager` |
| `MCAlgorithms` | numbers and hashes in one run | instances of `Numbers`, `Ciphers`, `Hasher` |
| `MCDivision` | division with digits of other lengths | `Numbers` |
| `MCGoods` | the items of the catalog's seed | |

### Ordering

One action per await. A new-order request `r` goes through `saveOrder`,
`readBuyer`, `saveBuyer`, `saveLink` to `created`, `failed` (an exception, 400 or
500) or `lost` (its process stopped); a status change through `find` and `save`.
Ids come from HiLo sequences, drawn before the first save, so a row is named by the
request that inserts it. `SaveOrder`, `SaveBuyer` and `SaveLink` are one database
transaction each, which is either acknowledged or not; when it is not, the
execution strategy of `EnableRetryOnFailure` runs it again (`Unacknowledged`), up to
`MaxRetries`, and a repeated insert violates its own primary key
(`SaveOrderAgain`, `BuyerRefused`). 
What the database refuses is in the guards. `OrderAccepted` needs the tables, a fresh
primary key and lines within their columns. `BuyerAccepted` holds the unique index on
IdentityGuid, the primary keys, the foreign key to cardtypes, and the NOT NULL and length
constraints of a payment method's card number and holder. Nobody validates
`NewOrderModel`, so a request may break any of them: `flaw` is the first thing wrong with
it besides the card, and a number outside `StoredNumbers` is missing or too long. A request
without its list of lines throws before anything is stored (`Receive`); a payment method that was
found is rewritten as it was read, so its order needs no number or holder of its own to be
accepted. `ready` says that the tables are there: outside Kubernetes the service runs
although its migration failed, and `Prepare` is the start that makes up for it.

`SaveLink` writes the whole row because `Orders.Update` marks every column
modified; `SaveStatus` writes the columns that differ from the row found, because
the change tracker compares with its snapshot. `ListedFor` is `GetOrdersAsync`.
Addresses and dates are left out: nothing depends on them.
`hit` and `overlapped` are history variables for the properties only.

### OrderBook

The promise without tables and retries: every request has an order of its own that is
recorded, then placed (owner and card set, possibly again), and answered, unless it is
refused when it comes; changes of the status apply to any recorded order. `Ordering`
implements it under the mapping `BookRequest` ... `BookAnswer`; `Purchase` uses it as its
order service.

### OrderManager

`AddLine` is one turn of the loop that `NewOrderAsync` and the two draft endpoints
share. Decimals are small integers; units are two's complement integers of
`WordSize` bits, as C# adds ints unchecked. `Merged` says without a loop what the line
of a product should be, and `Sum` adds up numbers without cutting them to an int.

### Basket

`Receive` makes the checks of the payload, `Read` the call `GetByIdAsync` and all that
follows up to the next await (`Handle`), `Write` the call `UpdateAsync`. `ReadFails`,
`CatalogFails` and `WriteFails` are the same calls when the interceptor returns null.
`Command` is a single Redis command of Basket.API's own HTTP operations. A basket is a set
of lines `[id, product, quantity]`, or `NoBasket` where the store has no value; names,
pictures and prices are left out. New ids (GUIDs) are named by their request, and clients
may also send ids of their own, or none: such lines are dropped on the way to gRPC
(`Stored`), and make a stored basket unreadable over gRPC (`Seen`). `Meaning` says a second
time, without copies and lines, what a request asks for; `After` applies it along a sequence
of requests. The properties compare the two.

### Purchase

A unit of a product is named by the request that adds it. `AddToCart`, `AddRead`,
`AddWrite` are the aggregator's read and overwrite; `Create` shows a page with the
basket as it is; `Checkout` posts a page, `CheckoutBasket` deletes the basket,
`CreateOrder` reaches the order service, which goes on by itself with the actions
of `OrderBook`. Every call may fail, before or after its effect, and WebMVC may
stop. The browser keeps the page, so it may be posted again; nothing reads its
`RequestId`. `disturbed` records customers who start something while something else
of theirs is going on, and those whose additions met a failed call (a wiped basket
is Basket's subject).

### SeedHost, CatalogSeed, OrderingSeed

`SeedHost` has what the two services share: an instance is `down`, somewhere in its
seeder, or `running`; `Abandon` is what `MigrateDbContext` does with an exception
(end the process under Kubernetes, else log it and run), `gaveUp` remembers it.
The Polly policies are not there as loops because they never catch anything: they
handle `SqlException` of System.Data.SqlClient, EF Core throws that of
Microsoft.Data.SqlClient. `CatalogSeed` and `OrderingSeed` have one action per
database operation; `Applied` is what the operation an instance is at does to the
database, so that `Interrupted` can be a failure or a stop before or after the
effect. A brand is named by its place in the inserted list; `block` counts the
blocks drawn from a HiLo sequence, and a row's id is its place in the block. Item
ids are left out, nothing refers to them. `overlapped` is a history variable.

### IdentitySeed

`tracked` is the change tracker of the context that all attempts of a process share;
`CreateAsync` is the validation and the addition of the user, `SaveChanges` the
insert of everything tracked, `Throw` the policy or the end of the process. `MCSeeds`
assumes `IdentityAssumption` of the constants it gives the module.

### Catalog, Stock

A PUT is in `find` until it has looked for its item and in `save` until every column
of its payload is written; the payload is the item as the client saw it (`ItemById`) with
one field edited. `saves` is the history of every row, `base` the place in it that a
client saw: `LostEditExplained` says by these which edits may be undone. A save is
committed and acknowledged, or repeated (`EnableRetryOnFailure`), so a create can
insert its row once more after it was deleted, and a client can be told of an error
though its change is there. `AddStarts` ... `AddWrites` copy a price into a basket, with
the aggregator's reads in either order, and `Checkout` charges what the basket says;
`offered` holds the prices an item has had since its customer asked for it.
`Stock` has the two methods over integers of `Width` bits: `AddStock` takes stock away
from an item above its threshold, which the items of the default catalog are (stock
100, no threshold), and overflows. Nothing in the repository calls the two methods.

### Webhooks

Receivers are WebhookClient or `"other"`. `GrantUrlTesterService` asks the grant URL of a
subscription, after its origin was compared with that of the receiver's; the model takes
WebhookClient's origin for its `/check`, so other paths of that origin are not
distinguished. `/check` and the reception compare a header with the token WebhookClient is
configured with now; the answer to a wrong token in `/check` starts the body before its
status is set, which is an exception. `AddNew` is split into the read of the list's size and
the write of slot and size, as `List.Add` does them without a lock; an enumeration that an
addition interrupts (an exception to the reader only) is left out. WebhooksSender has no
caller in the repository, so a hook may be sent for any subscription at any moment.

### TokenManager

`store` and `state` are the two keys of `localStorage`, `events` the storage events on
their way to each window, `expiredAt` and `expiringAt` the timers of the manager.
`RedirectForToken`, `OpenPopup` and `RenewTokenSilent` begin a request, `Answer` is
what the authorization server sends, `Script` what the library does next. Of a token
only the request that fetched it and its expiry are kept. What the model shows of the
code, all of it part of the properties:

* Renewals of two windows spoil each other: the single state key is overwritten.
* A timer of an old token removes a newer one from the store when the storage event of
  the new token has not been delivered, or while its page is still loading.
* The late cleanup of an old popup forgets the manager's current one.
* A token's validity is counted from the time it is saved, not issued.

Tokens without an access token never expire when `filter_protocol_claims` has removed
`exp`; the model has access tokens only, as the client asks for. The second manager in
`popup.html` only hands the answer to its opener and is left out.

### OidcClient

`metadata` and `jwks` are settings of a client, `Client(c)` the client that call `c` uses.
The `Page`'s own client takes requests by redirect and logouts (`Request`) and the answers
of redirects (`Validate` of a call whose use is `"validate"`). `Renew` is a silent renewal
or a popup: a client of its own, with a copy of the page's settings as they are then
(`renewTokenSilentAsync`, `openPopupForTokenAsync`), and what it loads stays in that copy.
`Issue` is the provider's answer, `Validate` and the `...Arrives` actions are
`validateIdTokenAndAccessTokenAsync` from one request of it to the next. `Reload` forgets
every client but not the answer of a redirect, which is in the address of the page. `used`,
`checked`, `shown`, `met` and `had` are histories. What holds in spite of the copies: a
genuine token is refused only because of a key that the page's client has loaded since the
page was, the application's, or one published while the token was on its way
(`UnverifiedExplained`); and the keys the page's client has loaded are those of all its
later validations and of every renewal that begins afterwards, unless validations of the
page's client loaded keys together (`FirstKeysStay`). Renewals that begin before them may
use others, without any overlap.

### Promises

`heap` is what the library keeps, and `Asap` ... `InvokeCallback` its internal
functions, each an operator from a heap to the next. The script (`NewPromise`,
`CallResolver`, `Then`, `PromiseAll`, `PromiseRace`, answers of thenables) runs between
two steps of a flush, as handlers do. A promise that has adopted a pending one is not
locked: a second call of its resolving function settles it, against the comment "the
original promise's settled state will match the value's settled state"
(`FollowsAdopted` excludes such calls). A thenable that throws a falsy value leaves its
promise pending for good (`ForeignJob`). `Unreadable` is an object whose `then` throws when
it is read.

A thenable that answers with itself, at once or later, is not asked again but becomes the
value of its promise (`handleForeignThenable`), against the comment "A fulfillment value is
never a thenable" (line 7231). Whoever has adopted that promise, or races over it, then
resolves with the thenable and so calls it once more; it may answer otherwise, or never. So
the outcome of an adopting promise is that of the adopted one, and of a race that of an
entry, unless that value is a thenable (`FollowsAdopted`, `OneOfThem`), and only of other
values is it certain that those who wait are told (`Conclusive`, `WaitersAreTold`).
`foreign` counts the calls of thenables that have not answered.

### BigInteger, Rsa, Numbers

A digit has `DB` bits in place of 26, 28 or 30, and the other sizes shrink with it;
everything else is the code's algorithm, with the arrays whose length and used part
differ. `Numbers` asks of each function whether its digits stand for the right integer:
sums and products (also in place), shifts and logic, division, the three `am` loops, the
classic, Montgomery, Barrett and null reducers, powers by windows, gcd and inverse,
texts in any base, bytes, primality, key generation and the two RSA operations. Two
limits of the code are outside the inputs: `modInverse` does not end for zero and for
negative numbers, and `modPow` answers 1 for exponent 0 even modulo 1. Digits above the
used ones (`montConvert` of 0) occur and do no harm. Nothing in `RSAGenerate` keeps the
two primes apart.

Division estimates a digit of the quotient with two rounded quotients `d1` and `d2` of
floating-point numbers. `Double` rounds as they do, to `FP + 1` bits in place of 53 and to
the even one of two, and `Estimate` multiplies and adds with a rounding each. The loop after
it corrects only an estimate that is too large. `F2`, the bits that two digits have beyond
the 52 after the leading one, decides whether one can be too small: the lower digit is
raised by `e = 2^F2`, which outweighs the leading digits that were cut and the three
roundings if `F2` is positive (4 for digits of 28 bits, 8 for 30), but not if it is 0, as
for digits of 26 bits. `algorithms` has `F2 = 1`, `division26` has `F2 = 0`.

### Sha, Base64, Certificate, Ciphers, Hasher

`Sha` cuts numbers where the code cuts them (`|0`, shifts); the standards in `Ciphers` are
written over sets of bits. `W` is 5 instead of 32, and rounds are 20 instead of 64 or 80, 5
for 20 in SHA1. `Hasher` leaves the block function out and keeps which bytes reach it:
`concat` clamps only its own array, so a chunk with bytes beyond `sigBytes` that are not
zero gives a wrong digest, and the digest of SHA1 and SHA256 is the hasher's own hash
object, which a later call of that hasher, used on without a reset, changes (`DigestsKept`).
Known limits of the certificate code: `getPosArrayOfChildren_AtObj` reports a child for an
empty object, and the check before `a[6]` admits six entries.

## 3. The runs

| Run | Bounds | Shows |
|---|---|---|
| `ordering_race` | three scenarios. `race`: 3 new orders, 2 users, cards of two types, "no type" and a missing one, 1 retry; `card`: 4 requests of one user, two cards, or 3, the last without the holder's name; `status`: 1 order, 3 status changes, 1 retry each, or 1 change when something is wrong with the order, and tables that come late | type, links, 201 means listed, failures explained, cards stored once, a doubled card is dead, description and status agree, a listed order keeps its status |
| `ordering_book` | 2 requests of a user, with their lines or without, 1 status change, 1 retry, fairness | `IInv`, the refinement of `OrderBook`, every request ends |
| `basket_race` | 3 requests of one buyer, all operations and inputs, failures and crashes | one line per product (`BasketsSound`); some order explains every basket; requests one at a time do what they mean |
| `purchase` | 2 additions, 2 pages, 3 posts, every failure | nothing lost, nothing twice, nothing left in the basket |
| `purchase_error` | 1 addition, 1 page, 1 post | a disagreement, below |
| `seeds` | Catalog: 2 instances, with and without files and Kubernetes, 2 brands and types, from a file a good item and one of unknown type, 2 preconfigured items, 2 failures or stops; Identity: 2 instances, with and without the policy, 3 failures or stops; Ordering: 3 instances, 3 failures or stops; fairness | what is doubled, missing, filed wrongly (`CatalogExplained`) or broken for good (`StaysBroken`); who serves has both tables or users; one failed insert blocks a process; races alone still seed; starts end (`StartsEnd`), restarts recover (`RestartsRecover`) |
| `catalog_seed_lost` | 1 pod, 1 failure, fairness | a disagreement, below |
| `tokens` | four scenarios. `windows`: 2 windows, 2 requests by redirect and frame, time 0 to 3, lives 0 and 2; `popups`: 1 window, 3 requests, a popup looked for once more; `keys`: 2 redirect answers and a renewal or request of one page while the provider's keys change; `claims`: 1 call, tokens of every kind, time passes; fairness | windows show the stored token (`TokensShared`); how requests spoil each other (`RequestsApart`); which tokens are accepted, and who is to blame for a refusal (`ClientExplained`); fresh tokens are kept; popups settle |
| `promises` | two scenarios. `chains`: 3 promises, 3 calls of resolving functions, thenables that answer anything or themselves; `combined`: 4 promises, all and race, one call each, with a thenable too; fairness | outcomes, handlers, all and race (`OutcomesRight`); settled for good; waiters are told |
| `shop` | six settings. `items`: 3 requests on one item, a repetition of a save; `prices`: 2 changes and 2 adds; `grants`: 2 subscriptions and 2 deletions with repetitions; `hooks`: 3 hooks; `stock`: 3-bit integers; `lines`: 4 lines, 2 products, 2 prices, 2 discounts, 3-bit units | which edits are lost, what deletions and answers mean, prices charged (`EditsExplained`); items stay deleted; hooks and rows (`HooksExplained`); the ledger of the stock (`StockExplained`); the merge and the total (`LinesMerged`) |
| `division26` | pairs of numbers of up to 3 digits of 4 bits, `F2 = 0` | a disagreement, below |
| `algorithms` | numbers: up to 3 digits of 4 bits; hashes: 5-bit words; hashers: 2 of them, 5 calls, blocks of few bytes | `NumbersRight`, `CiphersRight`, `HashersRight` |

Why these bounds are enough to be interesting: the races of Ordering need two requests of
one customer, and a third that comes after them to see what they left (a second buyer, a
shared card); the doubled card needs four, one to make the buyer, two to store another card
twice and one to find it; a second customer shows that rows of others are not touched. The
third request of `race` meets no lost acknowledgement and no crash of its own: it is there
to find what the other two left. Flaws of a request matter to that request alone, so they
come in a scenario with one order, and once where a card was stored before. One retry is
enough for a save repeated after its commit, the theorems cover every number. In Basket two
requests overlap and a third reads the result; buyers do not share anything, so one is
enough. In Purchase the third post retries a page after two others; two pages show that a
second page does not repeat the first. In the seeds a doubled row needs two instances, and
their own later starts see what they left; the three small instances of Ordering race with
two and find what both left with a third. Two are enough for Identity, where a conflict is
with the table or within a context; its safety is proved for any number. The blocks are one
larger than what is inserted, so that ids of two blocks differ and have a gap, as with 5
brands and blocks of 10. Failures and stops are bounded for all instances together: two
break a start and its restart, or two instances. In `shop` an edit is lost to a second and
seen by a third request; it starts with one row because requests write every value of every
field. Two windows are what the single state key is shared by; a token of life 0 has run out
when it comes, one of 2 runs out within the clock. Chains of three promises have an adoption
of an adoption; the second call of a resolving function needs a promise adopted in between.
Digits, ends and sizes of `algorithms` are those at which carries, borrows, estimates and
fields tip over; four digits of four bits would add nothing but length. `exp` of
`BigInteger`, which refuses exponents beyond 32 bits, has smaller ones only. The settings of
a deployment are chosen in the initial state and never change, so that one run covers all of
them. Deadlock is not checked where the requests of a run are used up and the system may
stop; `Basket` has an explicit step for that instead.

**Fairness.** `ordering_book` needs weak fairness of `NewOrderAsync(r)` and
`ChangeStatusAsync(c)`, that is, the runtime keeps running the continuations of a
request it has accepted, as the ASP.NET thread pool does. The runs on recovery of
the seeds assume it of each instance's seeder, and of `Start` where an orchestrator
starts ended processes again (`UnderK8s`; for Identity, what its comment
expects of an orchestrator). `tokens` assumes that storage events, timers and the
callbacks of the library come in the end, and nothing of users and servers; `promises`
that a scheduled flush runs, and nothing of the script. Nothing is assumed of
losses and crashes; retries are bounded by `MaxRetries`, which is why requests end.

Each property has at least one mutant in `PROJECT.json`: a definition changed the
way a plausible bug would change the code (a dropped search, a lost
`Include`, a last save left out), which TLC must find.

### Where the code and its words differ

* The order page says "It was not possible to create a new order" of orders that
  are, or will be, recorded; who then tries again orders twice (`purchase_error`).
* Under Kubernetes "we rely on k8s to re-run the pod", but a catalog pod that failed
  between drawing ids and saving fails at every later start: its items refer to
  ids of the lost block (`catalog_seed_lost`).
* `divRemTo` is to "divide this by m, quotient and remainder to q, r". With digits of 26
  bits, which a browser named neither Netscape nor Microsoft Internet Explorer gets, the
  quotient can be one too small and the remainder not reduced: 4503598921954007 * 67040874
  divided by its first factor gives 67040873 (`division26`).

More are part of the models, and a passing property or the text of an action
says what follows from them:

* Identity's policy retries for ever in place of restarts, but on one context: after
  one failed insert no later attempt can succeed (`StuckStaysStuck`).
* The retry policies of migration and seeding handle an exception class that EF Core
  does not throw, so the network failure their comment is about is never retried
  (`SeedHost`).
* `CheckoutAsync` accepts a checkout without a basket (`Command`); the unit test
  `Doing_Checkout_Without_Basket_Should_Return_Bad_Request` expects a bad request.
* `UpdateQuantitiesAsync` stores zero and negative quantities (`UpdateQuantities`),
  which `BasketItem.Validate` calls invalid: validation runs for HTTP, not for gRPC.
* The promise library's comments on adoption and on values that are thenables, and the
  limits of the numbers and hashers, as told with their modules above.

## 4. What is proved

For all sets of requests, users, cards and card types, whatever is wrong with requests, and
every `MaxRetries`, assuming only what the modules name (`TypesAssumption`,
`RetriesAssumption`, `FlawsAssumption`: flaws are among those named, and that `None` is
none of the values, `NoneAssumption`):

* `OrderingProofs!Invariant`: `Spec => []IInv`, with `TypeCorrect`, `LinkCorrect`,
  `CreatedCorrect` and `StatusCorrect` as its parts and consequences.
* `OrderingProofs!StatusSticks`: the action property `ListedStatusSticks`.
* `OrderingProofs!OrderingImplementsBook`: `Spec => BookSpec`, the refinement.

None of `LinkSound` and `CreatedIsListed` is inductive: from an arbitrary state
where orders are linked well, `SaveLink` of a request that holds a wrong `buyerId`
would break them. `IInv` therefore adds what a request knows at each program
counter: that before `saveLink` its order has no buyer, unless a
save was repeated (`retries > 0`, and then `hit`); that after `readBuyer` the buyer
it holds has the identity of its user or is a row of its own still to be inserted;
that after `saveBuyer` both rows are stored with its user and its card; and that
rows of buyers and payment methods never change once stored. It further ties every
snapshot of a status change to a consistent pair of columns, because `Updated`
mixes a snapshot with the present row. `OrderingProofs` has one lemma per action,
each split by the parts of the invariant the action can disturb; the refinement
proof maps each action to `Ask`, `Record`, `Place`, `GiveUp`, `Change` or a stutter.
TLC checks `IInv` in `ordering_book`.

A second part of the module builds on that theorem and proves what is said of overlapping
requests: `FailuresExplained`, `CardsOnce` and the action property
`DoubledCardStaysDead`. `OverlapInv` adds that a customer who never overlapped has one
request in flight, that rows of a request's own are there early only after a lost
acknowledgement, that buyers differ and payment methods have one, and that what a
request did not find when it read is still not there when it saves. The last part is
the heart: it needs the first, since only a request of the same customer stores such
rows. A failure is then explained by what the request met, by an overlap, by its own lines, or
by a card that is not stored and cannot be.

For all sets of instances, every deployment or policy and any number of failures
and stops, assuming `HostAssumption` or `UsersAssumption`:

* `SeedsProofs!TypeCorrect`, `SeedComplete` (`CompleteSeed`) and `RacesAlone`
  (`RacesAloneSeed`). The property
  speaks of instances that serve; its invariant adds `Progress`, what an instance
  knows on the way: at the statuses it has found card types stored, and at a save
  with nothing to insert both tables are full. Rows are never removed, so no step
  of another instance takes that away. For races without failures the invariant `Alone`
  adds that while the statuses are missing after the card types are there, some
  instance is about to insert them.
* `SeedsProofs!CatalogIsExplained` (`CatalogExplained`) and `CatalogStaysBroken` (the action
  property `StaysBroken`), for any files, sizes and blocks. `CInv` says what each table may
  hold (`Filled`: nothing, or all of what a source inserts, once per save), what an
  instance knows at its place in the sequence of tables (`CProgress`), that the rows it
  is about to save are those of one empty table it found (`PendingRight`), and that while
  nobody overlapped on a table a pending insert means that it is still empty
  (`FoundAlone`). Items are filed right because a row's id is its name's place in a
  block, and the ids an instance looked up are those of stored rows. `StaysBroken`
  further needs that pictures are missing only where there are items (`Missing`), so that
  an instance that has lost its own finds nothing to seed at any later start (`Lost`).
* `IdentitySeedProofs!TypeCorrect`, `BothServed` (`ServesBoth`) and `StuckForEver`
  (the action property `StuckStaysStuck`). The invariant adds that a save inserts
  the user its instance is at (`SaveTracksName`) and that a context tracks bob only
  when alice is stored (`BobAfterAlice`); with these a context that still holds a
  failed insert at its next save always conflicts, with itself or with the table.

For all sets of items, requests, customers and values and every number of repetitions:

* `ShopProofs!EditsExplainedAlways` and `DeletedStaysGoneAlways`. From a state with
  right answers alone nothing follows, so `IInv` says what a request knows at each place
  (`Begun`), that a save which was committed and not answered is a repeated one
  (`Told`), how the history of a row and the row agree (`Appended`, `Tabled`: the row
  has the last value an edit gave a field, unless a client that had not seen it put the
  whole item back later), and that the same is true of what a request puts back
  (`PutBack`). Prices are in `Carried`: whatever an addition or a basket carries was
  offered to its customer.

For any posts, deletions, hooks and repetitions, every setting of the client, and integers
of any width:

* `ShopProofs!HooksAreExplained` (`HooksExplained`). `ApiInv` is about the table: what a
  receiver granted (`GrantedTokens`), that ids below `nextId` were drawn once, by one post
  (`IdsDrawn`), and how many rows a post has left (`RowsCounted`). That an id is always
  left for the next row is a counting argument (`IdLeft`): every id that is gone belongs
  to a post and one of its repetitions. `ListInv` is about the receiver's list: its size, and
  any size read from it, is at most the number of additions that grew it (`ListCounted`),
  and a hook that met no other addition is in a slot below every size read later
  (`AddedAlone`).
* `ShopProofs!StockIsExplained` (`StockExplained`). The property is inductive once types are
  added and that a stock that was never spoilt is not negative; the arithmetic of the
  wrap is in lemmas over any modulus that is twice a positive number.
* `ShopProofs!OrdersAreMerged` (`LinesMerged`). `OrderRight` says of each line of the order
  that it has the first price, the largest discount and the units of the lines of its
  product (`PriceRight`, `DiscountRight`, `UnitsRight`), that a product has one line
  (`OneLine`, `EachHasLine`), and, if a product has one price, that the order with units
  that are not cut is worth what the lines cost: that no product has too many units in the
  end does not say that it never had on the way, so the total alone is not inductive.
  Cutting at each addition or once at the end is the same (`WrapTwice`). `Sum` and `Rebuilt`
  are recursive functions; their equations (`SumNext`, `RebuildsItself`) come from
  `SetInduction`, the same lemma as for the baskets below.

For all sets of buyers, requests and products, and any bodies, updates and posted baskets:

* `BasketProofs!BasketSound` (`BasketsSound`), `BasketExplained` (`SomeOrderExplains`) and
  `BasketSequential` (`UndisturbedIsSequential`). At the heart is a lemma without steps,
  `HandleMeans`: of a basket with one line per product, what a handler writes is, seen as a
  function from products, what the request means, and where it writes nothing the
  request means nothing. The three handlers have a lemma each. None of the properties is
  inductive, because a copy is written long after it was read: `IInv` adds what a request
  was asked for at each place (`Flow`), that copies are finite and as well formed as
  baskets (`Shapes`), that for each copy about to be written some finished requests,
  and then its own, explain it (`OrderInv`), and that while a buyer is undisturbed only one
  request is in flight and those are the answered requests in their order (`CalmInv`).
  A step of a request in flight stores nothing, stores its copy, carries out its command
  or changes its copy (`Does`), and the invariant is shown for these four. `After` and
  the units of a body are recursive functions over sequences; the induction they need
  is over a set of numbers, and is derived from the cardinality of finite sets
  (`SetInduction`).

For all sets of additions, pages, posts and customers:

* `PurchaseProofs!OrderedOnceAlways` and `BoughtLeavesBasketAlways`. A careful customer
  does one thing at a time; the invariant turns that into `AddsAlone` (an addition's
  copy is still the basket and the unit added), `OnePage` (of a customer's pages one is
  open, and it shows the basket, if there is one) and `PostedOnce` (a page is posted
  again only after an error or without an answer, and what was asked for is neither in
  the basket nor on another page). It leans on what `OrderBook` does, not on `Ordering`;
  that `Ordering` implements it is the refinement above.

For any number of promises, values and calls of resolving functions:

* `PromisesProofs!SettlesOnce` (`SettledForGood`), `FulfilledWithValues` and `WorkHasFlush`.
  There is one lemma per internal function: it takes a sound heap to a sound one that keeps
  what was settled. Sound is a heap in which fulfilled promises and the jobs that
  hand on fulfilled ones hold no promise, and work has a flush. A value may be a thenable of
  somebody else's, but never a promise.
* `PromisesProofs!OutcomesAreRight` (`OutcomesRight`). None of the outcomes is inductive:
  that a handler runs once and in order depends on the lists of subscribers, on the jobs
  that are queued and on where a publication is. The invariant `Right` is about those three.
  `Core` says who may stand in a list of subscribers (`SubRight`), what a job hands on
  (`JobRight`), that handlers wait in the order of their `then` in lists and in the queue
  (`SubsOrdered`, `JobsOrdered`), that the publication of a settled promise with handlers
  comes before those of its handlers that are called from the queue (`LinesRight`), what was
  called (`CalledRight`) and that what was not is in a list or in the queue
  (`WaitingRight`), that a promise nobody resolved is in no list as one that adopts
  (`FreshRight`), and what follows and races (`FollowRight`, `RaceRight`). `AllsRight` says
  of each `all` that its counter is the number of entries that are still to come, in a list
  or in hand, so that it stays between 0 and 2, and that every other entry is counted with
  its value. Both are shown for each internal function with a set of entries in hand, which
  is what `Promise.all` and `publish` leave open between two calls, and empty between two
  actions. Where a promise was fulfilled with a thenable (`Loose`, `LooseRace`) nothing is
  claimed of those who follow or race over it; of the others, `Asks` says which promises may
  have a thenable called for them: those of `new` and `then`, and such races.

For any windows, requests, lifetimes and bounds of the clock, and any calls, keys and ages:

* `TokenManagerProofs!TokensAreShared` (`TokensShared`), `RequestsAreApart` (`RequestsApart`)
  and `FreshTokensAreKept` (the action property `FreshTokenKept`). The invariant has a
  part per question: `Phases` (what is known of a request at each place: its kind, its
  window, its popup and promise), `MetInv` (of two requests that were open together the
  one whose state was overwritten can no longer win), `PopupInv` (a popup that lives in a
  window without the mark comes after one that the user closed, whose late cleanup took
  the mark away), and `TokenInv` (a window without events to come shows the stored
  token, timers are those of the token a window has, a page that left has none). The
  parts lean on each other only through the types, so each action is taken once per part.
* `TokenManagerProofs!ClientIsExplained` (`ClientExplained`). `CInv` says of each call what
  it has checked at its place (`Checked`) and what the client of a renewal can hold
  (`Copies`), where keys come from (`Origins`), that only a validation that met another can
  find, while it loads the keys, that they are there (`Loading`), and that all validations
  of the page's client that met no other used the one key that the page keeps
  (`OneUnshared`).

Assumptions are those the modules name: `CatalogAssumption` (sizes, and names and ids within
them), `NullAssumption`, `NoneAssumption` (the null is none of the values),
`BoundAssumption`, `TimeAssumption`, `HostAssumption`, `ClientAssumption`, `OpsAssumption`,
`OrderAssumption` (prices and discounts are numbers, units are ints), `BodiesAssumption`
(bodies are sequences of lines, posted baskets finite sets of lines); `SeedAssumption` of
`CatalogSeed`, whose names are unique in a source and whose preconfigured ids fit a block;
and four of the modules that compose: `UsersAssumption` (the policies are
Booleans, the null is no instance), `SourcesAssumption` (some item of each source can be filed), `WebhooksAssumption`
(posts and hooks are finite sets), `WidthAssumption` (2^Width is twice 2^(Width-1), which is
true of every width but which no solver here derives). TLC evaluates each.

Only model-checked: liveness and ENABLED (`EveryRequestEnds`, `StartsEnd`, `PodsRecover`,
`RestartsRecover`, `PopupSettles`, `WaitersAreTold`), out of the prover's reach; and whatever
computes over digits and words (`NumbersRight`, `CiphersRight`, `HashersRight`), in
recursive operators or with Bitwise.

## 5. Plan

Done: Ordering, OrderBook, OrderManager, Basket, Purchase and the seeds; Catalog, Stock and
Webhooks; the token client with its promises, numbers, hashes and certificates; the proofs
above. What is left: verification of a token as a whole (parse, key by certificate, RSA,
hash), composed of `Certificate`, `Rsa` and `Hasher`, once values as large as a signature are
within reach.

## 6. Not modelled

Identity.API beyond its seed is the quickstart of a library which keeps the state
(users, grants, tokens) itself; the other services see two claims of it. The contents of
the setup files are left out, and with them a defect without any state: the seed of
Ordering compares lower-case headers with `CardType` and never reads its files.
Ordering.BackgroundTasks, Ordering.SignalrHub, Payment.API and WebStatus have no
behaviour left but health checks. `OrderingContext`'s transaction helpers and the
ClientRequest table are called by nothing. In the token client the padding of RSA calls
SecureRandom and rstr_sha1, and `createHmacHelper` calls `C_algo.HMAC`, none of which
the file has; the tables of constants, the formatting of hexadecimal signatures, keys of
other kinds, and getters of a profile decide nothing the properties tell apart.
`Promise.all` and `race` make a promise of an entry that is none of the library's, which in the
model is that promise. The validation script
of WebhookClient and the redirect scripts of Identity are glue between attributes and
libraries. Of hazards not listed for want of a property: the Polly policies and the
headers of setup files above, and a thenable that throws a falsy value. Queries that
copy rows into DTOs, pages, routes, Helm charts, pipelines, EF migrations and assets
have nothing to check. `FailingMiddleware` is a switch for tests whose effect (a failed
call) is part of `Basket`.
