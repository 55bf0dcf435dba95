# Formal verification of the pizzeria platform

TLA+ models of the parts of this repository whose correctness depends on what
happens *between* steps: concurrent requests against one database, retries after
lost answers, screens that poll, keys that outlive the page that made them. TLC
checks the models on small instances; TLAPS proves the safety results for every
number of tenants, requests, runs and products.

## 1. The system

A multi-tenant SaaS for pizzerias: one NestJS API (`apps/api`) over one Postgres
database, and three React apps: the customer's (`apps/cliente`), the pizzeria's
staff panel (`apps/pizzaria`) and the platform's administration
(`apps/admin-pizzarias`). The apps share nothing but the API. Requests of one
tenant run in transactions of READ COMMITTED isolation, with row level security on
the tenant (`TenantContextService.runInTenantContext`).

Two things make this code hard to test, and they recur in every component. In the
API, a handler *looks* (is the store open, has the pizza a price, does the plan
include the module) and then *writes*, and the look is not protected by a lock. In
the apps, every call is answered when it is answered: no request is aborted, few
are awaited before the next is sent, and the answer acts on whatever the screen has
become. The models keep exactly these two gaps and abstract the rest.

| Component | State | Operations | Hard behaviour | What makes it correct | Modules |
|---|---|---|---|---|---|
| Order creation (`orders.service.ts` create, insertOrder) | orders, order_daily_sequences | POST /orders | requests with one Idempotency-Key, retries, lost answers, rollback after the code was taken, day turn, closing | one order per key, the same answer for the same key, gapless daily codes | OrderBook, Orders |
| Order status (updateStatus, `order-status.ts`) | orders.status, audit_logs | PATCH /orders/:id/status | two PATCHes between read and write | legal transitions only; log and status agree | OrderStatus |
| Order screens (`OrdersPanel.tsx`, `OrderConfirmation.tsx`) | list or status shown, updatingId, the interval | poll, advance | overlapping polls, answers out of order, stale buttons | never show what did not happen; end up right | OrderViews |
| Checkout and cart (`App.tsx`, `Checkout.tsx`, `Menu.tsx`, `Cart.tsx`, `useCart.ts`) | cart, builder, key in sessionStorage, screen | add, submit, retry, back, reload, login, logout | answers lost, late, or of an abandoned screen; prices that change while a line is in the cart | no second order by mistake; charged what was shown | Checkout, CartPrices |
| Sessions (`auth.service.ts`) | refresh_tokens, users.active | login, refresh, logout, deactivate | concurrent refreshes of one token, deactivation during a refresh | one live token per family; no session of a deactivated account | Sessions |
| Staff (`staff.service.ts`, `Equipe.tsx`) | users, their permissions | create, update, (de)activate | a plan that changes under an open form; races with refresh | no permission the plan does not include; an account that is off has no session | Sessions, Team |
| Email verification | email_verification_tokens | register, resend, verify | crossing resends, double clicks, mail sent before the commit | a link works once, and only the last one | EmailVerification |
| Module gate and caches (`module.guard.ts`, `memory-cache.service.ts`) | cache entries with a TTL | canActivate, get, set, del | fill after invalidation | an old entry is excused by a race and lives one TTL | Subscriptions |
| Subscriptions and plans (`subscriptions-admin.service.ts`, `plans-admin.service.ts`, `PlansManagement.tsx`) | subscriptions, plans, summary on tenants | upsertForTenant, create and update plan | three writes without a transaction; forms that send all they copied | subscription, entry and summary tell one plan; an edit changes what was edited | Subscriptions, PlansScreen |
| Tenants administration (`tenants-admin.service.ts`, `TenantsManagement.tsx`, `TenantForm.tsx`, `TenantSales.tsx`) | tenants, subscriptions; list, form, sales screen | create, onboard, update, setActive, list, sales | pages and searches answered out of order; two calls of one submission | a list answers its question; nobody's plan changes unasked | Subscriptions, TenantList, TenantForm, TenantSales |
| Store settings (`tenants.controller.ts`, `StoreOpenToggle.tsx`, `Settings.tsx`) | tenants.is_open, branding cache, log | PATCH /tenants/me, public branding | four steps without a transaction; optimistic switch | row, log, panel and page tell one thing | Store |
| Catalog (`products.service.ts`, `categories.service.ts`, `ProductForm.tsx`, `MenuManagement.tsx`) | products, categories; form and list | CRUD, upload | write skew of partial prices; foreign key races; late answers into another form | a pizza has a price; a product its category, of its type | Catalog, ProductForm |
| Public catalog (`catalog-public.controller.ts`) | the cached page | GET | two reads, a minute of cache | a product stands under a heading | Catalog |
| Inventory (`inventory.service.ts`, `Inventory.tsx`) | inventory_items | CRUD, + and - | absolute quantities computed on an old reading | every click counts once | Stock |
| Financial (`expenses.service.ts`, `revenue.service.ts`, `Financial.tsx`) | expenses; the list of a period | CRUD, GET by period | GETs and saves answered in any order | what is added up is of one period, whole and once | Finance |
| Audit log and retention | audit_logs, audit_logs_archive | record, daily purge | crash between move and delete; crossing runs; a tenant that fails | an event is kept once, and as long as promised | AuditRetention |
| Users, dashboards, health, throttling, shared packages | (reads, profile CRUD) | | none between requests | | |

The hazards, each at its line and with the properties that cover it, are listed in
`PROJECT.json`.

## 2. Modules

```
OrderBook            what POST /orders promises: an atomic, idempotent book of orders
  ^ implemented by   (Orders!ImplementsOrderBook; proved: OrdersProofs!Refinement)
Orders               create() and insertOrder() statement by statement
OrderStatus          concurrent PATCHes of order status
  ^ EXTENDS          OrderViews: the panel and the tracking screen over it
OrderBook
  ^ INSTANCE Book    Checkout: the customer's tab over the order book
                     (proved to use it: CheckoutProofs!TabUsesTheBook)
Sessions             refresh, login, logout, staff deactivation
Subscriptions        PATCHes of subscriptions, the gate with its cache, edits of plans

Menu     = ProductForm + Catalog + CartPrices
Pizzeria = Stock + Team + Finance + Store + AuditRetention + EmailVerification
Admin    = TenantList + TenantForm + PlansScreen + TenantSales

<M>Proofs            for M in Orders, OrderStatus (with OrderViews), Checkout, Sessions,
                     Subscriptions, Menu, Pizzeria, Admin
MC<M>                instances for TLC
```

The three sums put several components side by side. Those components share no state
in the models (in the code, they meet only in data the properties do not look at),
so interleaving them would multiply states and show nothing: a variable `mounted`
chooses one of them in the initial state, the others rest, and TLC visits the sum of
their state spaces. Each module has a specification of its own (`CatalogSpec`,
`StoreSpec` ...), of which the proofs of its properties speak; that a behaviour of a
sum is a behaviour of each of its parts (`MenusAreThree`, `PizzeriasAreSix`,
`AdminsAreFour`) carries them over.

Some properties except named races: a history variable (`spoiled`, `crossed`,
`torn`, `clashed`, `misled`, `lapsed`, `outdated`, `blurred`, `disordered`,
`misfiled`, `unshown`, `strayed`, `hasty`) marks what a race of a named kind has
touched, and is read by properties only. What these races do is real (section 3, "Disagreements");
the property says that nothing *else* does it, and the mutants show that it would
notice. Where a property can say what is left when a race has run, it does: crossing
clicks may be lost, and yet the screen shows what came of them (`StockSettles`); GETs
overtake each other, and yet the list is of one period and whole
(`ListIsOfOnePeriod`); an edit takes a switch back, and nothing else
(`EditsKeepTheOffer`). The hazards in `PROJECT.json` say what is excepted of each.

### Orders

The state is the committed tables (`orders`, `lastSeq` for `order_daily_sequences`,
`isOpen` for `tenants.is_open`), the clock's day of operation (`today`) and, per
request, where it stands (`pc`) and its locals (`began`, `dateKey`, `seq`, `created`,
`reply`). One action per point at which another transaction can be observed:

| Action | Code |
|---|---|
| `ResolveCep` | `cepLookup.resolve` before the transaction (refuses, or goes on) |
| `ReadTenant` | the transaction starts; `tenant.findUnique`, `isOpen` |
| `PriceItems` | products, prices and combinations (refuses, or goes on); `dateKey` from the clock |
| `TakeCode` | the upsert of `order_daily_sequences`; waits for the row |
| `InsertOrder` | `order.create`; waits for an uncommitted row with the key, P2002 over a committed one |
| `Commit`, `Reply` | end of `runInTenantContext`; 201 |
| `LookUpExisting` | the catch of `create()`: second transaction |
| `Fail` | lost transaction, or lost answer of a committed one |
| `SetStoreOpen`, `NextDay` | PATCH /tenants/me; 5 a.m. |

A transaction's uncommitted rows are in its locals and reach the tables at `Commit`;
row locks are predicates over `pc` (`HoldsSequence`, `HoldsKey`), which is how
Postgres defines them: held from the statement to the end of the transaction.
`created_at` is left open between the instant of the statement and the start of the
transaction, because Prisma's `now()` default may be evaluated on either side.
Prices, addresses and items decide only between "refused" and "goes on".

### OrderStatus and OrderViews

`OrderStatus` is `updateStatus` in the transaction of `TenantContextInterceptor`:
`ReadAndCheck` (no lock), `Write` (UPDATE by id, waits for the row; then the audit
row), `Commit` or `Rollback`. `audit` is each order's `order.status_change` rows in
commit order. `OrderViews` adds the two screens: `HandleAdvance`, `PanelPatch`,
`AdvanceAnswered` for the button; `PanelPollRead/Arrives/Fails` and
`TrackPollRead/Arrives/Fails` for polls, whose answers are read at the server at one
moment and applied at a later one. `Server` and `OtherPatch` are the steps of
`OrderStatus` the screens do not control.

### Checkout

One browser tab: `view`, `cart`, `customer`, the key in `sessionStorage` (`stored`; the
storage may be unavailable for the whole run), the key in the mounted screen's ref
(`ref`), the attempt it is waiting for (`waiting`), and every attempt ever submitted
(`sent`), with the answers the tab still expects (`inFlight`). Leaving the screen does
not abort its request, so `Succeed` and `SubmitFails` may come from a screen that is
gone. The API is `OrderBook` (`Place`, `Answer`, `Refuse`), which `Orders` implements,
so nothing of its transactions is repeated here. `shown` and `impatient` are history.

### Sessions

The committed table (`rows`, `revoked`) and `users.active`, and per request where it
stands. `refresh()` is not a transaction: each of its statements is one of its own, so
each is an action, and anything may run between two.

| Action | Code |
|---|---|
| `Login` | `validateCredentials`: the read of the account |
| `ReadToken` | `refresh`: the row of the token: revoked (reuse), expired, or valid |
| `RevokeFamily` | `revokeFamily` after a reuse |
| `RevokeOne` | `revokeOne`, by id, whatever became of the token |
| `CheckActive` | the second look at `users.active`, staff only |
| `Issue` | `issueTokens`: the insert and the answer |
| `Logout` | `logout`, with any token the client has |
| `Fail` | a statement fails or the process stops |
| `ReadStaff`, `WriteStaff`, `RevokeAll`, `CommitStaff`, `RollbackStaff` | `StaffService.update` in the transaction of `TenantContextInterceptor`; `held` are the rows it has updated and so locked |

A request issues one token at most, so tokens carry their request's name and families
that of their login. A client may present any token ever issued, which is what a
lost answer, a second tab or an old copy look like to the API. `overlaps` and
`doubled` are history: they name the two races the properties except. That an
update decides to revoke on what it read before it locked the row (`Deactivates`)
is the code's; `OnlyRacingSessionsSurvive` holds in spite of it, because the sessions
such an update finds working began in a race with the deactivation before it.

### Subscriptions

`sub`, `plans` with their `modules`, and `summary` (the columns on `tenants`) are
tables; `cache` is the guard's entry of each tenant with what is left of its TTL.

| Action | Code |
|---|---|
| `CreateTenant`, `Onboard` | `TenantsAdminService.create`, `onboard`: one transaction each |
| `SavePlan` | `PlansAdminService.create`, `update`: the plan's row, and no word to any cache |
| `Check` | `upsertForTenant`: tenant and plan exist, or 404/400 |
| `FindSubscription`, `UpdateSubscription`, `CreateSubscription` | the transaction: read, then write; a create that meets a row is refused by the unique index |
| `DeleteEntry` | `cache.del` after it |
| `WriteSummary` | `tenant.update` of the copy |
| `FailPatch` | any of them fails, or the process stops |
| `Hit`, `Miss`, `Read`, `Fill`, `FailGuard` | `ModuleGuard.canActivate`: get, the read of the subscription with its plan, set |
| `Tick` | time: entries age, and expire |

`cache[t].late` marks an entry whose reader read before a deletion and filled after
it. `spoiled` are the tenants of which a PATCH died between its writes or crossed
another.

### Catalog, ProductForm, CartPrices

`Catalog` is the API's side: `LookAndCreate` and `LookAndUpdate` are everything a
POST or PATCH of a product does before its write (`SellsASize` is "at least one
price"), `Save` is the write, where the foreign key holds and the check on prices no
longer does. `RemoveCategory` is refused while a product is linked, by the key.
`ReadCategories` and `ReadProducts` are the two reads of the public page and its fill;
`PageExpires` its minute.

`ProductForm` is the panel's side: App's copy of menu and categories, loaded once
(`shown`, `offered`), the open form with its type, category and image, and the calls
it makes. `Upload` and `NewCategory` remember the form of the render that sent them,
and `ImageStored` and `CategoryCreated` write it back whole, as `updateField` does;
`LeaveForm` unmounts, and an answer to an unmounted form does nothing. `Saved` and
`Removed` are App's handlers on the copy.

`CartPrices` follows a price. An *edition* is what the API holds after some write of
the owner; `catalog` and `branding` are the editions the app shows, and an item in
the builder or the cart carries the edition it was taken from. `Mean` is the price of
a half-and-half, in cents and rounded half up as `Math.round` does. An order is made of
two reads at READ COMMITTED, and the owner may write between them: `ReadTenant` takes
the fee and whether the store is open from one edition, `InsertOrder` the products from
another, and `OrderTotal` is what it computes of both. A drink of price 0 is sold
(`create-product.dto.ts:26`), one without a price (`NoPrice`) is refused; the app shows
0 for both (`ShownPrice`). A pizza's price is positive, as the DTO demands.

### Stock, Team, Finance, Store

Each is a screen over its handlers. `Stock`: `Adjust` computes the quantity from the
list as rendered (`Plus` is the `Math.max(0, ..)` of both buttons), `StockServed` stores
it, `StockAnswered` puts the answer in the list. `Team`: the form offers permissions by
the modules known at boot, `CheckMember` is the look at the plan and
`CreateMember`/`UpdateMember` the write; `ChangePlan` is the administrator. `Finance`:
`ChoosePeriod` sends the GET of that period beside the ones still unanswered,
`ServeList` and `ListArrives` are the two ends of each, and `listOf` is the period of
the one answered last; `CreateExpense` and `ChangeExpense` are the API's side of a save,
`ExpenseSaved` the screen's: it puts a new row first without a look at its date, and a
second time if the list has it by now (`twice`), or replaces the row, if it is there.
`Store`: `ReadOwn`, `UpdateMe`, `DeleteBranding`, `LogStore` are the four steps of
`updateMe`; `Toggle` is the optimistic switch, `StoreFails` its way back, `SaveSettings`
the form; `Missed`, `ReadBranding`, `FillBranding` the public page on a miss.

### AuditRetention, EmailVerification

`AuditRetention`: `Run` starts a purge (any number at once), `NextBatch` opens the
transactions of up to `Concurrency` tenants, each with the cut-offs of its own clock;
`Move` is the statement that moves rows to the archive (a row another transaction has
locked is waited for: `Locked`), `Commit` ends the transaction after the purge of the
archive, `TransactionFails` counts the tenant as failed; `MovePlatform` and `DropPlatform`
are the statements for events without a tenant; `Stops` is the death of the process.
`GrowsOld` is time.

`EmailVerification`: `Register` and `Resend` generate a link, mail it and hold their
transaction open until `CommitLink` or `Undo`; `Verify` and `Confirm` are the find and
the delete of a click.

### TenantList, TenantForm, PlansScreen, TenantSales

The administrator's four screens. Each keeps the questions it has sent (`asks`,
`queries`, `toggles`, `saves`, `planEdits`) with where they stand: sent, handled at the
server, answered. `TenantList`: `Search` and `Turn` change the question, `ListArrives`
puts up whatever arrives; `Toggle` sends the negation of the row as rendered and
`ToggleAnswered` writes the answer. `TenantForm`: `ReadSubscription` and
`SubscriptionAnswers` are the effect that fills in the plan, `Submit` captures the form,
`UpdateTenant` and `UpdateSubscription` are its two calls, the second only when the plan
differs from the one the form knew; `Leave` aborts nothing. `PlansScreen`: `StartEdit`
copies the row (`offers` is what the plan was offered as then), `SubmitForm` sends all
of it, `TogglePlan` sends `active` alone. `TenantSales`: `Select`, `ToggleUsers`,
`SelectRole`, `TurnUsers` each ask, `SalesArrive` and `UsersArrive` show.

## 3. What is checked

Every property has a mutant in `PROJECT.json`: a plausible bug in a mapped definition
under which TLC finds the property violated with the same bounds.

| Run | Instance | Shows |
|---|---|---|
| `orders` | one tenant; a request, its retry, and a rival with another key; 2 days; 163 k states | `TypeOK`, `OneOrderPerKey`, `GaplessCodes`, `SameKeySameReply`, `CollisionFindsTheOrder`, the refinement `ImplementsOrderBook`, and liveness `EveryRequestIsAnswered` |
| `order_views` | one order, a PATCH of the panel and one of somebody else, 2 polls in flight per screen; 38 k states | `ViewsTypeOK`, `LogTellsTheStatus`, `LoggedChangesWereLegal`, `ScreensShowWhatHappened`, liveness `EveryPatchEnds`, `PanelCatchesUp` |
| `checkout` | one customer, one item, 3 keys, 3 submissions, with and without storage; 155 k states | `TypeOK`, `ConfirmedKeyIsRetired`, `PatientCustomerLosesNoOrder` |
| `sessions` | an owner and a member of the staff, 4 requests, 2 updates; 2.1 M states up to symmetry | `TypeOK`, `OneLiveTokenPerFamily`, `OnlyRacingSessionsSurvive` |
| `subscriptions` | one tenant, 2 plans, a guarded request and its successors, 2 PATCHes, one edit of a plan, TTL of 2 ticks; 898 k states | `TypeOK`, `StaleEntriesAreRaces`, `SummaryTellsTheSubscription`, liveness `GateCatchesUp` |
| `menu` | form: one product, 2 categories, 2 calls; catalog: one product of 2 sizes, one category, 2 writes; cart: 2 pizzas, 2 sizes, a drink, 2 prices, one edit; 1.5 M states | `MenusTypeOK`, `CategoriesFitTheirType`, `MenuSettles`, `MenuCanBeOrdered`, `ChargedAsShown` |
| `pizzeria` | 2 calls of each part at a time; one item of at most 2; one expense and 2 choices of a period; 2 tenants in batches of one and 2 purges; 4 links; 1.0 M states | `PizzeriaTypeOK`, `StockSettles`, `GrantsWereInThePlan`, `ListIsOfOnePeriod`, `StoreIsToldAsItIs`, `EventsAreKeptOnce`, `LinksWorkAsTold` |
| `admin` | list: 2 tenants on pages of one, 4 GETs, 2 PATCHes; form: 2 pizzerias, 2 plans, 2 submissions; plans: one code, 2 contents, 2 calls; sales: 2 pizzerias, 2 roles, 5 GETs; 1.1 M states | `AdminTypeOK`, `ListAnswersTheQuestion`, `ScreensSettle`, action properties `KnownPlansAreKept`, `EditsKeepTheOffer` |

Why the bounds are enough for what they show: the conflicts of `orders` are between
two requests with one key (index) and two requests of one day (sequence), and three
requests contain both at once, with a third party that waits on one lock while it
holds another; two days contain the one turn a transaction can straddle twice. Two
PATCHes make a lost update. Two polls in flight
are enough for one to overtake another. Three submissions are an abandoned one, its
retry and the checkout after it. Four requests of `sessions` are a login and two refreshes
that race for its token with a third that presents what they left, or a logout; two
updates are a deactivation and one that races it. In `subscriptions`, two PATCHes cross
between any two of their statements while a guard holds a reading from before either;
TTL 2 lets an entry be refilled at less than its full age. In the sums, what a
property relates is one row and two calls about it: a look and a write in
between, a click and the answer of the one before; a third would be another pair. Four
links are the registration's, two crossing resends and the one after. Two tenants in
batches of one make a second batch begin after a crash or a failure in the first; two
purges cross in every statement. Five GETs of the sales screen are the figures and users
of two pizzerias and one more question. The safety properties of `orders`, `checkout`,
`sessions`, `subscriptions`, `order_views` and of the three sums are also proved without
bounds (section 5): what the instances leave open is liveness alone.

All but `orders` and the two runs of OrderViews set `CHECK_DEADLOCK FALSE`: a system in
which every PATCH was handled, or every call the bound allows was made, stops.

### Disagreements with what the repository says

Four have a run whose one property states a comment of the code, and which TLC violates:

| Run, property | What happens |
|---|---|
| `order_status_final`, `FinalStatusIsFinal` | `order-status.ts:9-16`: no status leaves completed or cancelled; the check and the UPDATE are not one step, and a completed order is cancelled. |
| `order_tracking`, `TrackingStopsOnFinalStatus` | `OrderConfirmation.tsx:30`: polling stops at a final status; an older answer overwrites it after the interval is gone. |
| `checkout_edited`, `ConfirmedAsSubmitted` | `Checkout.tsx:80-82`: a key is a retry of the same checkout; an edited cart is submitted under it and the old order is confirmed. |
| `sessions_reissued`, `NeverReissuedToInactive` | `auth.service.ts:294-297`: no new tokens for an account that is off, not even in a race; the account is turned off between that check and `issueTokens`. |

`PatientCustomerLosesNoOrder` is the positive side of `checkout_edited`: it is what the key
in `sessionStorage` was introduced for, and it holds for a customer who does not leave
a checkout screen while it is submitting, in a browser whose storage works. Both
conditions are needed.

Others met while modelling have no run of their own; the models contain the behaviour, and
where a property excepts it the exception is named:

* A store that closes between the read of `is_open` and the commit takes the order
  (`orders.service.ts:100-106`, "sem excecao").
* The retry of an order that was placed is refused once the store has closed: the check
  at 103-105 comes before the key is looked at (57-58 promises the same order).
* A request across 5 a.m. takes the code of one day and is listed under another
  (`orders.service.ts:226`, 275-277).
* A late answer of an abandoned submission removes the key of the one that follows
  (`Checkout.tsx:22-23`, 140).
* A saved expense is put in the list whatever its date, until the next GET
  (`Financial.tsx:149-152`), a second time if a GET that was served after the POST is
  answered before it; of two choices of a period the list may be of the first
  (`Financial.tsx:70-82`), and an expense moved into the period by a form that was opened
  on another list is not put into this one.
* An edit of a plan takes back what its switch has saved since the form was opened
  (`PlansManagement.tsx:70`).
* The owner may write between the two reads of an order: it is then charged the fee of
  one moment and the products of the next (`orders.service.ts:95`, 128).
* Figures or users of a pizzeria that is no longer selected appear when they
  arrive last (`TenantSales.tsx:76-84`).
* A refresh whose answer is lost leaves the client with a revoked token; its retry is taken
  for theft and the family is revoked (`auth.service.ts:279`): the user logs in again.
* `updatingId` is one for all cards: the answer of one PATCH enables the button of another
  that is still under way (`OrdersPanel.tsx:129`); the server refuses the second click.
* Two resends that cross leave two links that work (`email-verification.service.ts:72-73`).
* Two partial PATCHes that cross leave a pizza without a price (`products.service.ts:75`).
* A drink without a price is shown at zero and refused when it is ordered; an unlisted
  product that is still in a cart is accepted.
* An edit of a plan's modules reaches its tenants' gates one TTL later, and the list of
  tenants (`plan_modules`) with the next PATCH of the subscription.

## 4. Fairness

* `Orders`: weak fairness of the steps of a request after its first (`Handle`). The
  event loop resumes a request whose statement returned and Postgres grants a lock that
  is free. No fairness for `ResolveCep` (nobody must send a request), `Fail`,
  `SetStoreOpen`, `NextDay`.
* `OrderStatus`: the same for `Write` and `Commit`.
* `OrderViews`: weak fairness of the polls' reads (`setInterval` runs while the screen
  is mounted) and of the answers to PATCHes; strong fairness of the arrival of each
  poll's answer: a network that loses some answers but not every one from some moment
  on. Without it no polling screen could promise anything.
* `Subscriptions`: weak fairness of the steps of a PATCH that was received (one of them
  may be its failure), of a guard that missed, and of time. None for PATCHes or
  requests being sent.
* The other modules state safety only and have no fairness: nothing in the apps
  promises that an answer comes.

## 5. What is proved

Every safety property of every passing run, invariant or action property, is a theorem
checked by TLAPS for arbitrary constants under the named assumptions of the modules:
requests are records of a tenant and a key, the staff are accounts, the administrator's
list has finitely many tenants, pages have a size, bounds are naturals, and the sentinels
(`None`, `Nothing`, `Off`, `Gone`, `NoPlan` ...) are none of the values they stand beside.
Each invariant below was first checked by TLC on the instance of its run.

### The API

* **OrdersProofs**: `TypeCorrect`, `LocksIsolate`, `AtMostOneOrder`, `CodesAreGapless`,
  `CollisionIsResolved`, `RepliesAgree` and `Refinement`. The inductive invariant `Inv` is
  the type invariant with what the locks are worth (`IsolatedTransactions`: who holds a
  lock holds it alone and what it read under the lock is still the committed value) and the
  four facts about the tables. None is inductive without the others: gapless codes need
  the lock on the sequence to say that the code a request carries is the next one, and
  one order per key needs the uncommitted holder of a key to see no committed order of
  it. `Refinement` maps an order's placement to `Commit` and every other step to an
  answer or to a stutter.
* **OrderStatusProofs**: `TypeCorrect`, `LogAgrees`, `LogIsLegal`. The strengthening: the
  status a PATCH read is one the order has had, however many others commit since, and
  what it is about to write is a legal successor of that status. It does not say that it
  is the *current* status, which is false (`order_status_final`).
* **SessionsProofs**: `TypeCorrect`, `RotationIsExclusive`, `DeactivationEndsSessions`.
  `OneLiveTokenPerFamily` speaks of tokens; its invariant (`RotationInv`) speaks of the
  place of the family, which is held by a token that works or by a request between the
  revocation of one and the insert of the next (`Holds`), and says that whoever is about
  to revoke a token is alone with it (`ValidAlone`). `SurvivalInv` extends the excuse of a
  surviving session to requests that are about to insert, and says what each running
  update owes: it has locked what it saw (`RevokedAllItSaw`), or it read the account as
  off and what works was excused before (`OffBefore`).
* **SubscriptionsProofs**: `SubscriptionTypes`, `StaleEntries`, `Summaries`. An entry is
  stale only over a race because every value that can *become* an entry is excused by
  the same races before it is one (`FillsTell`: what a guard has read and will fill
  tells the subscription, or is marked late, or a PATCH has yet to delete it), and the
  summary because of what each PATCH carries (`ResultsTell`: the result of a PATCH under
  way that was not crossed is the subscription's). `Known` closes both: what is named exists.
* **MenuProofs**, catalog: `CatalogTypes`, `WhatIsSoldCanBeOrdered`. What a write saw still
  holds of the row it is about to change unless another went first and marked it
  (`LooksHold`); the foreign key (`KeysHold`), with which a page between its reads covers
  the categories of every product it can still meet, or one was created since
  (`ReadsCover`).
* **PizzeriaProofs**, retention: `AuditTypes`, `KeptOnce`. The rows two open transactions
  have moved are disjoint (`MovesApart`, from the row locks); what each has moved is still
  hot until it commits, and when it has moved it leaves nothing old behind
  (`TransactionOK`); an owner a run has dealt with stays settled, whatever other runs
  do (`Settled`), because ages only grow and rows only go one way.
* **PizzeriaProofs**, links: `EmailTypes`, `LinksWork`. Of a transaction under way, its
  link is not among the rows and what it deletes contains every row unless it runs
  beside another (`Fresh`); of two, the links differ and both know of each other
  (`Apart`); and every link there was is in the table, used, replaced or undone (`Accounted`).

### The screens

The properties of the screens speak of moments at which nothing is under way. No such
statement is inductive: each invariant says what holds *while* calls are under way, that
is, what each question and each answer still on the network is worth to whoever is going
to receive it.

* **CheckoutProofs**: `TypeCorrect`, `ConfirmedKeysAreRetired`, `PatienceIsRewarded`,
  `TabUsesTheBook`. Every key in use was generated before (`KeysAreOurs`), and in a tab
  with storage whose customer never left a submitting screen all unconfirmed attempts
  carry the stored key (`OneKeyAtATime`). `TabUsesTheBook`: whatever the tab does, the API
  under it moves as `OrderBook` does, which is what `Orders` is proved to implement
  (`Refinement`); the checkout relies on nothing else of `create()` and `insertOrder()`.
* **OrderStatusProofs**, over `OrderViews`: `ScreensOnlyPatch`, `ViewsTypes`,
  `ScreensAreTrue`, `ViewsLogAgrees`. `ScreensOnlyPatch` is a step simulation: with the
  two screens over it, the protocol of the PATCHes starts and moves as it does alone, so
  that whatever is proved of `OrderStatus` holds under the screens (`ViewsLogAgrees`). That
  the screens show statuses the order has had is inductive with the same of what polls
  and PATCHes have been answered (`AnswersHappened`), and because a history, once logged,
  is never rewritten (`HadStays`).
* **MenuProofs**, form and list: `ProductsFitTheirCategory`, `ListSettles`. `CallsFit`: an
  upload or the creation of a category carries the form of the render that sent it, so it
  must fit the type *there*; a save carries a category of its type. `SettlesAt` is said of
  one product and proved action by action: the list has what is stored or an answer about
  it is on its way (`ListTells`), where it lists something deleted that answer is a
  deletion's (`GoneIsTold`), and a product that is being created is known to one call and
  nobody else (`NewIsAlone`, `UnlistedIsNew`).
* **MenuProofs**, cart: `PaysWhatHeSaw`. Screen and server add up the same cart from
  different editions of the catalog; that the sums agree when the prices stood is an
  equality of the functions that are summed, term by term, and needs no induction. It
  rests on what each line is (`LineFits`: one flavor or two of editions that have been,
  and a price that is their mean, or 0 for a drink that has none) and on `MeanOf`: the mean of two prices is
  the same, whichever of the flavors is taken first.
* **MenuProofs**, **PizzeriaProofs**, **AdminProofs**, types of the sums: `MenusTypes`,
  `PizzeriaTypes`, `AdminTypes`. They are not free: that a category is known to exist when
  it is written back, or that a plan under edit is a plan, needs the invariants.
* **PizzeriaProofs**, stock: `EveryClickCounts`. Of an item nobody crossed at most one call
  waits to be served, and it writes what the clicks make of the item; with none waiting
  that is what is stored (`Moves`). An item on its way in is known to its call alone
  (`AddIsAlone`). That the screen shows what crossing calls have left needs that whoever
  wrote last, and has a screen to tell, carries what is stored (`LastIsStored`), and that
  what a GET read still is, but for what was written since (`ReadIsStored`).
* **PizzeriaProofs**, staff: `GrantsAreInThePlan`. A permission that was checked before the
  plan lost its module is marked before it is written (`CheckedInThePlan`).
* **PizzeriaProofs**, finances: `TheListIsOfOnePeriod`. What a GET was answered is of the
  period it was sent for, whatever was chosen since (`AnswersAreOfTheirPeriod`), and all of
  it, but for what was written since (`AnswersAreStored`); the save that wrote last carries
  what is stored (`SavesAreStored`); so what is listed is of the period of the list that
  came last (`ListIsOfItsPeriod`) and is what is stored of it (`ListIsStored`).
* **PizzeriaProofs**, settings: `StoreIsTold`, in three independent parts. The log: of the
  PATCHes that decide on `isOpen` at most one is between its read and its log, and what it
  read is what the log says (`LogIsKept`). The panel: the mounted component has one
  call, shows what it asked for, and what the panel does not know that call is about to
  tell (`LiveCallIsShown`, `PanelKnows`). The page: an entry or a reading of the past is
  marked late, or a deletion is coming (`PageIsCleared`).
* **AdminProofs**, list: `ListAnswers`, `TheSwitchesSettle`. The GETs were sent one after the
  other and the last is for what the screen names (`LastIsTheQuestion`); what is on the
  screen, and every answer on its way, counts what its own question finds and is empty
  only beyond the last page (`AnswersAreTrue`, with `AnswerShape` about skip and take and
  `PagesHaveRows` about the rounding of the number of pages); a button turned to a page
  with rows (`TurnsHaveRows`); and a switch shows what its pizzeria is, or a PATCH of it has
  yet to answer (`SwitchesAreTold`).
* **AdminProofs**, forms: `PlansAreChosen`, `EditsKeepOffers`. The properties are about the
  step at which a submission is applied, the invariants about what it carries there from
  the form (`FormMeans` and `SavesMean`; `OfferIsKept`: form and submission say of the offer
  what was so when the form was opened). `TheCopySettles` needs that no plan
  is ever deleted (`PlansExist`), because an answer that names a plan overwrites a row.
* **AdminProofs**, sales: `SalesAreTheSelected`. The last GET of each kind is for what the
  screen names (`LastAsked`), and what the screen shows is what the answer that came last
  was asked for (`LastArrived`). `AllScreensSettle` joins the three.

### Only model-checked

* Liveness (`EveryRequestIsAnswered`, `EveryPatchEnds`, `PanelCatchesUp`, `GateCatchesUp`):
  the prover has no fairness and no ENABLED.
* The four statements of section 3 that the code does not meet.

No module uses RECURSIVE operators and nothing is proved by induction over data: sums over
the cart are the folds of the library, of which only that equal summands have equal
sums is used.

## 6. Not modelled

* **Row level security** policies (SQL), HTTP, JWT signatures, hashing, mail delivery,
  image storage, rate limiting: libraries, or pure I/O. Requests of one tenant see that
  tenant's rows by construction of the models.
* **Users** (the caller's own profile), **platform dashboard**, **bootstrap, health,
  throttling**: reads, or CRUD of one row by its owner; no state between requests.
* **Customer app, other screens** (login form, history, reorder), the dashboards of the panel
  and of the administrator, and the **shared packages**: they present what one read answered.
* Of components listed as *partly*: the panel's filters and change of day (OrderViews);
  passwords, the superadmin's login, guards and rate limits (Sessions); the rules on CNPJ,
  slug and password, and the deletion of a deactivated tenant's sessions, which is the
  protocol of `Sessions` (tenants administration).
* `order.create` can also collide on `(tenant_id, order_code)`; `GaplessCodes` shows that
  it cannot happen.
* **The other figures of the finance screen** (revenue, orders, totals of the period before):
  they are asked for as the expenses are, and nothing on the screen writes to them.
* A pizza saved with a price of 0 before the DTO refused it (`product-price.util.ts:20-23`):
  the app would show it for nothing and the API refuse the order.
* `minOrder` of the settings is shown by the customer's app and enforced nowhere in the API:
  there is no behaviour to model.
* A request across two components (an order placed while its product is edited) is modelled
  on the side whose property it can break: prices in `CartPrices`, closing in `Orders`.

## 7. What could follow

1. The deactivation of a tenant against logins and refreshes, as an extension of
   `Sessions`.
2. An abstract register whose readings may be one TTL old, implemented by the cache of
   `Subscriptions`, by the branding in `Store` and by the page in `Catalog`.
3. The safety half of the liveness results: what keeps a request of `Orders`, or a
   guard of `Subscriptions`, from being stuck (some step of it is enabled) as an invariant.
