# A verification of Centlalia

TLA+ modules, TLC configurations and TLAPS proofs for Centlalia, a ticketing
system: an on-chain program (Rust, Anchor, Solana) that sells tickets, lets them
circulate and admits each at the door once; a TypeScript client; and a web
application with pages for organizers, holders and staff and a local demo table.

`PROJECT.json` lists components, runs, mutants, findings, hazards and theorems,
and maps every definition to the lines it models.

## 1. Inventory

| Part | State | Operations | What makes it correct |
| --- | --- | --- | --- |
| Domain rules (`domain.rs`) | none | fee, splits, cap, validations | exact amounts, rounding that favours the seller, no overflow in the useful range |
| Accounts and assets (`state.rs`, `asset.rs`, `instructions/mod.rs`) | accounts at derived addresses; the MPL Core asset | guards, transfers, freeze, delegate | an asset always has its record's owner |
| Platform, events, tiers, staff | `PlatformConfig`, `Event`, `Tier`, `StaffAuthorization` | 12 instructions | terms are fixed from publication; fees can always be paid; no holder stranded |
| Sale, gift, resale | `TicketRecord`, `Listing`, asset, lamports | 10 instructions, two asset standards | one live listing per ticket, the price capped, money only for tickets |
| Check-in | `CheckInIntent`, `TicketRecord` | 6 instructions | exactly one use, by the current owner and the event's staff, in time |
| Demo reducer and gateway | lists of events, tickets, listings, intents | 11 commands and a reset | the same promise as the program |
| Demo table (three spaces) | React state over the gateway | buttons | shows only commands that keep the promise |
| Staff page, client transactions | payload, authorization, signature, evidence | scan, authorise, consume, wait | what the page shows is what the program did |
| Provider, holder, market and organizer pages | catalogue, pending operation, notice, stored pass | buy, give, list, cancel, present; publish, add tiers, authorise | a stale or torn catalogue misleads nobody about money, and a pass is what it says |
| Generated client and adapter | the wallet; a message under construction | build, resolve addresses, compile, send; list accounts | accounts, data and layouts are those the program declares |
| DAS proxy | a bounded table of counters by address | one request | the limit holds in every window, and only for the client's own requests |
| Vertical walkthrough, IDL, metadata route, layout | | | not modelled (section 6) |

Instructions interact only through accounts. A transaction is atomic: a failed
check or CPI undoes everything, so each handler is one action. Everything above
the program is concurrent: pages act on what they last read, several wallets
send transactions at once, and a transaction may land late, fail, or never land.

The hard behaviours: orders of instructions nobody tested (list, withdraw,
present, expire, and again), fields kept twice (record and asset, listing and
ticket, intent and ticket), boundaries of the time windows, integer widths,
admin changes around publication, assets under two standards, and pages that
read a ticket when they should read a transaction.

## 2. Modules

| Module | Models |
| --- | --- |
| `Domain` | `domain.rs`; for each `Result` function a value and an `...Ok` predicate |
| `TicketingState` | accounts as functions from seeds, `None` until initialised; guards, lamports, CPI wrappers; MPL Core's own checks are marked external |
| `PlatformEvent`, `Tickets`, `CheckIn` | one action per instruction, constraints of the accounts context included |
| `Ticketing` | all instructions in any order, the clock, the properties, fairness |
| `TicketRegistry` | abstract: phases and holder of a ticket |
| `MCTicketing`, `MCSeason` | constants for TLC; the second also a later start, with two events |
| `DemoReducer`, `DemoDesk` | the demo gateway; with the buttons (`DeskSpec`) and without (`GatewaySpec`) |
| `StaffConsole` | several staff pages, their wallets, the transactions in flight |
| `WebApp`, `MCWeb` | tabs of the web application over the real program: catalogues, operations, waits, passes |
| `Instructions`, `AccountLayouts` | what Codama generated: metas, defaults and data of 28 instructions; layouts and sizes of 8 accounts |
| `ProgramInterface` | the same from the program's side: contexts, entry points, account structs |
| `GeneratedClient`, `MCClient` | building and sending with a wallet that may change, and how the program reads the result |
| `DasProxy` | the limiter and the handler of the DAS route |
| `PricingProofs` | lemmas about the amounts of `Domain` |
| `TicketingProofs`, `LifecycleProofs` | proofs about the program, the second extending the first |
| `WebAppProofs` | proofs about the pages, on top of those about the program |
| `StaffConsoleProofs`, `DasProxyProofs`, `DemoProofs`, `ClientProofs` | proofs about the staff pages, the limiter, the demo table and the generated client |

Correspondence. `event[e]` is the account at the seeds `e = <<organizer,
event_id>>`; `ticket[<<e, n>>]`, `listing[<<t, n>>]` and `intent[<<t, n>>]`
likewise. `init` in an accounts context becomes `x[key] = None`, `has_one` and
address constraints become equalities on the stored keys. Handlers that exist
for two standards share a guard and effect where the code repeats them, and
differ in their asset conjuncts. `checked_add` on a counter is a bound in the
guard (`MaxTransfers` and so on), so the bound is the overflow itself. Left out:
texts, rent, account sizes, emitted events, error codes, bumps, and what no
handler reads back (`created_at`, tier names, the asset's address).

In `DemoReducer` a command that throws is no step, since it returns no new
state. Ids are numbers of the shared sequence. In `StaffConsole` a QR code is
named by its ticket, an intent is one that `present_check_in_core` opened, and
the program is what `Ticketing` shows it to be: it accepts one consumption of a
pending intent, in time, by an active staff member. As in `WebApp`, what is sent
need not be acceptable at that moment.

`WebApp` extends the whole program (`Ticketing`) and keeps beside the accounts a `ledger`
of what the four lists of the catalogue would answer after each transaction. A
refresh reads the lists with four independent requests; it is never cancelled,
refreshes overlap, and an answer may come as late as it likes. So at the moment
of a click the page may hold any four positions of the ledger, and the catalogue
is chosen there: `Catalogues(lists)` ranges over the positions at which a list
the page reads differs from the next. The wallet is chosen there too, since
connecting and leaving one is free between operations, and a click and its
signature are one action, since what changes between them is only how old the
catalogue and the time are, which are arbitrary already. From there on nothing
is merged: the transaction executes or is lost, the wait polls the accounts the
page polls (`Landed`) or gives up (`TimeOut`), the notice appears (`Announce`),
and after the refresh the page goes on (`Finish`). A wallet may simulate a
transaction before it sends it, on a state as old as its RPC node, or skip that
(the client only passes options to it, `wallet-standard.ts:99`); so `Send` asks
nothing of the program: what is clicked may be sent, and the program decides when
it lands. `Elsewhere` has the transactions of clients
that are not these pages.

In `GeneratedClient` an account meta is an address with two privileges and an
address is the tuple of its seeds. Every `await` is a step: each default of an
asynchronous builder, the diagnosis, the signature. `ProgramInterface` is
translated from Rust and `Instructions` and `AccountLayouts` from TypeScript,
independently, and the run compares them through the steps between them. Without
its defaults that are derived addresses a synchronous builder does the same as
its asynchronous twin, so one definition stands for both. What a handler checks
beyond its context belongs to `Ticketing`.

In `DasProxy` one request is one action: nothing the handler shares changes after
its first await. Its key is what `ClientKey` makes of the three headers, in the
order and with the fallbacks of the code. The history variables are sets of occurrences (an instant and
a number within it) and forget what is older than a window.

## 3. Runs

| Run | Instance | Shows |
| --- | --- | --- |
| `circulation` | 1 ticket under any standard, 2 holders, 2 listings, 2 intents, 2 transfers, pauses, the platform switching standards | types; intents and listings exclusive; the asset follows its record; one use, final; the registry is implemented; when tickets move; where money goes |
| `governance` | two events of two organizers: one with a ticket that was presented and left, and a member of staff; fees 1 and 8 of 10, two sets of terms, 2 tiers of up to 2, pauses for ever, fairness | supply, cancellation, fees, terms that settle and stay frozen; events do not reach into each other; abandoned intents are released, events end |
| `demo_desk` | capacities 0 and 2, two holders, 8 commands, time 4, resets | single use, capacity, listings, the registry's promise |
| `staff_door` | 2 pages, 2 codes, 2 transactions, 2 polls | evidence names a used ticket and the page's own transaction |
| `das` | an address and the shared key, a table of one, windows of 3 instants, limit 2, up to 6 requests of a key in a window's length | the bound over any span, refusals only for one's own requests, retry-after |
| `client` | 28 instructions and 4 transactions of several, every choice of omitted accounts, 2 wallets, 6 accounts on chain | positions, privileges, addresses, data, layouts, sizes; no default before its seed; what executes was built for its payer |
| `pages` | 2 tabs, 2 holders and an organizer who is staff, 2 transactions, 3 that succeed, 5 instants, prices 5 and 6 | one charge per request, the price shown, announcements, passes; a tier added while the event is published |
| `delegate`, `demo_gateway`, `staff_race`, `pages_finished`, `das_minute` | as above; `das_minute` has one address and room for it in the table | the five findings below |

Why the bounds are enough. The time windows of `MCDetails` put every boundary of
the code at an instant of its own or on top of another (sales end and check-in
opens at 2), and the clock passes all of them. Two listings, intents and
transfers are the smallest numbers with an old one and a new one, and the third
is the overflow. Basis points are scaled to tenths: fee 1, royalty 3 and price 5
round both shares, and fee 8 breaks the sum with the royalty; in `governance` a
width of 150 ends the settled range at 15. Holders are
symmetric (`HolderSymmetry`) in the safety runs and never under fairness.
One ticket and one event are enough for TLC in `circulation`: that tickets
do not interfere (`IntentExclusive`, `ListingExclusive`) is a theorem for every
number of them, and no instruction reads a second ticket. `governance` starts
where one event has a presented ticket (`SeasonInit`, which TLC reaches from
`Init` in nine instructions and ticks) and a member of its staff sets up, sells and
closes an event of his own, so that the accounts of both meet in every instruction
but those of listings (there are none): staff of the first event with tickets of
the second, the organizer of either with the other's event. It takes one event
through its whole life and the other to its end; that many steps from an empty
ledger would be out of reach.

`demo_desk` needs two purchases, two listings or two presentations within eight
commands; `demo_gateway` needs nine. In `staff_door` two polls distinguish a
first from a last one; the program uses twenty.

`pages` starts at three moments (before or after publication, while the first
ticket circulates, listed or not, and when check-in opens), so that two
transactions of the pages are a request and its retry, or two that race, and
three that succeed leave room for one by another client. In `das` a limit of 2
leaves requests before, at and after a boundary; two keys over one entry evict
each other at every moment of a window, and six requests of a key are enough to
reach the bound with one eviction (six), so that it could be violated there; a
second is 2 of the 3 instants of a window, so retry-after rounds. In `client` six accounts
(platform, event, tier, ticket, authorisation, intent) let every instruction find
what it loads except the managed consumption, which needs a seventh and which no
page sends; operations are bounded to what pages run, each from whatever accounts
exist.

`CHECK_DEADLOCK` is on except in the two runs of `MCWeb` and in `das_minute`: there
the clock and the numbers of transactions or requests are bounded, and once they
are used up nothing need remain to be done. Elsewhere something always is: `UpdatePlatform`, `Reset`,
`Inspect`, `Post` within its bound, `Connect`.

### Fairness

`Fairness`, which `SeasonSpec` assumes, has three parts. The clock of the cluster advances. Somebody
sends `expire_check_in` once an intent's time has passed: the instruction needs
no signer with a role, so any caller can be the keeper. The organizer of an event that ended
closes it. The last two are duties of people outside the program, not of its
scheduling: the two liveness properties therefore say that the program never
stands in their way (paused platform, closed window), which is what their
mutants break. They do not say that the duties are fulfilled: nothing in the
repository runs a keeper, and the web pages have no call that ends an intent
(`my-tickets-page.tsx:130`), a hazard left without a property.

### Findings

1. `cancel_listing` on a Core ticket (`tickets.rs:487`) leaves the asset's
   TransferDelegate, against `docs/CUENTAS-ONCHAIN.md:160`. Custody is kept, but
   the ticket cannot be listed again until a transfer drops the plugin.
2. The demo reducer admits a ticket twice when its gateway is called directly
   (`demo-reducer.ts:180`); through the buttons it does not (`demo_desk`).
3. The staff page shows a refused consumption as accepted
   (`staff-check-in-page.tsx:129`), because it waits for the ticket, not for its
   own transaction.
4. The manage page announces publication, a new tier or an authorisation as
   confirmed while the transaction is in flight (`manage-event-page.tsx:33`),
   against `docs/ARQUITECTURA.md:280`.
5. The limiter of the DAS route lets up to twice its limit less one through within
   a minute, at the boundary of two windows (`route.ts:86`), while
   `tests/das-route.test.ts:72` says 30 requests per minute and IP; an eviction
   adds up to a window. `RollingBound` is what holds.

Further observations, characterised by properties that hold. A page that waits
may announce somebody else's success as its own: `AnnouncedHappened` says
whose. It may announce what was so before the click: a gift to oneself, or an
offer of a torn catalogue clicked by who already bought it. The pass of a
page whose list still showed a former owner may name the next owner's intent, as
`PassesGenuine` says. The program names no price in `primary_purchase`, yet a buyer pays the one
shown, because tiers are frozen at publication; the exception is a list of tiers
read before publication beside an event read after it (`PaysShownPrice`). A gift
names no counter, so one repeated after a timeout is not recognised as the same
(`RetriedOnce` excludes it); it can only fail, or give the ticket again after it
came back. Opening My tickets with another wallet erases the first holder's
stored pass (`Drawn`): the pass is not false, but it is gone, and the web has no
call that ends the intent; `ExpiredIntentReleased` needs a keeper.

## 4. Proofs

The proofs hold for all values of the constants under the named assumptions:
`DomainAssumption`, `StateAssumption`, `InputAssumption`,
`NoneAssumption` (the value `None` is no account and no key), `WebAssumption` (what
the pages enter is among the program's inputs, and no tier starts with no supply),
`ConsoleAssumption`, `ProxyAssumption`, `DemoAssumption`, `ClientAssumption` and
`NobodyAssumption` (nobody attends under the name "nobody").
Each strengthening was first checked by TLC as an invariant, with the constants
of the run of its component: 144 256 distinct states for `SupplyInv`, 208 957
for the demo's, 1 860 154 for the staff pages', 927 165 for the pages' (their own
and what they keep of the program), 746 073 for the client's, and 2 852 018 for the
limiter's, whose "every later instant" TLC takes up to 12.

* `PricingProofs`: the fee is a floor; rates whose sum is valid leave a remainder;
  prices up to `MaxU64 \div BpsDenominator` never overflow; the cap is exact
  (`CapExact`). `LifecycleProofs` uses the first three.
* `TicketingProofs!TypeCorrect`: `TypeOK`, one lemma per group of actions. The
  type invariant is inductive as it stands because every width is in a guard.
  The second half of the module says what each step may do to tickets, listings
  and intents, as a few shapes (issued, handed over, listed, presented, ...).
  Each action is matched with its shape once, so later invariants are proved by
  shape and not by action.
* `TicketingProofs!IntentAlwaysExclusive` and `!EventsAlwaysIsolated`. Each is
  inductive together with `TypeOK`, which says what keys a record may name. The
  frames (`IntentFrame`, `ReleaseFrame`, `PresentFrame`, the `*Isolated` lemmas)
  carry it across the tickets and intents a step leaves alone; `SetupKeeps` adds
  that an event keeps its terms once published and that a staff authorization,
  once made, never returns to "None".
* `LifecycleProofs!AlwaysCancelledWithoutTickets` and `!FeesAlwaysPayable`: each
  inductive with `TypeOK`. `!TermsAlwaysSettle` follows from the second and the lemmas
  about amounts. Prices beyond its range are accepted by `add_tier` and `list_ticket`,
  and no sale of them may ever settle.
* `LifecycleProofs!UsedStaysFinal` rests on `IntentExclusive`: `consume_check_in_core`
  does not look at the status of the ticket, so only the exclusiveness of intents
  keeps it from using a ticket twice.
* `LifecycleProofs!AlwaysSingleUse`. The strengthening is `IntentExclusive` (an
  admitted ticket was active), `UsedUntouched` (a used record stays), `ConsumedKept`
  (so does a consumed intent) and `CancelledWithoutTickets` with `EventsIsolated`
  (the event of a ticket is past its draft, so its window no longer moves).
* `LifecycleProofs!ListingAlwaysExclusive`, with the same strengthening for the cap
  and the window, and `!TransfersAlwaysOpen`, which follows from it.
* `LifecycleProofs!ProgramImplementsRegistry`: the refinement. A step that rewrites
  one ticket is either a move between two phases in the same hands or a change of
  hands (`MoveImage`, `HandImage`); each shape is one of the two.
* `LifecycleProofs!TermsStayFrozen`: no step but those of an organizer on a draft
  writes terms; circulation writes no event and no tier at all.
* `LifecycleProofs!CustodyAlwaysConsistent`, inductive with `TypeOK`: each step
  rewrites the asset of the ticket it rewrites, under its own standard, or leaves
  both alone.
* `LifecycleProofs!SupplyAlwaysConsistent`: the tickets of a tier are as many as it
  says it sold. A sale adds one element to the set, which is finite because
  ticket numbers stay below the event's counter; every other step keeps the set.
* `LifecycleProofs!MoneyAlwaysFollows`: what a wallet gains or loses in a step is its
  part of one settlement, exactly, for each role it has (`GainDue`). A purchase and a resale are settled shape by shape
  (`PurchaseSettled`, `ResaleSettled`, also when payer, treasury and organizer are
  the same wallet); `OtherStepsUnpaid` says nothing else moves lamports.
* `DasProxyProofs`: the table's bound, and for every limit, window and table size
  the rolling bound, that a refusal was earned, and that retry-after is honest.
  "Fewer than twice the limit in a window" is not inductive, since the entry a key
  has now says nothing of a later span that began before it. The invariant
  therefore asks its bound of every later instant `u` (`Accounted`, `Clear`,
  `Told`): what will still be recent at `u`, and what an entry still open at `u`
  may add to it.
* `DemoProofs`: single use, capacity and offers under the desk's buttons, and that
  the desk implements the registry. `Presentations` (an open intent is of an
  active ticket, and the only one) is what single use rests on, and it is the
  buttons' guards that keep it: finding 2 is a run of the gateway without them.

* `StaffConsoleProofs!EvidenceAlwaysOfUse`. That evidence names a used ticket says
  nothing of who used it, so the invariant also has that a used ticket has exactly
  one succeeded transaction (`OneSuccess`) and that a job carries its own ticket
  and signature from sending to finishing, whatever the page scans meanwhile
  (`JobsGenuine`).
* `WebAppProofs!RetriesServedOnce`. Each request but a gift and an authorisation
  claims an address: it opens an account there, or closes the offer there. The
  invariant says that a request took its address from the view it was made on
  (`RequestsMade`), so a retry names the same one, and that no two successes share
  one (`ServedOnce`), because the program never erases what was opened nor reopens
  what was closed (`TakenStays`).
* `WebAppProofs!PricesAsShown`. Every snapshot of a published event shows the
  prices its tiers have now (`TermsKnown`), by `EventTermsStep` of `LifecycleProofs`;
  a purchase charges the price of now.
* `WebAppProofs!PagesDriveProgram`: every step of the pages is a step of the program.
* `WebAppProofs!PagesKeepPromises` and `!PagesStepsHonest`: single use, offers,
  custody, supply and cancellation hold while the pages run, and no step of theirs
  touches a used ticket, moves money without a sale or edits published terms. The
  pages start with an event and sometimes a ticket already there, so the theorems
  about `Spec` do not apply as they are: `StartPromised` shows that those starts
  satisfy the program's invariants, whose step lemmas do the rest.
  `!PagesFollowRegistry` carries the refinement over, step by step: the registry starts
  without tickets, the pages sometimes with one, so it says nothing of the start.
* `WebAppProofs!AnnouncementsTrue` and `!PassesAlwaysGenuine`: what the browser
  says. `BrowserInv` has two halves. `Screens` relates the pages to what they sent:
  a page waits for its own transaction, and every pass, in a tab, in storage,
  drawn or accepted as evidence, comes from a presentation that was announced.
  `ChainAgrees` relates what was sent to the program:
  what a page read of a ticket at any position of the ledger is still so, unless a
  transaction of the pages touched the ticket since (`Remembered`), and the counters
  of a ticket are past its listings and intents (`NumbersTaken`). So what a page
  waits for and finds was so when it read, or has a cause on the same ticket since
  (`LandedSince`): nothing is assumed of what the wallet checked. The
  holder of an intent has owned the ticket ever since it was opened, because check-in had opened and
  owners are final from then on, while an open intent ends before its time only
  by being consumed (`PresentationsTrue`, `IntentHonoured`).
* `ClientProofs!InstructionsAsDeclared` and `!DefaultsAlwaysResolve`. What is
  a matter of tables is compared once per instruction (`BuildersFit`, 28 cases):
  same accounts in the same order, one signer, the arguments the program reads,
  the seeds of what it checks among the accounts, and each default derivable from
  accounts no caller may leave out or from defaults before it. The rest is about any
  instruction that fits. The invariant (`ClientInv`) follows a builder between two
  awaited addresses: only defaults are missing, none of those already gone
  through, and as long as the wallet is the one the page was opened with every
  account is what the page means by it (`Intended`), since an address derived from
  such accounts is such an account (`DerivedAsMeant`).

Only model-checked:

* liveness (`ExpiredIntentReleased`, `PublishedEventEnds`), which needs fairness;
* `AccountsReadAsWritten`: the accounts a transaction leaves and the sizes of
  the layouts are folds over sequences, so it would take an induction over data;
* `ExecutedForPayer`, an action property of the client beside the invariants proved;
* the five findings, which are single traces.

## 5. What is left

1. That the pages start in states the program reaches: it is shown only that those
   states satisfy the program's invariants. A behaviour of the program that leads
   there is an existence claim, for TLC rather than for a proof.
2. The walkthrough as a module, if it ever does something the pages do not.

## 6. Not modelled

* The guided walkthrough (`onchain-vertical.tsx`): one page that calls the same
  client in one order for three wallets; `WebApp` has its operations in every
  order. Its fixed ticket 0 and nonce 0, and its expected failure of a second
  consumption, are its own.
* In the generated client, the `parse...` and `identify...` functions, which
  nothing in the repository calls, error tables and the bytes of discriminators;
  the IDL, which is data.
* Parsing of the QR text, the limit of twenty pieces of evidence, rendering, the
  metadata route, the scripts. The integration tests are read as documentation.
* Errors are refusals: which code is returned is not a property here. The
  browser's clock and the cluster's are one in `StaffConsole` and `WebApp`; the
  program checks the expiry again in either case.
