# A formal model of treadview

treadview is a market-research workstation: a Go backend (`src/app/backend`), a
React frontend and a browser extension. Most of the backend fetches, caches and
shows data of other people. What it owns, and must not get wrong, is the
*Paper* (simulated) trading ledger. The ledger is the core of these models; the
GPU price service, the backend's most concurrent background service, and the
audit chain that guards every administrative write are the other large subjects in
the backend, beside four services that its handlers share: the quote gateway, the
WebSocket hub, the ETF refresh and the circuit breaker of the market providers. By far the larger part of the code is the frontend. Its pages have no
threads, but each of them sends several requests whose answers come in any order,
while polls, timers, the address and the user go on changing what is asked: they
are modelled page by page.

Paths of the backend are relative to `src/app/backend/internal`, those of the
frontend to `src/app/frontend/src`.

## 1. Inventory

| Part | State | Operations | Hard behaviour | What makes it correct | Model |
|---|---|---|---|---|---|
| Paper ledger (`api/paper_orders_handlers.go`) | `paper_orders`, `paper_accounts`, `paper_positions`, `paper_fills` | submit, fill (whole or in parts), cancel, reconcile legs, recover | partial fills, OCO legs that are opened, resized, closed; shares promised to explicit SELLs and to several lots | cash and shares are what the fills say; reservations add up; nothing open gets stuck; what is closed stays closed | `PaperLedger`, `TradeBook` |
| Paper HTTP calls (same file) | a request in flight | read order, read quote, transaction, answer | reads before the transaction, lost answers, retries | one fill per id, cancelled stays cancelled, replays are true | `PaperCalls` |
| Stop scanner (`api/paper_stop_scanner.go`) | scan in progress, health | scan, recover at start | scan against manual calls and restarts | every triggered stop ends | `PaperCalls`, `PaperLedger` |
| Ledger audit (`api/paper_ledger_audit.go`) | none | one read-only check for readiness | its assertions must hold of every legal history | its assertions are invariants of the ledger | invariants in both |
| Portfolio and risk policy (`api/paper_portfolio_handlers.go`) | equity checkpoints, daily baselines | policy verdict, checkpoint after a fill | checkpoint not atomic with the fill | a checkpoint describes a ledger that existed | not modelled |
| GPU price service (`gpupricing/service.go`) | flag, provider set, statuses, current quotes, stored history, scheduler loop | refresh, reconfigure, prune, load | overlapping refreshes, replaced providers, restart | published is durable, new credentials are used, a refresh works with the installed set | `GPURefresh` |
| Quote gateway (`api/quote_timeout.go`) | flights by symbol list | fetch with two sources, grace, timeout | shared and retained flights | no untrusted quotes, nothing better thrown away; a caller always gets an answer; a hung source is not asked again, a key is not blocked for ever | `QuoteFlight` |
| Admin audit chain (`api/admin_audit.go`) | hash-chained `audit_events` | open, finalize, reconcile at start | crash between handler and outcome | the chain verifies after any crash, no answer without an outcome, an id runs once | `AuditChain` |
| ETF refresh (`etfrefresh/service.go`) | three files, trigger channel | run, trigger, shutdown; the tool `cmd/regenetf` | failed writes and crashes between three files, two processes | the current file was archived; the status claims what happened; a trigger is taken | `ETFRefresh` |
| WebSocket hub (`api/websocket.go`) | clients with bounded queues | register, broadcast, remove | removal from three goroutines, slow clients | no send blocks, a client with a gap is cut off, a removed client is gone | `WebSocketHub` |
| Market providers (`market/`) | snapshots, breakers | refresh, breaker verdicts | late answers | a broken provider is left alone, and probed again | breaker: `ProviderBreaker` |
| Admin sessions, LLM routing, scoring, agents, data flows, database synchronisation, status views, other handlers, extension | | | | | not modelled: section 8 |

The frontend, a React application whose router mounts one page at a time:

| Part | State | Hard behaviour | What makes it correct | Model |
|---|---|---|---|---|
| Home (`pages/Home.tsx`) | region, companies, evidence, notices | two effects, a ref written by one and read by the other | scores only with valid evidence, rows of the region | `HomePage` |
| Company notes (`pages/Notes.tsx`) | contents, open article, search, articles read | clicks, browser history and late texts | text and title of one article, the read list only grows | `NotesPage` |
| ETF monitor (`pages/ETF.tsx`, `stores/etfStore.ts`) | mode, category, sectors, a fund | a store without a gate | marks fit the rows | `ETFPage` |
| Portfolio (`pages/Portfolio.tsx`) | holdings, watch list, quotes, batch job | polls against edits, a session that ends | missing quotes are counted, private data is gone | `PortfolioPage` |
| Alerts, QDII premiums (`stores/alertsStore.ts`, `hooks/useQDIIPremiums.ts`) | alerts, cooldowns, premiums | overlapping checks, reloads | told once, only on live data | `AlertMonitor` |
| Stock page, screener (`pages/StockDetail.tsx`, `pages/Scan.tsx`) | stock, details, list, page of rows | six details and a poll, captured filters | details of the symbol, store page of its list | `StockPage`, `ScanPage` |
| Order desk (`pages/TacticalCommand.tsx`) | plan, idempotency keys, orders, audit | lost answers, late requests | a lost answer is not taken for a refusal | `DeskOrders` |
| Administrator, settings (`utils/api.ts`, `pages/Settings.tsx`) | session, form, status | many calls, one recovery | no call gives up without its own renewal, form fits its provider | `AdminSession`, `SettingsPage` |
| Shell, data freshness (`components/layout`) | palette, menus, status | late hits, refresh against load | hits of the query, failures stay told | `ShellPage` |
| A-share radar, charts | board, timers, grid, widgets | widgets that outlive their chart | charts show their bar's interval, nothing speaks for another | `RadarPage`, `ChartGrid` |
| Investors (`pages/Whales.tsx` and details) | categories, lists, profile | a store that outlives the page | lists of what is chosen | `WhalesPage` |
| Research lab, records (`pages/ResearchLab.tsx`, `Dashboard.tsx`, `History.tsx`) | run, decision, socket, records | events against answers, reconnects, batches | advice of the last run told of, one socket, the record that was made | `AnalysisLab`, `LabSocket`, `ResearchPages` |
| Copilot, A-share tools | chat and its storage, picks, routines | restored facts, hidden panels | facts pass the gate again, failures clear | `CopilotPage`, `ETFPage` |
| Journal, calendar | form, lists, months | a save followed by two lists | a lost trade is told, the day exists | `JournalPage` |
| GPU prices (`pages/GPUPrices.tsx`) | quotes, history, two administrator's buttons | three hooks without a gate | the open history is of a listed quote | `GPUPage` |
| Reports, flash news (`pages/Reports.tsx`, two stores) | reports with the open ones, news, filters, pause | path, list and system refresh share one sequence number; the news have no gate | the report of the path is there, "live" is said of live news | `ReportsPage` |
| Arena (`pages/Arena.tsx`, `components/arena`) | market, board, two stocks, searches | presets and searches race with choices | the board and the hits are of what is chosen | `ArenaPage` |
| Panels of the home page, cache and canvas of the heat map | an answer and its trust; a shared promise; nodes, simulations, pointer | remounts, expiry and invalidation under way; nodes that change while they move | rows bear their mark, a load is of its region, the map is of its nodes | `HomePage` |
| Texts, types, static pages | | | | not modelled: section 8 |

How the parts interact: HTTP handlers and the scanner call the ledger's
transactions, all of which go through SQLite transactions opened with
`_txlock=immediate` and are therefore serialised; prices come from the quote
gateway, which calls the market providers; the audit and readiness views read
the ledger; admin handlers wrap the writes of the GPU service and of others
with the audit chain. The frontend calls the handlers: what `DeskOrders` takes of the
server is what `PaperCalls` gives, and what `GPUPage` polls is what `GPURefresh`
publishes. Pages share stores that outlive them (etf, whales, analysis, alerts),
the admin session of `utils/api.ts` and the cache of `utils/stockgodData.ts`. The components and hazards with their source lines are
listed in `PROJECT.json`.

## 2. Modules

- `PaperLedger` - one account and one symbol. Every action is one transaction:
  `SubmitBuy`, `SubmitSell` (`SubmitPaperOrder`), `FillBuy`, `FillSell`,
  `FillLeg`, `Cancel`, `CancelLeg`
  (`transitionPaperOrderDBWithPolicyQuantity` by target and kind of row),
  `Recover` (`RecoverProtectiveOrders`). A transaction that returns an error
  rolls back, so it is a step that does not happen. `Reconcile` is
  `reconcilePaperOCOOrders`, part of the actions that call it, with its error
  returns (`ReconcileSucceeds`) as guards.
  `orders` are the rows without a parent, `legs` the newest child of each parent
  and kind (older children are terminal rows; `revision` counts them),
  `account`, `position`, `fills` the other tables, `nextId` the row id.
  Money is an integer number of hundredths and `Fee` and `ReservedShare` round
  as the code rounds. Quotes, provenance and the policy's verdict are free
  choices. A fill carries the instant its handler read before the quote and the
  transaction, so instants are a free choice too and need not follow the commits.
  `FillIds` are the ids clients choose; the code accepts any valid id, and nothing keeps them
  apart from those the server derives.
- `TradeBook` - what the ledger promises its owner: cash and shares that only
  trades change, each trade id once, nothing sold that is not owned, nothing
  closed traded again. `PaperLedger!ImplementsTradeBook` instantiates it with a
  refinement mapping; `ClosedOwners` maps terminal rows, older leg revisions
  included, to `closed`.
- `PaperCalls` - the steps around the transactions: `Call` reads the clock and
  the order, `Price` gets a quote or gives up, `Commit` is the transaction
  reduced to what its answer depends on, `Reply` reaches the client or is lost;
  the scanner's `ScanStart`, `ScanPrice`, `ScanFill`; `Tick`, `Restart`.
  `FillAnswer` keeps the order of the early returns.
- `GPURefresh` - refreshes of the scheduler and of HTTP requests, in steps that
  end where the mutex is released or a provider or the database answers:
  `Admit`, `Snapshot`, `Launch` (per provider), `Store`, `Publish`, `Fail`,
  `Finish`, `Look`, `Return`; `Decide` and `Wake` of the scheduler's loop;
  `Reconfigure`, `Tick`, `Restart`.
- `AuditChain` - guarded calls: `Arrive` (`Refuse`, `Duplicate`,
  `CreatePending`), `Handle` or `Panic`, `Record` or `Withhold`, `Reply`;
  `AppendSystem`, the row that a ledger transaction adds; processes that share the
  database: `Boot`, `Reconcile`, `Serve`, `Stop`. The steps end where
  a transaction does. A hash is represented by what it binds, the predecessor's
  hash followed by the hashed fields, so two hashes are equal exactly when SHA-256
  would be given the same input. `RowVerifies` is `verifyAuditEvents` for one row.
- `QuoteFlight` - the calls of `boundedQuotesWithMeta` for one set of symbols:
  `Lead` or `Follow`; the leader's loop `Receive`, `GraceEnds`, `Expire`; the cleanup
  `Release`, or, when the primary source is late, `LateAnswer` first, of the
  goroutine that keeps the key (step "retained"); the followers' select
  `FollowerAnswered`, `FollowerExpires`. A batch of quotes is its source and its
  worth: fresh, stale or untrusted.
- `WebSocketHub` - `Broadcast` takes the list of clients, then `Enqueue`, `Skip` or
  `Overflow` for each, in any order (a map is iterated); the write loop `Take`,
  `Written`, `WriteFails`, `StopWriter`; the read loop `ReadFails`; `removeClient` in
  three steps, `CloseDone`, `Delete`, `CloseConn`, by one of those in it, while the
  others wait in `closeOnce` (`SenderReturns`, `WriterReturns`, `ReaderReturns`).
- `ETFRefresh` - an attempt is `Begin`, `Collect`, `Archive`, `Promote`, `Report`, one
  step per file that is written, in the server and in the tool (`Boot`, `Stop`); the
  loop of the server is `Ticker`, `TakeTrigger`, `LoopEnds`. `promoted` in a status is
  not in the file: it remembers what the attempt that wrote it had done.
- `ProviderBreaker` - `Admit` is `providerAllowed` when it says yes, `Succeeded` and
  `Failed` are `providerResult`, `Passes` is the clock. `quiet` is not the
  program's: it measures the time since the last probe or failure.
- `MCServices` - these four, one in each behaviour (`service` never changes).
- `Screen` - what all modules of the frontend share: `page` names the page that is
  mounted and `ui` is its state; requests in flight are a sequence of records that
  are answered in any order. `Superseded` is `createLatestRequestGate` and what does
  the same (a `cancelled` flag set by the cleanup of an effect, a sequence number in a
  ref); `Heard` is an answer behind such a gate, `Taken` one without.
- The 22 modules of the frontend, named in the second table of section 1. In each,
  `XInit` is the page after its first render, `XNext` its clicks, polls, timers and
  answers. A step is what the browser runs without a break: a handler, an effect or
  the code after an `await`, together with the effects that the change of state
  triggers (`Effects`, `SessionEffect`, `Arrived` and the like). Operators that end in
  `Shown`, `Shows`, `Pane`, `View` say what is rendered from the state, and the properties speak
  of them. Failed requests and answers that the page rejects as stale, unsourced or
  incomplete are separate outcomes.
- `MCPages` - all these pages in one specification (`page` never changes), and
  the properties of the frontend, each the conjunction of what it means on each page.
- `MCPaperLedger`, `MCPaperCalls`, `MCAuditChain` - instances for TLC.
- `Aggregates` - lemmas about sums over finite sets and about smallest and largest
  members, which the proofs share. `PaperLedger_proofs` (in three parts: the rows, the
  reservations of one group and the trade book; the sums; the lots, and that nothing
  gets stuck), `PaperCalls_proofs`, `GPURefresh_proofs`, `AuditChain_proofs`,
  `Services_proofs`, and for the pages `PageInvariants_proofs` (requests in flight, the
  first pages) with `Pages_proofs` (the other pages, all pages together, the theorems) -
  theorems checked by TLAPS.

Operators whose comment starts with "Faulty:" are not used by any specification.
Each is a plausible bug in the operator that follows it; put in its place, it
makes TLC report the property named in `PROJECT.json`. They show that the
properties notice errors of that kind.

## 3. Runs

| Run (cfg) | Question | Instance | Distinct states |
|---|---|---|---|
| `ledger_lots` (`PaperLots`) | do cash, shares, reservations, rows and protection stay consistent, also when lots compete; is `LedgerInv` invariant; does the ledger implement the trade book; can open orders and legs always end; does restart recovery find what the running ledger had? | `OneLot`: a BUY of 3 and a SELL of 2, in any order and type, with 2 fills that clients name, one perhaps by the id of a leg, or two such BUYs with 1; or `SmallLots`: up to 3 orders, lots of 2 and SELLs of 1, with 1; of two lots either may have the later instant | 130 k |
| `oco_audit` (`PaperOcoAudit`) | does every legal history pass the audit's OCO check? **No** | a lot of 3 and a SELL of 2 | - |
| `calls_safety` (`PaperCallsSafety`) | are racing and repeated calls answered truthfully and done once? | 2 orders of 2, 2 requests at a time, 3 in all, 2 ids, one of them the scanner's for the first order, 1 restart | 8.3 M |
| `calls_live` (`PaperCallsLive`) | does every triggered stop end? | 2 orders, 2 requests, 2 ids, one of them the scanner's for the second order, 1 restart | 760 k |
| `fill_sequence` (`PaperFillSequence`) | do sequence numbers replay in clock order? **No** | 1 order of 2, 2 requests | - |
| `gpu_refresh` (`GPURefresh`) | is what readers see durable, and are new credentials used? | 1 provider, scheduler and 1 request, 2 sets, retention 1 or 2, 3 instants, 1 restart | 1.75 M |
| `gpu_reconfigure` (`GPUReconfigure`) | does a refresh always work with the installed set? **No** | 1 provider, 2 sets | - |
| `audit_two_processes` (`AuditTwoProcesses`) | do chain, answers and handlers agree when processes share the database, and does a start close what was left? | 2 processes started twice each, 2 calls, 2 ids, 1 system row | 632 k |
| `audit_live_reconciled` (`AuditLiveReconciled`) | does a start spare the calls of another process? **No** | 2 processes, 2 calls, 1 id | - |
| `services` (`Services`) | are served quotes trusted, are slow clients cut off, do the ETF files tell the truth, is a failing provider spared, and does nobody wait for ever? | 3 calls; 2 connections with queues of 1 and 2 senders; server and tool, 2 dates; threshold 2, cooldown 3, 3 batches in flight | 230 k |
| `pages` (`Pages`) | do the pages show what is selected, mark what is stale, tell failures, act once, and wait for something? | two of everything a page chooses from (4 model providers), 3 requests in flight | 3.6 M |
| `socket_reconnects` (`SocketReconnects`) | does the lab's connection try again as long as it is down? **No** | one socket | - |

### Why the bounds are enough

*Ledger.* A lot of 3 is the smallest that has two different partial fills before
the last, so a leg can be opened, resized twice, partly filled, closed by its
sibling and opened again; a SELL of 2 is smaller than the lot and larger than
what a partial fill leaves, so both orders of "SELL first" and "leg first"
meet. Two lots are what the allocation order (filled before unfilled, then row id)
needs to matter. `StopAndTarget` holds one price that triggers the stop leg and
one that triggers the take-profit leg; both also decide the explicit orders.
`Slippage` 1 and `MinimumFee` 100 make fees and rounding visible;
`InitialCash` 10000 pays for two lots of three with fees but not for more, so that the cash
checks bite. Fill ids bound the number of partial fills; a fill of everything
derives its own id, as in the code. Client ids are symmetric: no definition
orders them (row ids order the rows).

*Calls.* Two requests at a time and the scanner give every overlap of two
transactions with a third party; three requests allow a call, its repeat and a
competitor; orders of two shares allow a partial fill. `MaxTime` is 0 where no
property reads the clock. *GPU.* One provider is enough: no step of durability
relates two providers, and the round that asks failed providers only, and so may
miss the new set, exists with one. Retention 1 within 3 instants lets an observation
expire, retention 2 keeps it, and a replacement or a restart may change the one for the other.
*Audit.* With two ids two calls may be independent or a request and its repeat;
two starts per process let a call's process end before, during and after a
start of the other. The database may begin with a row that an earlier version
left pending; the system row can stand before, between and after the calls' rows.

*Services.* Three calls are a leader, its follower, and either a second follower or
the leader of the next flight that the first one's end may race with. Two connections
and two senders let two broadcasts remove one client while they disagree about the
other; with queues of one every second message overflows (`QueueSize` is 32 in the
code), and `MaxSent` bounds what each sender broadcasts: one message is enough for
`Skip`, `Overflow` and all removals to meet. In a proof all four numbers are arbitrary.
Two dates let the current file move on or back. The breaker opens at two failures (the code: three), so
three batches in flight are enough to open it and have one answer come late; `MaxBatches`
bounds them, in the code the workers do; the cooldown of three ticks lets answers
come in it at different times.

*Pages.* Only one page is mounted, and pages do not write one another's `ui`, so
the run is the union of the pages' state spaces rather than their product. Two
symbols, articles, categories, regions and so on are what a late answer needs to be
the answer of something else; `MaxFlying` 3 lets an answer pass two later ones, of
the same question or of others. `Slots` is 3 of the code's four charts: layouts of
one, two and more than two differ. `MaxWire` 2 and `MaxRequests` 2 bound events and
requests of the lab, `MaxMessages` 4 two questions with their answers, `MaxIds` 2 an
order and its repeat under another key, `MaxRefreshes` 2 and `MaxLoads` 3 overlapping
refreshes and loads around an invalidation, `MaxAttempts` 2 the polls of a batch job
(the code stops at a higher count), `MaxMonth` 2 one long and one short month of a
calendar, drawn with three days and two. `Archive` 2 with `PerPage` 1 make a list of
reports continue once; `Kinds` has one kind beside "all", which the filter by importance
complements; `Presets` and `Typed` are two pairs and two queries of the arena;
`PulseRegions` 2, `PulseCallers` 2 and `MaxPulses` 3 let a load of each region fail or
expire beside another that took its place. Timers that lift the radar's mark of refreshing
are counted up to two: further clicks only add timers of the same kind. Requests of one kind that nothing
tells apart are merged (`AskOnce`), and requests whose answers are known to change
nothing are dropped where the page gates them (`AskAnew`); both are chosen per page, by
the code. No page deadlocks, and the run checks that.

`CHECK_DEADLOCK FALSE` is set for the Paper, audit and services runs and for
`socket_reconnects`, which checks one property only: a ledger whose orders
are all closed, a client that made its last call, calls that are all answered,
connections that are all closed, and processes that have ended
for the last time really have no next step.
The GPU service's scheduler never stops, and its runs check for deadlock.

### Fairness

`PaperCalls`: the scanner's goroutine keeps scanning (weak fairness of its
steps: it runs on a ticker and each quote call has a timeout), and the quote service
does not miss a triggered order for ever (strong fairness: the stop's price is
hit again and again while quotes come and fail). Clients owe nothing: they may
never call, and a request may hang.
`GPURefresh`: a refresh goes on (weak fairness: provider calls time out after
45 s, the database answers), the scheduler decides and its timer fires (weak), and
the time of the next full refresh comes (strong fairness of a decision that is
not before it: the delay between rounds is capped by the time left until it).
Administrators, requests, the clock of pruning and restarts owe nothing.
`QuoteFlight`: timers fire and cleanups run, and the primary source answers in the
end, late or not: every HTTP client behind `Quotes` has a timeout (weak fairness). That
it answers in time is not assumed. `WebSocketHub`: goroutines run, a write ends by its
deadline of five seconds, reading a closed connection fails (weak); clients and senders
owe nothing. `ETFRefresh`: an attempt of the server goes on, since fetches have timeouts
(weak), and a select that finds the trigger ready again and again takes it in the end (strong: Go's
select chooses at random); ticker, tool, signals and crashes owe nothing.
`ProviderBreaker`: time passes (weak).
`AuditChain` states no fairness: its properties are safety properties, and a
process may end at any step.
The pages state none either: a request may hang as long as the browser lets it.
That no page waits in vain is stated without it, as an invariant: whenever a page is
marked as loading or a button is shut, a request is in flight whose answer lifts the
mark, or a timer or loop that will send one (`PagesNeverStuck`).

## 4. What the runs show

The ledger invariants hold in every interleaving of the instances: money is
neither made nor lost by reserving, releasing and filling in parts
(`LedgerReplaysFills`), reservations are exactly what open orders hold
(`ReservationsBacked`), and none of the ledger's internal "invariant violated"
errors is reachable (`NothingStuck` says, of every open order and leg, that the
transaction that would end it commits under an unused id, an explicit SELL and a leg by any
part of what is left). Restart recovery
changes nothing: every transaction but the manual cancel of a leg leaves the legs as
recovery would build them (`StaysFitted`). That cancel refits nothing, and the
next reconciliation may open legs again.
A BUY may stop being fillable when cash
runs out after a price above its reservation, which is why `NothingStuck` asks
of a BUY only that it can be cancelled.

The scanner always fills under the id it derives from the order (`full:<clientOrderId>`), and
`validRequestID` lets a client use that id as well, for a part of the order or for another
one. From then on every scan of the order is answered as a replay or a conflict and fills nothing.
`StopsEventuallyFire` therefore says of a triggered stop that it ends or that a client has
taken its id (`TakenByClient`); in the run this can happen to the second order and not to the
first.

The audit chain verifies at every step, also while processes crash, start and
close the same rows (`ChainVerifies`); what a client was told stays recorded
(`AnswersAreRecorded`); a repeated id never runs its handler again
(`HandlerRunsOnce`), which also means that a client whose answer was withheld gets a 409 for
its repeat. A row that a start closed says FAILED although its action may have
happened: `RecordsAreTrue` claims only what holds, that SUCCEEDED and REJECTED
rows had their handler run and DENIED rows had not. While a process serves, nothing
that stood in the chain when it started is pending (`LeftoversClosed`), whichever process closed it.
(`seen` is the one variable part that is not the program's: it remembers how
long the chain was at the start, to state this, and no guard reads it.)

The services: untrusted quotes are never served, and a leader returns the best
trusted quotes that came in time; a timed-out flight holds the key until the primary
source has answered, so a hung source is not asked again (`QuotesTrusted`). A flight that
ended by grace gives the key back at once, so there the next flight may ask a primary source that is still
working; and callers that follow a retained flight are given its old result, or the
snapshot. A connection that missed a message is cut off by the sender of that message
before it sends anything else (`NoSilentGap`); after `done` is closed the write loop may
still send messages behind the gap until the connection is closed. The
current ETF file is one whose date was archived, and the status calls complete only what was promoted,
failed only what was not (`EtfFilesTrue`). Narrower than one would wish: the archive
of a date may be replaced by another attempt, so it need not be the current file's text;
with the tool the current date may go back; a status "running" stays
after a crash, and "complete" after a later attempt none of whose writes of the status succeeded;
the log line "refresh failed without replacing last-good" (`service.go:148`) is also written when
only the last write of the status failed, after the promotion; a trigger that
was accepted when the server shuts down is lost.
While the breaker is open no batch is sent within a cooldown of the last probe or failure, even when
answers of earlier batches come in (`BreakerSpared`); any late success closes it.

The pages keep what they promise, in the form the code can promise it. What is
settled on a page is of what is selected, but for one price (`PagesShowOwn`, see below);
data that a failed or doubtful answer left behind is gone, counted or marked
(`StaleIsMarked`); a failure is not wiped out by an answer of another kind (`FailuresTold`); dependent choices agree after
any clicks, but for a hidden address (`ChoicesFit`); no alert, question or connection is doubled (`ToldOnce`);
the order desk never takes a lost answer for a refusal (`DeskAnswersKnown`); the shared list
is not older than its last invalidation (`CacheIsFresh`); no administrative call gives
up before a session was renewed for it (`AdminCallsRenewed`).
The promises are narrower than one would wish. Not covered, because the code does not
give it, are:

- StockDetail: the answer of the quote poll is written into whatever stock is shown
  (`pages/StockDetail.tsx:550`), so a stock opened meanwhile bears the other's price until the next
  price. `StockPage` keeps whose price it is; `StockShowsOwn` exempts the price such a poll wrote
  (`late`) and holds of every other.
- GPU prices: the history's answers are not told apart (`hooks/useGPUPrices.ts:149`).
- ETF: a late answer of one mode switches the page back to that mode (`stores/etfStore.ts:131`);
  the mark follows the rows.
- Screener: the poll asks for the page of the filters it captured (`stores/stocksStore.ts:204`).
- QDII: the hook and the panel judge trust by different rules, an alarm may
  be told while the panel says alarms pause (`components/QDIIPremiumRadar.tsx:12`).
- Order desk: editing the quantity drops the key of an unanswered fill
  (`pages/TacticalCommand.tsx:807`); a changed plan under the key of an unanswered
  submission is refused until the page is loaded anew (line 323).
- Journal: trades carry no key, a retry after a lost answer stores one twice
  (`pages/Journal.tsx:60`); its lists are not numbered (`stores/commandStore.ts:62`).
- Settings: a configuration on its way when the form is saved may revert the form (`pages/Settings.tsx:388`);
  the address the configuration has for openai or dual is kept (line 398), sent with a save or a
  test, and not shown (line 525). `FormFits` exempts it (`kept`) until a provider is chosen: of all
  other addresses none but the provider's own hides behind a form that does not show it.
- Lab: a late status, or the loss of the event that ends a run, leaves the stop button up (`stores/analysisStore.ts:407`).
  So does a run of a batch that fails: its event `batch_item_error` (`internal/api/batch_handlers.go:175`)
  has no case in `handleWsEvent`, and a cancelled one has none at all (line 169). The advice of a run
  stands while a later one failed (`stores/analysisStore.ts:562`), and while the event of a later
  result was missed.
- Copilot: the answer to a question from before the chat was cleared joins the new chat (`pages/TradingCopilot.tsx:249`).
- A-share tools: a level the price has passed can be armed and fires at once (`components/cn/CnRoutinesPanel.tsx:450`).
- Reports: the refresh of the whole system may put a list in the place of the path's report
  (`components/SystemDataSyncController.tsx:31`), and the report is missing after going back and
  forward; "more" after a single report may list it twice (`pages/Reports.tsx:293`).
- Flash news: pausing stops the poll of the store but not the refresh of the system
  (`components/SystemDataSyncController.tsx:93`), and the late answer of an earlier filter stays
  under the new one, narrowed by it (`stores/flashStore.ts:148`).
- Arena: two presets race, and one applied before the market changed to "cn" opens the
  comparison there (`pages/Arena.tsx:122`); the selector goes on saying it searches when the
  query is emptied meanwhile (`components/arena/StockSelector.tsx:39`); of two compared values both
  are bold when the first is greater and neither otherwise (`components/arena/ComparisonCard.tsx:138`).
- Two tabs overwrite each other's alerts and holdings; one tab is modelled.

Five runs show a disagreement of the code with what it says of itself:

1. `oco_audit`: a BUY fills in part, a leg of that part fills completely, the
   BUY fills the rest; reconciliation opens new legs in the same OCO group. The audit
   (`paper_ledger_audit.go:204`) calls a filled sibling beside active legs
   corrupt, and readiness fails for a legal ledger.
2. `fill_sequence`: `created_at` is the instant read before the quote and the
   transaction, the sequence number is given at commit. Two partial fills can
   get them in opposite orders, and the audit (`paper_ledger_audit.go:76`)
   rejects the log.
3. `gpu_reconfigure`: `refresh` clears its flag before pruning and again when it
   returns (`service.go:346` and `264`); the second time it can clear the flag
   of the next refresh. `Reconfigure`, documented as "intentionally rejected
   while a refresh is using the old set", is then accepted during it.
4. `audit_live_reconciled`: every process closes all pending rows of the
   database when it starts, before it tries its port. The rows of calls that another
   process is handling become FAILED, and their answers are withheld
   (`admin_audit.go:438` speaks of "requests left in-flight by a previous
   process"). Likewise a start ends with `log.Fatalf` when a row it found
   pending is closed by its own process first.
5. `socket_reconnects`: the cleanup of the effect in `hooks/useWebSocket.ts:84` clears the
   reconnect timer but leaves its number in the ref, and `scheduleReconnect` does
   nothing while the ref is set. Left and entered again while the connection cannot be
   made, the lab stays disconnected, against "Auto-reconnect after 3 seconds" (line 61).

The audit models also contain a panic in a guarded handler (`Panic`): it skips the
recording, and gin's Recovery writes its status 500 into the response buffer that
is then dropped, so the client sees an empty 200 without an audit header while the row is
pending. The chain and what it says stay right, and the properties above hold; what
Recovery does is modelled from gin, which is not in the repository, so no run claims
this as a finding.

## 5. What is proved

TLC checks the runs' properties on the instances of section 3. The theorems below hold for
every value of the constants that satisfies the assumptions of the module: any number of
orders, lots, callers, providers, calls, connections, any quantities, prices and fees. Every
safety property of the passing runs is stated by one.

### The ledger

- `RowsInvHolds`: `Spec => []RowsInv`. `RowsInv` is inductive, `TypeOK` alone is not:
  that no share count gets below zero
  depends on the reserved shares being at most the shares owned, on an open row
  having something left, on a closed one holding nothing (`OrderShape`,
  `LegShape`), and on the legs of a group sharing one reservation
  (`OneReservationPerGroup`). The proof goes action by action. What all actions
  share are lemmas: `AllocateBounds` (each lot gets at most its protection),
  `ConsumeOK`, `FittedLegOK` and `FittedLegsOK` (refitting keeps leg shape and
  the group's reservation whatever the old leg was), `ReconcileOK`.
- `TypeCorrect` and `GroupsCanClaim` follow from it: `[]TypeOK`, `[]OneReservationPerGroup`.
- `LedgerImplementsBook`: `Spec => ImplementsTradeBook`. Every fill is a
  `Trade` of the book, every other step a `Close` or a stutter. The argument
  rests on closed owners never reopening: a terminal order row is never written
  again, and a closed leg is followed by a child with a higher revision
  (`ClosedGrows`, `LegsMoveTrans`).
- `ReservationsAreBacked`: `[]ReservationsBacked`. Beside `RowsInv` the invariant is `Backed`:
  the account's reserved cash, and the shares that are reserved and held by no leg, are the sums
  over the orders. An action changes the row of one order, so both sums change by what
  that row changes by.
- `FillsReplay`: `[]LedgerReplaysFills`, through the refinement: what the book
  says of a step (`Trade` or nothing of cash and shares) is all the proof uses of the ledger.
- `RowsAgree`: `[]RowsAgreeWithFills`. The invariant `Agreed` adds that every fill belongs to a row
  that exists (`LogFits`), so that the first fill of a new revision of a leg finds none
  recorded for it. `LedgerInvHolds` adds the row ids and the places of the fills:
  `[]LedgerInv`, which the run checks as it stands.
- `ProtectionIsBacked`: `[]ProtectionBacked`. The invariant is `PromiseKept`: the protection of
  all lots is at most the shares held. A sale takes shares away, so it must take as much
  protection away; that the waterfall over the lots does so, whatever their order, is the lemma
  about what it deals out in all: the amount asked for, or everything there is.
- `NothingGetsStuck`: `[]NothingStuck`. Inside the transaction that ends an open order or leg
  no check fails: reconciliation finds the shares it promised to the legs, the claim of a
  filled leg finds its group's reservation, and the id the server derives is not in the log yet,
  because a fill recorded under it that no client named so would have closed its owner
  (`ServerIdsClosed`). Nothing is assumed of the ids that clients choose: one who takes the
  id the server derives for an open row makes that default id useless, and the row is filled
  under any other.
- `FittedLegsStayFitted`: `Spec => StaysFitted`, an action property. A transaction that ends in
  reconciliation leaves legs that a second one would not change, whatever it found
  (`ReconcileFits`, from `FittedTwice`). An accepted SELL fits the legs to what it leaves
  them before its own reservation exists, and with it the waterfall deals out the same. The complete
  fill of a leg refits nothing: there the proof needs the legs to fit before, and that the
  waterfall deals the others the same when a lot and the amount both lose what the lot was
  dealt (`DealtWithout`): lots ahead of it were full, lots behind it had that much before them.

The sums are folds (`SumFunctionOnSet`), and induction over finite sets cannot be cited here
as the library states it, with a predicate as parameter. `Aggregates` does without: a fact about
sums that fails for some finite set fails for a smallest one, by the well-foundedness of `<` on
the cardinalities, and taking one element away from it contradicts that it is the smallest.

### The calls around the ledger

- `CallsInvHolds`: `Spec => []CallsInv`, for any number of callers, orders, requests, ids and
  restarts. A caller works with what it read before others changed the rows; that this does no
  harm has one argument. A transaction only adds fills and never changes an order that has
  ended (`Lasts`), so what an answer says of the rows (`Holds`), once true, remains true. Of a
  call that has committed the invariant says that its answer holds (`AboutToAnswer`), of every
  reply on record the same (`AnswersTrue`).
- `CallsTypeCorrect`, `NothingOverfilled`, `EachFillOnce`, `CancelledForGood` and `ReplaysReal` follow:
  `[]TypeOK`, `[]NeverOverfilled`, `[]FillsOnce`, `[]CancelledStaysCancelled`, `[]ReplaysAreReal`.

### The GPU price service

- `RefreshTypeCorrect` and `PublishedIsStored`: `[]TypeOK` and `[]CurrentIsStored`. Two refreshes can
  overlap (run `gpu_reconfigure`), so the invariant may not say that one runs. `RunOK` says of
  each refresh by itself that what it stored and has not published is stored, or has outlived the
  shortest retention; another refresh that prunes removes only the latter, and a replacement of the
  providers takes nothing from the history. The retention is part of the configuration
  (`applyOperationalConfigLocked`), so the property may not name the one in force: an observation
  pruned under a short one is not brought back by a longer one. (The handler that reloads credentials
  passes the value the process started with; `Reconfigure` takes any.)

### The audit chain

- `AuditInvHolds`: `Spec => []AuditInv` for any number of processes, calls, ids,
  starts and system rows. What clients observe is not inductive: that the
  recorded outcome is the handler's needs `CallAgrees` (where a call stands, what
  its row may say), that nobody else's row is meant needs `RowsOwned`, that a
  repeat finds its id needs `IdsUnique`, and that a start ends with nothing open
  needs `StartsAgree` (what is pending of it is still to do). The chain changes in two ways only;
  `AppendVerifies` and `FinalizeVerifies` show that each keeps it verified, the second
  because a version 4 hash leaves out what finalising changes (`HashKept`).
- `AuditTypeCorrect`, `RecordsStayTrue`, `ChainAlwaysVerifies`, `AnswersStand`, `OneRunPerId` and
  `NothingLeftOpen` follow from it, and `ClosedStaysClosed`, an action property, from its type part.

### The four services

- `ServicesTypeCorrect`: `[]ServicesTypeOK`, from the invariants that follow.
- `QuotesStayTrusted`, `HubHasNoGap`, `ETFFilesStayTrue` and `BreakerSparesAlways`: the
  safety properties of the four services, for any number of calls, connections, senders,
  dates, and any queue size, threshold and cooldown. Each rests on an inductive
  invariant (`QuoteInv`, `HubInv`, `ETFInv`, `BreakerInv`). `QuotesTrusted` needs to
  know of a flight that still collects that it has no fresh primary quotes yet
  (`FlightOK`), or a timeout could throw them away, and that followers follow a flight that exists (`Followed`);
  `NoSilentGap` only the types, since a sender leaves a removal when the connection is
  closed and not before; `EtfFilesTrue` that the result of an attempt is archived by the time it is
  promoted, and that only an attempt that reports success has promoted anything; `BreakerSpared` that
  the time left of an open breaker and the time since the last probe or failure
  together make a cooldown.

### The pages

- `PagesInvariant`: `Spec => []PagesOK` for `MCPages`. Each of the 38 parts of the
  frontend that can be mounted has an invariant of its own (`HomeOK`, `ETFOK`, `DeskOK`
  and so on), about the requests in flight and the state together: what a current request
  asks for is what the page would ask for now, what is shown came from such a request, and
  what a handler captured before it waited may only be used as the code uses it.
  `MountedStarts` and `MountedSteps` say that the first state and a step of the
  specification are those of the page that is mounted, so that `PagesOK` is inductive if each
  page's invariant is.
- What the pages share are lemmas about `Screen`. `Gate`: once its code has
  asked anew, no request of that kind is current any more, all others are as before
  (`createLatestRequestGate`). `GateAsk`, `GateAnswered`, `OthersStay`: what a new request and
  an answer do to what is said of the others. `AskOnceIs`, `AskAnewIs`, `SingleLasts`: that
  merging and dropping requests, which keeps the model finite, does the same.
- `SelectionShown` (`[]PagesShowOwn`, but for the late price), `StaleStaysMarked`
  (`[]StaleIsMarked`), `FailuresStayTold` (`[]FailuresTold`), `ChoicesStayFit` (`[]ChoicesFit`), `DeskKnowledge` (`[]DeskAnswersKnown`),
  `ToldNoMoreThanOnce` (`[]ToldOnce`), `CacheFreshness` (`[]CacheIsFresh`), `AdminRenewal`
  (`[]AdminCallsRenewed`) and the action property `ArticlesStayRead` (`NotesReadKept`) follow from it,
  page by page. For the lab, `LabAdvised` adds what is on the wire: the last result there is the
  last one published, so that once all are heard the gauge agrees with it.
- `NobodyWaitsInVain`: `[]PagesNeverStuck`. The selection being right does not say that an
  answer is still to come, so several pages need more, and these parts of `PagesOK` say what
  each waits for (`AdminWaits`, `CalendarWaits`, `ETFWaits`, `LedgerWaits`, `BatchWaits`,
  `DeskWaits`, `LabWaits`). The pages where this is not plain: in the lab a stop button may stand
  because of an event that is still on the wire, which is enough only because events come in order
  and a start on the wire is either of the run that is going or followed by its end
  (`Heralded`), or because the refusal of the start is under way; a batch job's loop may sleep
  between two polls; the desk's button is lifted by the baseline's answer or by the reload after it.

What is assumed there of the constants is little: the bounds are numbers, the placeholder
`None` is no region, article or symbol, a grid has two charts at least, and the calendar
has the two months in which the user's events lie.

The proofs assume `PaperConstants`, `CallConstants`, `RefreshConstants`, `AuditConstants`,
`QuoteConstants`, `HubConstants`, `ETFConstants` and `BreakerConstants`, for the pages `ScreenConstants`,
`HomeConstants`, `HomePanelsConstants`, `ArticlesNamed`, `PortfolioConstants`, `PaperPanelConstants`,
`DeskOrdersConstants`, `DeskStateConstants`, `MarketCacheConstants`, `GridConstants`, `LabConstants`,
`MacroConstants` and `ReportsConstants`, which TLC evaluates in the runs, and `NothingGetsStuck` what is said above.

## 6. What is only model-checked

- Liveness under fairness (`StopsEventuallyFire`, `NewSetAsked`, `NothingWaitsForever`) is out of
  the provers' reach.
- What the five runs that find a violation show: their counterexamples are behaviours of one instance.

Every invariant of the passing runs, and each of their other action and refinement properties, is
stated by a theorem of section 5.

## 7. What could be added next

In this order, the most important first:

1. `PaperPolicy`: policy refusals and the equity checkpoint after a fill, with
   the snapshot captured before the transaction; crash between fill and
   checkpoint.
2. Compose `PaperCalls` with `PaperLedger`'s transactions in place of the reduced
   ones, and `DeskOrders` with `PaperCalls`.
3. The background refresh of market snapshots (`market/live.go`), whose workers share
   the breakers, and the promotion of its results to the snapshot files.
4. `PaperCalls` with the quote gateway's flights in place of any quote or none.

## 8. Not modelled, and why

Inside the modelled parts: several symbols and currencies (rows of different ones
never meet in a transaction, except in the policy), legacy protection capacity
(`initializeLegacyProtectionCapacities`, for rows older than the column), average cost and realised
profit, row versions (inside an immediate transaction the compare-and-set
cannot miss), the policy's numbers, the text of errors, the scanner's health
report and daily equity baselines; in the GPU service the vendors' wire formats and the
history query; in the audit chain the legacy append that no caller uses, the
read-only listing and the comparison of system rows with the ledger's tables
(its assertions on the ledger are invariants of the ledger models); in the four
services the content of quotes, histories and messages, the WebSocket upgrade with its
origin check, and the validation of funds and histories, which is one choice between good and bad.

Other parts: admin sessions are a lookup with an expiry; LLM routing is a
stateless fallback; agents, scoring and data flows compute over external data
and free text; database synchronisation imports files; status views and the
remaining handlers read; the extension reads a page and calls the API once per click.

In the frontend: drawing, formatting, translations (`i18n.ts`), themes, focus order and
sorting; the arithmetic of scores, plans and risk cards; import and export of files;
what an embedded chart of a third party draws; other tabs of the browser. A page that is
left is unmounted with its state, so pages are modelled one at a time; the stores that outlive a page are
in the module of the page that shows them. The geometry and the colours of the heat map are left out. Not modelled at all are texts,
static pages, and the pages no route leads to (`App.tsx`, `pages/MarketBoard.tsx`, `pages/WhalesSimple.tsx`,
`pages/WhalesPro.tsx`, `pages/WhalesProV2.tsx`, `components/WhalesBoard.tsx`): dead code has no
behaviour to check.
