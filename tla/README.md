# YourTal: a TLA+ verification project

YourTal rewards viewers with points, sells them vouchers for points and lets
merchants redeem the vouchers. Four programs hold the state that matters: the
API (`apps/api`, TypeScript), its worker (`apps/worker`), the ledger
(`services/ledger`, Go) and the voucher service (`services/voucher`, Go), each
with its own Postgres schema, and a payment provider keeps the money. They call
each other over HTTP; there is no transaction across them. This project models
the places where points, vouchers and money can be lost, doubled or stuck when
requests, background loops, retries and crashes interleave.

Run `tlc -config X.cfg M` for a run of the table below and `tlapm M.tla` for a
module of proofs. `PROJECT.json` lists components, runs, mutants, source lines,
hazards, findings and theorems.

## The system

| component | state | operations | what is hard |
|---|---|---|---|
| checkout saga, `apps/api/src/modules/checkout` | a row of `checkout.saga` per checkout | quote, confirm (`runSaga`), dispute, the recovery job | three services, one call at a time; concurrent confirms; a crash between any two calls |
| voucher stock, `services/voucher/internal/issue` | `voucher.vouchers`: state, saga id, owner, version | reserve, release, activate, void | idempotent by saga id, but in READ COMMITTED |
| redemption, `services/voucher/internal/redeem`, `api/device_routes.go`, `lifecycle/expiresweep` | authorizations, captures, refunds, outboxes | authorize, capture, void, refund, two sweeps, kill switch | sweeps that list and then act; partial captures; voids under a hold |
| user points, `services/ledger/internal/{reward,escrow,burn,expiry}` | accounts pending, available, escrow; grants, escrows, burns | grant, release, hold, burn, reinstate, expire | loops that list and then act; keys that must identify one event |
| reward funding, `services/ledger/internal/reward/{holds,budget,funding}.go` | allocations, session holds, the campaign's budget and daily cap | hold, draw, release, the checker's sweep | a hold that expires under its grant; a hold counted twice |
| watch sessions, `apps/api/src/modules/watch` | `watch.session` rows | start, progress, complete | the row is read, the ledger is called, the row is written: requests of one viewer overlap |
| idempotency, `packages/idempotency`, `packages/queue`, the API's interceptor | one record per key | claim, complete, abandon, expire | the holder dies, is late, or is gone when it is read |
| charity auctions, `apps/api/src/modules/auction` | auction, bids, settlement | list, bid, settle, cancel | calls to the provider inside a transaction that may roll back |
| disbursement, `apps/worker/src/jobs/settlement-*.ts`, staff's settlement module, the Stripe webhooks | `payment.disbursement`, the statement, the proposal | approve, transfer, pay out, read back, check again, retry | lost answers, keys that are forgotten, webhooks in any order, two people and a job on one row |
| posting core, `services/ledger/internal/ledger` | transfers, entries, balances | `TransferInTx` | idempotency keys, guarded accounts, reversal |
| outbox posters, `services/voucher/internal/ledgerpost` | capture and expiry outboxes | drain | at-least-once delivery by several instances, late requests, refused rows |
| settlement statements, `services/ledger/internal/settlement`, `apps/worker/src/jobs/settlement-statements.ts` | statements, disputes, recoveries | generate, dispute, resolve, approve, recover | entries that commit after their week, payouts inside later periods, weeks that are skipped or asked for too late |
| gifts, `issue/gift.go`, `remint.go` | gift rows, reminted vouchers | gift, accept, decline, sweep | two owners of one value |

The remaining parts (marketing reserve, pricing, batches, event chain and
anchors, worker schedules, identity, web, plain CRUD) are listed in
`PROJECT.json` with the reason they are not modelled.

How they meet: `runSaga` calls `reserve`, `burnForVoucher`, `activate`, `release`
and `reinstateBurn`; the ledger's burn and reinstatement are the same operations
in `Checkout` (by saga) and in `UserPoints` (by balance). An active voucher of
`Checkout` is an active voucher of `Redemption`; what a till does to it appears
in `Checkout` as the one action `AtMerchant`, and a dispute's void appears in
`Redemption` as `VoidVoucher`. `Watch` EXTENDS `Funding` and makes its calls: a
completed session ends in the grant that `UserPoints` starts from. What
`Redemption` writes to its outbox of captures `Outbox` posts to the ledger;
`Statements` starts from what is posted, and a statement it pays becomes the
money `Disbursement` moves. Every one of these calls from the API
carries an idempotency key, which `Idempotency` is about.

## The modules

### CheckoutPromise and Checkout

`CheckoutPromise` says what a buyer is promised, without services or crashes:
a checkout goes from open to paid to delivered, perhaps to returned; the price
is taken once, from points the buyer has, and comes back once. `Checkout` is the
program.

| `Checkout` | code |
|---|---|
| `state`, `voucherOf`, `lapsed`, `quoteOver` | `checkout.saga`: `state`, `voucher_id`, `reserved_until`, `quote_expires_at` against now |
| `vstate`, `vsaga` | `voucher.vouchers`: `state`, `saga_id` (held, redeemed and expired are one state, "taken") |
| `burn`, `points` | the ledger's burn of a saga, the available balance |
| `pc`, `at`, `got` | the call a request or the recovery job makes next, its saga, what reserve answered |
| `Confirm`, `CheckBalance` | `confirm`, and the start of `runSaga` |
| `ReserveLooks`, `ReserveClaims` | the two statements of `Reserve` |
| `Burn`, `Activate`, `Release`, `TakeBack`, `Reinstate..` | the calls of `runSaga` and `disputeVoucher`, with the refusals of the services |
| `Advance..` | `PostgresSagaRepository.advance`, the compare-and-set that follows each call |
| `Recover`, `AskLedger` | `recoverSagas`, `recoverOne` with `burnState` |
| `Dispute`, `VoidVoucher`, `VoidActive` | `disputeVoucher`, `voidVoucher` and the transaction of `minter.Void` |
| `Crash` | any call that fails or loses its answer, a process that dies |

A process takes one step per awaited call. A call that changes state is atomic,
being a transaction of the called service, except `Reserve`, whose two
statements see different snapshots, and `voidVoucher`, which reads outside its
transaction. The three attempts of `activate` are one step: a failed attempt
changes nothing. `MayRefuseActivation` stands for the answers `kill_switch` and
`idempotency_conflict`, which the contract and `unusable()` allow although
the handler does not give them today; with FALSE the model is the code as it
answers now. A closed-code refusal of `release` (none exists today) is not
modelled. Two details are coarser than the code: a compare-and-set that fails and
the `findById` that follows it are one step, and `Recover` takes any unfinished saga
where `listUnfinished` answers the 50 that lapsed first (with at most two sagas the
limit is not met; beyond it old rows come first).

### UserPoints

One region's users. Each operation is a serializable, retried transaction, so
one step; `ListDue`/`ReleaseListed` (`ReleaseDue`) and
`StartSweep`/`ExpireOne`/`FinishSweep` (`Run`) list first and act later.
Balances are kept per user; `posted` is the set of expiry transfers by key.
Abstractions: a holdback may have passed at any time; the grants' funding and
the locked price are external; a grant with a NULL holdback (an old row that
never gets an `unlock_at`) is left out; the sweep's pages are one listing, which
is enough because the cutoff is fixed and activity only grows, so a page can
only miss accounts that would be skipped; two transactions never read the same
instant; expiry is enabled. `SweepRegions` only logs an error of a region, so a
conflict ends that region's pass. The two notice milestones are one.

### Redemption

`Authorize`, `Capture` (merchant and device in one action, with what the device
path does not check), `Void`, `Refund`, `VoidVoucher` (any `minter.Void` or
remint), the hold sweep (`SweepHolds`, `ReleaseSwept`) and the expiry sweep
(`ListDue`, `ExpireListed`), with `ToggleKill` and the two clocks. `owed` and
`closed` are the rows of the two outboxes, in settlement money. A failing
compare-and-set rolls the transaction back and is a step not taken. One
instance of each sweep runs at a time. Vouchers come from a batch; policy
minimum_spend behaves like single_use_forfeit once its threshold is met.

The lifecycle table and its tests know one way back from an ended state:
expired to active, inside a grace window, to undo an expiry that went wrong
(`lifecycle.go:49-51`, `:105-110`, `:183-188`; `lifecycle_test.go`, `TestEveryPair` and
`TestExpiryIsOnlyReversibleInsideTheGraceWindow`). Nothing calls
`ExpiryIsReversible` and no program takes that edge, so the model has no action
for it. `EndedStaysEnded` excepts it by name (`UndoesExpiry`): redeemed and voided
are final, and an expired voucher moves only by such an undoing. The code that
adds one must also take back what `ExpireListed` wrote to the outbox (`closed`), or
`EndsAtS` breaks.

### Funding and Watch

`Funding` is the ledger's side of one campaign: what is left of the allocation,
a hold per session, the grants. Each operation is a serializable transaction
under the campaign's lock, so one action: `PlaceHold` with `Admits`
(`HoldForCampaign`, `checkCampaignBudget`), `Grant` with `DrawFor` and the
unique (user, action, campaign), `ReleaseHold`, the time to live, and the
checker's `ReleaseExpired`. `Watch` is the API's side.

| `Watch` | code |
|---|---|
| `session` | `watch.session`: state, terms version, `non_earning_reason`, hold id, granted flag; `refusal` remembers why a grant was refused (no column) |
| `request` | what a request has read and where it is |
| `Start`, `OpenSession`, `Supersede` | `startSession`: the verdict and the terms are read before `startOrResume`; `supersedeNonEarning` and the second start |
| `DecideEarning`, `HoldPlaced`, `HoldRefused`, `Finalize` | `hasBeenGranted`, the ledger's hold, `finalizeEarningOutcome` |
| `WatchThrough`, `WatchElsewhere` | the progress reports and questions, as one step; a start elsewhere parks the session |
| `Load`, `MarkCompleted`, `IdentityRefused`, `GrantPaid`, `GrantRefused`, `MarkGranted` | `completeSession`: the row read once, the conditional update, the grant, the flag |
| `Pause`, `Resume`, `PublishTerms`, `VerdictChanges`, `Midnight`, `OtherViewers`, `Dies` | what happens around it |

`startOrResume` is one step although the code runs two statements: concurrent
transactions that would leave two open or two active rows meet the unique
indexes of `watch.session`, so each runs whole or not at all. A refusal for
another reason than room (earn caps, solvency, the risk gate) may always happen.

### Idempotency

One key; keys and scopes share nothing. `kind` says whether a route's
requests or a queue's rows use it. `Claim` is `putIfAbsent`'s upsert, `ReadHolder`
the second read of a caller that lost, with `Outcome` for what `begin` answers;
`Handle` is the route's or job's own work, `Settle` is `complete` and `Abandon` is
`abandon`, both by key alone, as in the store. `Deliver`, `Ends` and `LeaseEnds`
are pg-boss as `idempotentWorker` uses it: delivery, completion, retry up to the
limit, dead letter, a lease that runs out. `Expire` and `Prune` are the retention.
A handler that answers 4xx is taken to have changed nothing, which is the
convention of the routes.

### Auction

One auction. A bid or a close is one database transaction under the row lock:
`tx` keeps what it has written and not yet committed, which a `RollsBack`
forgets, while `intent` (the provider) and `owner` (the voucher service) keep
what its calls did.

| `Auction` | code |
|---|---|
| `ListVoucher`, `InsertAuction` | the listing route: the voucher goes into escrow, then the row is inserted |
| `BeginBid`, `CheckBid`, `PlaceHold`, `HoldDeclined`, `ReleaseEarlier`, `RecordBid`, `UndoBid` | `placeBid`; the transaction's `now()` is taken before it waits for the lock |
| `BeginClose`, `CaptureNext`, `NoMoreBids`, `ReleaseNext`, `HandOver`, `CommitClose` | `settleAuction` and the cancel: captures from the highest bid down, release of the others, escrow release, the writes |
| `ProviderCancels`, `MarkHoldCanceled` | the provider's 7-day sweep and the webhook `payment.canceled` |
| `unheard` | history: bids whose capture was answered by an error, whether it happened or not |

Left out: a close throws when the charity is no longer approved or has no
administrator (`settle-auction.ts:45`, `:90`), and the sweep takes the 20 auctions
that are due longest (`dueIds`). `EventuallyCloses` is therefore about an auction
whose charity stays in order and that is not behind 20 others whose closes fail.
The provider remembers keys and refusals for ever.

### Disbursement

One approved statement of a merchant in Australia.

| `Disbursement` | code |
|---|---|
| `statement`, `proposal` | the ledger's statement, staff's `approve_payout` proposal |
| `row`, `account` | `payment.disbursement` (`transferAsked`, `payoutAsked` for `*_requested_at`), `payment.connected_account` |
| `transfers`, `payouts`, `known` | what the provider made and the idempotency keys it remembers |
| `run` | where a run of the job is, with the row as it listed it |
| `Start`, `Begin`, `AwaitAccount` | `queueApproved`, `openRows`, `retryAfterFailure`, an account that is not ready |
| `WriteTransfer`, `SendTransfer`, `SaveTransfer`, `TransferRefused`, `GiveUpTransfer` | `transferFunds`: written before the call, asked, saved, refused, or given up when the answer has been unknown since an earlier day; the payout has the same five |
| `ReadBack`, `Settle`, `Webhook`, `Outcome` | `settlement-read-back.ts`, the payout webhooks, what both do to the row |
| `Check`, `AdoptTransfer`, `AdoptPayout` | staff's "check again" at the provider |
| `ProposeRetry`, `LookAgain`, `ApproveRetry`, `RejectRetry` | the two-person retry |
| `DayPasses` | a day: an unknown answer becomes stale (23 hours), the provider forgets its keys (24 hours) |

Abstractions: a run ends within its day; `queueApproved` and `openRows` are one
step, staff's read of the row and look at the provider are one (what they write
is conditional on the row being where they saw it); `account.changed` says that
`updated_at` is later than `failed_at`; a payout the bank sends back after it
was paid is not modelled. A request whose answer the client gave up has reached
the provider by then or never does (`SendTransfer`, `SendPayout`): one carried out
later still, after keys are forgotten, is not modelled. `ReadBack` may read any
row that was sent and has no outcome; the code waits three hours, then reads at
most 50 rows an hour apart. `Banked` is money of other statements in the brand's
account, so that a second payout would find money to pay.

### Outbox

One merchant's rows of `voucher.capture_outbox`, read by the posters of several
instances, and the ledger that books them.

| `Outbox` | code |
|---|---|
| `outbox`, `posted` | the rows by `created_at`, those with a `posted_at` |
| `pass` | where a poster's pass is, the rows of its batch still to come (the first of them, `At`, is next) |
| `bookings`, `Book`, `Refuses` | `ledger.capture` with its posting, `capture.Engine.Post`, the refusal of a merchant that is paid in the other region |
| `Owe` | the row a capture's transaction writes |
| `ReadBatch`, `Post`, `Mark`, `Continue` | `DrainOnce`: the batch, the call, the mark, the next row or the end of the pass |
| `late`, `Carry` | a request whose poster had no answer and that the ledger still carries out |
| `Die` | an instance that stops |

A posting is one serializable transaction. Refusals for other reasons than the
region (malformed rows) would act the same way. The expiry outbox is drained by
the same code under the voucher's id.

### Statements

One merchant's payable in one region and its weekly statements.

| `Statements` | code |
|---|---|
| `captured`, `recovered` | the entries of captures and recoveries by their `created_at` |
| `statement` | `ledger.statement` by week; `paidAt` is the `created_at` of its payout's transfer |
| `open`, `Begin`, `Commit..`, `Abort` | a transaction takes its time when it begins and is seen when it commits; a retry begins again |
| `PostCapture`, `PostRecovery`, `ApprovePayout` | what the three operations check before their transaction |
| `BalanceBefore`, `Net`, `Carried`, `Compute` | the queries of `compute` |
| `StartRun`, `AskDue`, `Generate`, `Insert`, `Answered` | a run of the job: the closed weeks, the due query, `GenerateOrGet` up to its insert and from there, the answer |
| `GenerateFails`, `Dies`, `Abandoned` | a request without an answer, a run that stops; what the ledger does with the request (`Outlives`) |
| `Dispute`, `Resolve`, `Permitted` | the dispute and its resolution, with the table's CHECK |
| `Tick` | time: three instants a week, as the dispute window is 168 hours and a week of daylight saving 167 or 169 |

`compute` reads in four statements; they are one step because nothing that
commits between them bears a time inside or before a closed week and what is
carried does not depend on later payouts (the proof of `Recomputes` says so).
A capture is worth one unit. `PointPurchases` is information only and left out,
as is `refund_capture`, which nothing posts.

## The runs

| run | question | distinct states |
|---|---|---|
| `CheckoutOneRequest` | one request at a time, recovery and crashes: one voucher per burn, points back only after the void, and (under fairness) paid means delivered | 290 000 |
| `CheckoutRace` | two racing requests, refusable activation: the saga implements the promise and no voucher is free | 420 000 (symmetry) |
| `UserPoints` | points are conserved, a grant can always be released, nothing expires or is released behind an escrow or activity, held-back points arrive | 154 000 |
| `Redemption` | two holds in turn on a balance-carrying voucher and a device's on a consumed one, with refunds, disputes, kill switches and both sweeps: holds and vouchers agree, value is conserved, what ended stays ended and has booked S (more only by the shares of refunds), overdue vouchers leave the wallet | 280 000 |
| `Auction` | two bidders, three bids, the sweep, a staff cancel and one fault: a settled auction charged the bidder who has the voucher, the highest chargeable bid won, a closed one holds no card, an open one closes | 235 000 |
| `Idempotency` | three attempts, a repeated and a different request, one fault, one end of the retention: handlers exclude each other, work is done once, a replay answers the request that was made, claims are settled | 288 000 |
| `Watch` | a viewer's requests, two at once, over two sessions, beside another viewer's grant and one disturbance: points are conserved, admitted viewers fit the budget, a live hold is paid, a person is paid once, closed stays closed, holds come back | 647 000 |
| `Disbursement` | one statement, one run of the job at a time, two days, two faults, refusals, late, repeated and lost webhooks, account updates, staff's check and retry: the money moves once, the row tells the truth, paid stays paid, no payout ends unseen | 265 000 |
| `Outbox` | two posters, four captures of which two are refused, batches of two, two faults: booked once, marked only when booked, every row is posted that is not refused and has no full batch of refused rows before it | 72 500 |
| `Statements` | two captures and their recoveries over four weeks, one of 169 hours, with a dispute, a lost request or a run that dies: each cent is claimed by one statement, a recomputation answers what is stored, a dispute holds the payout | 3 200 000 (symmetry) |

Runs that must find a violation, each a finding in `PROJECT.json` with the line
it contradicts:

| run | what it shows |
|---|---|
| `CheckoutTwoVouchers` | two concurrent confirms claim two vouchers, one burn activates both |
| `JobLost` | a job row that meets the claim of a process that died is completed, and its work is lost |

What else contradicts the code's own comments is under "Further
counterexamples". Each module's `TypeOK` can be added to its run as an invariant;
where a proof needs it, it is proved.

Every property of a passing run has a mutant: the operators named `..Bug` in the
modules are plausible bugs of the definition they are named after, and TLC finds
the property violated when one takes its place.

### Why the bounds are enough

The checkout hazards need two actors of one saga (two requests, or a request
and recovery), a second voucher to claim by mistake and a crash on either side:
two vouchers, two requests or two sagas, two crashes. A second saga matters only
through the shared balance (funds 3, price 2: one can pay) and the shared stock.
`OneVoucherPerBurn` holds with one request at a time, not with two: the first
finding breaks it. `ReturnedOnlyAfterVoid` holds for any number, but not when an
activation may be refused. `CheckoutRace` therefore asks what
survives the race. The sweep hazards need a listing, one operation between and a
second listing: a clock of five instants with a window of one. Rounding needs a
face value that does not divide S (2 and 3) and as many captures as there are
units. An auction's close tries bids in order, so it needs a bid that wins, one
above it that cannot be charged and one below, and one fault, so that a close is
undone and repeated; what two faults add is left to the theorems, which hold for
any number of them. A key needs a holder, one that lost to it and
one that comes after the holder is gone: three attempts (`JobLost` has four, as
a second row must also be tried). `Watch` needs a second session of the viewer
under new terms and a stranger to use up what a hold protects: an allocation of
two holds, a daily cap that admits one and a half. A disbursement needs an
attempt that failed, its retry and one more (3 attempts, 4 payouts), a day after
which keys are forgotten and one after that, and two faults, so that a request
is lost and its repetition too. An outbox needs a row that is refused, one before
and one after it, as many refused rows as a batch holds (so that the exception of
`EveryRowIsPosted` happens, and also fewer, so that it does not), and a second poster
to read the same batch; two faults, so that a request is lost and a late one
overtakes its repetition. A statement
needs a week, one that follows it, one in which the first is paid, and one that
carries or nets that payout: four weeks; a capture that stays and one that is
recovered later, so that a closing can be negative; one transaction under way at
a time, because two meet only in the payable, which a commit reads whole. The
job looks back over two closed weeks (six in the code), so that a run may pass
over several and a week may still fall behind it.

Symmetry is used only in `CheckoutRace` and `Statements`, which have no liveness
property, over vouchers, requests and captures, which the specifications compare
only for equality.
`CHECK_DEADLOCK FALSE`: every checkout, grant, voucher, auction and session may
have ended and every bound may be used up, the calendar of `Statements` as well;
a disbursement stops for good when its approval is lost (below).

### Further counterexamples

These are not runs of the project; each can be repeated with the property
named, which the module defines.

| property | with | what TLC finds |
|---|---|---|
| `Checkout!NeverFreesAPaidVoucher` | `Spec`, constants of `CheckoutOneRequest` | recovery reads no burn (`recover-sagas.ts:51`), a slow request burns, recovery releases the paid voucher; `:49` means to let the voucher go only when there is no burn |
| `Checkout!ReservationSettles` | `LiveSpec` | a crash between the release and the row's advance (`run-saga.ts:121`) leaves a reserved row no retry can settle; `:8` says recovery settles a reservation |
| `UserPoints!SweepVisitsEveryCandidate` | `Spec`, two users, three grants without holdback, one saga, `Inactivity` 1, `NoticeLead` 1, `MaxClock` 7 | points that return after an expiry reuse its key (`expiry.go:203`); the conflict ends the region's sweep, every time |
| `Redemption!AbandonedCartLetsGo` | `FairSpec`, constants of `Redemption` with `MaxCrashes` 1 | a sweep that stops between expiring the holds and releasing the vouchers (`release.go:241`) leaves a voucher held by nobody, for good |
| `Redemption!BookedWithinS` | `Spec`, constants of `Redemption` | a refund raises what is left and books nothing (`settle.go:256`), so the part is booked again by the next capture (`EndsAtS` bounds by how much); `:393` says "telescoped over prior captures so the total never exceeds S" |
| `Auction!OneWinnerOneCapture` | `Spec`, constants of `Auction` | a capture that happened and was answered by an error counts as failed (`settle-auction.ts:61`), also when the failure says that it may have succeeded: the bidder is charged and the voucher goes to someone else; with `MaxFaults` 2 the capture may also not have happened, the next bid is charged, that close is undone and the repeated one charges the first bid as well; the migration `20260930090159_charity_auction.sql:140` says "exactly one winner, one capture" |
| `Outbox!NoRowIsHidden` | `FairOutboxSpec`, constants of `Outbox` | as many refused rows as a batch holds (100 in the code) hide every row behind them, for good (`poster.go:67`, `redeem.sql:112-114`); `:58-59` says that a refused row stays "without holding up the rows behind it" |
| `Statements!EachCentClaimedOnce` | `Spec`, `Outlives` TRUE, `MaxWeek` 2 | the ledger stores a statement whose request the worker gave up (`settlement.go:125`) after the next week's, and both claim the same captures; `settlement-statements.ts:28-29` says that "weekly statements never pay it twice" |
| `Statements!FiguresAddUp` | `Spec`, one capture, `MaxFaults` 0 | a payout inside a period moves the closing payable and is none of the lines (`settlement.go:219`); `20260929070700_ledger_settlement.sql:4-5` says "opening payable + captures - refunds - recoveries = closing payable" |
| `Statements!OpenIsDisputable` | `Spec`, constants of `Statements` | a statement whose dispute was resolved cannot be disputed again: `MarkStatementDisputed` leaves `resolved_at` (`settlement.sql:90`) and the table's CHECK (`20260929070700_ledger_settlement.sql:42`) refuses the row; `settlement.go:36` knows one reason to refuse, that the statement is not open |
| `Watch!PlaceholderIsNeverAnswered` | `Spec`, `MaxFaults` 0 | a second start answers the placeholder of a first that has not decided (`drizzle-watch-session.repository.ts:229`) |
| `Disbursement!MoneyMovesOnce` | `WrongKey` TRUE | a refusal is taken to mean that nothing moved (`settlement-disburse.ts:108`) also when an earlier request under the key went through unheard; a second transfer follows |
| `Disbursement!MoneyMovesOnce` | `Runners` of two | nothing in the code keeps two runs of the job apart; one is refused late and frees the key of the other |
| `Disbursement!ApprovedIsDisbursed` | `FairSpec` | the ledger has marked the statement paid and the answer is lost before the proposal is approved (`staff-settlement.controller.ts:219`); asked again it answers that the statement is not open, and no row is ever queued |

## Fairness

- `Checkout!Fairness`: the recovery job ticks every minute, its loop reaches
  every listed row and an awaited call ends (or is a `Crash`); `Recover` is
  strongly fair per saga because the list is read again on each tick, in an order
  that lets old rows come first; time passes. Requests are not fair: a client may
  never come back. `LiveSpec` adds that live requests go on.
- `UserPoints!FairSpec`: the releaser lists every due grant again (strong) and
  reaches the listed ones (weak). `HeldbackPointsArrive` is about grants with a
  holdback.
- `Redemption!FairSpec`: both sweeps run on their timers and reach their items;
  a hold's time to live passes. No till is fair.
- `Auction!Fairness`: the sweep comes every 30 seconds and waits for the row
  lock, which bids take and leave, so it is strongly fair; a transaction under
  way goes on; time passes. Nothing obliges a bidder to bid or staff to cancel.
- `Idempotency!Fairness`: an attempt under way goes on, pg-boss delivers what is
  queued and looks for ended leases.
- `Watch!FairSpec`: holds run out and the checker ticks. No request is fair.
- `Disbursement!FairSpec`: the job runs at every tick and each run goes on (or
  dies), and staff's approval is asked for until it is answered. Webhooks are not
  fair, which is what `NeverUnseen` is about, nor is staff's recovery.

- `Outbox!FairOutboxSpec`: each poster drains every few seconds and a pass goes on. A
  late request need never be carried out.
- `Statements!FairSpec`, for `PostedIsClaimed`, which holds with `MaxWeek` 2 and no
  symmetry (550 000 states; not a run of the project): time passes, the hourly job is run and goes on, its
  requests are answered, and a transaction ends within its instant. No till, no
  business and no staff is fair.

## What is proved

All theorems hold for every value of the constants, from the named assumptions
of the modules alone and from the hypotheses a theorem states itself. Each
module of proofs has an inductive invariant `IInv`, a lemma per action or group
of actions, and derives the properties from it; some have a second invariant on
top of the first, for the books.

Sums (points, units, cents) are defined by counting: the sum of `f` over `S` is
the number of pairs of a member of `S` and a unit below its `f`. A sum then
changes as a set does, by the theorems about cardinality, and no induction over
the terms is needed. These sets must be finite in every state, so each invariant
about sums says which members a sum can have.

`CheckoutProofs`, for any checkouts, buyers, vouchers, requests, prices, funds
and crashes: `TypeCorrect` (`Spec => []TypeOK`, so no balance below zero),
`NoVoucherIsFree`, `RowNeverAhead` and `Refinement` (`Spec => KeepsPromise`). None
of the last three is inductive. A voucher may be activated only because its
process is past the burn, so `PlaceFollowsLedger` says what each place implies
about the ledger; the refinement needs that points return only after delivery
(or after a permitted refusal), so `DeliveredFirst` says which places and rows
imply that a voucher was issued. `Refinement` then shows that a burn is `Pay`, an
activation is `Deliver` or a stutter, a reinstatement is `Return` or a stutter,
and that every other action leaves `Phase` and the balances as they are.

Two more theorems have a hypothesis each, and both need it. `ReturnsFollowVoids`
(`ReturnedOnlyAfterVoid`, with `~MayRefuseActivation`, for any number of requests): a
process about to reinstate a burn works on a checkout whose voucher was voided
for good (`Returned`), since the other way to a reinstatement is the refusal.
`OneRequestOneVoucher` (`OneVoucherPerBurn`, with `OneRequest`: at most one request
confirms, beside the recovery job): a checkout has at most one voucher out of
stock, and none while a process is between the two statements of `Reserve`
(`Single`). Recovery cannot come between them, as only a request runs the places
before the reservation is stored and the row is quoted there (`NotQuoted`).

`UserPointsProofs`: `ActivityProtects` (`NothingExpiresWhileActive`) and
`EscrowProtects` (`NoReleaseUnderEscrow`). The sweep lists accounts by a cutoff and
acts while the clock runs on; that its second look under the lock is enough needs
`Window`: the cutoff of a running pass is at least a full window ago. `TypeCorrect`,
`PendingIsOwed` (`PendingMatchesGrants`) and `NoPointIsLost` (`PointsConserved`) rest on
`Books`: per user the pending, the escrow and the overall balance at once. The
escrow account, which no run property mentions, must cover every hold, or a release would
overdraw it and the other two balances could not be kept.

`RedemptionProofs`: `TypeCorrect`, `HoldsExclude` (`HoldsAgree`) and `EndedIsFinal`
(`EndedStaysEnded`). A capture makes its voucher active while a hold that was
swept before may still wait to release it, so a swept hold claims its voucher as
a live one does, and a voucher has one claim (`OneClaim`). `EndedIsFinal` shows that
the edge the property excepts is not taken either. `BooksCloseAtS`
(`EndsAtS`) and `ValueIsConserved` (`ValueConserved`) rest on `Books`: what is booked
on a voucher is the rounded share of all that is drawn, and more by at most the
shares of what was refunded (`Telescoped`), so that the parts, each rounded, end at
S whatever their number, and one that is redeemed has nothing left (`UsedUp`). A
refund lowers what is drawn and not what is booked; that the share falls by at
most the refund's own share is `ShareSplits`: rounding up twice gives no less than
rounding up once. Draws, refunds and the rest balance (`Balances`).

The same module EXTENDS `Outbox` and proves its safety:
`CapturesAreBookedOnce` (`BookedOnce`) and `MarkedRowsAreBooked` (`MarkedIsBooked`), for any
posters, batches and faults. Between the ledger's answer and the mark other
posters and late requests go on; `Confirmed` says that the row a poster is about
to mark is booked, and a booking is never taken back.

`IdempotencyProofs`: `TypeCorrect`, `HandlersExclude` (`OneAtATime`) and
`ReplaysAreTrue` (`ReplayAnswersTheRequest`). The store settles a record by its key
and never asks who claimed it. That is safe because of `HolderRuns`: an attempt
that runs the handler is the holder of a live record in progress. `WorksOnlyOnce`
(`WorksOnce`) counts: while the work may still be done, one is left of the number
allowed so far (`Account`), which an expiry raises and, for a job, a fault.

`WatchProofs`: `PaysOnce` (`PaidOnce`) and `ClosedIsFinal` (`ClosedStaysClosed`). A
request writes to a session it read steps ago by its id alone; `Sited` says that
the id is that of an existing row, and every statement that changes a state asks
for the open one. `AllocationConserved` (`PointsConserved`), `AdmittedFit`
(`AdmittedViewersFit`), `LiveHoldPays` (`LiveHoldIsPaid`) and `TypeCorrect` rest on `FInv`:
the sums of the funding (`Funds`); one request alone opens a session, so its hold
is placed once and the ledger never meets its id again (`Openers`);
and a session that was told it earns has a hold (`Told`).

`AuctionProofs`, for any bidders, bids, amounts, clock and faults: `SettlesFairly`
(`SettledFairly`), `HighestBidWins` (`HighestWins`) and `NoCardHeld`
(`ClosedHoldsNothing`). A close calls the provider and the voucher service inside a
transaction that may still be undone, so the invariant relates what the
transaction has written (`tx`) to what the outside has done: who is inside the
lock is alone (`Serial`); recorded bids rise and have holds (`Rising`); and while the
auction is open, a bid that was charged and whose charge was answered is still
there to be tried again, and those that outbid it could not be charged or had no
answer (`Charged`). So a repeated close comes to the same bid. The third
has an invariant of its own for runs without faults (`NoStrayHold`).

`DisbursementProofs`, for any number of runs at once and with `WrongKey` as well:
`RowIsTrue` (`RowTellsTheTruth`) and `PaidIsFinal` (`PaidStaysPaid`). A row becomes
paid or failed by what a run, a webhook or a member of staff holds in hand; `IInv`
says that what they hold was true when it was read, and that the provider's
outcomes are final.

The second part of the module proves `MovesOnce`, that is
`Spec => []MoneyMovesOnce` when one run works at a time (`OneRun`) and the provider
looks at a key before it refuses (`~WrongKey`). Both are needed, as the counterexamples above show. `Money` says
why the row decides rightly what is sent again: where money may have moved the
row knows that it asked (`RowKnows`), and while it would still ask under that key
the provider remembers it (`Listed`, `Sends`, `Pays`); a refusal means that
nothing moved (`Refused`); and where the second person saw nothing at the
provider, the row does not leave that state before the retry (`RetrySafe`).

`StatementsProofs`: `Recomputes` (`RecomputationMatches`) and `PayoutHeld`
(`DisputeHoldsPayout`), when no request outlives its caller (`~Outlives`, which
matters for the order of statements, as a counterexample above shows). A stored
statement is compared with sums that change with every entry, so `IInv` says why
these do not: a transaction is never older than one instant (`Recent`), only
weeks that ended an hour ago are looked at (`OnlyClosed`), and statements are
stored in the order of their weeks (`InOrder`). Then a step keeps every set that
`Compute` sums over for a week that is over (`SameFigures`), so the sums need no
induction. `ClaimedOnce` (`EachCentClaimedOnce`), under the same assumption, adds the
claims of all statements so far: each is what its week earned less what was
paid in it, and what earlier statements claim was paid before the week, is paid
in it or is carried (`ClaimsSplit`); `CInv` adds that a payout is of something owed
and comes after its week (`PaidLate`).

Every invariant and action property of the passing runs is thus proved, the
types of `Auction`, `Disbursement`, `Outbox` and `Statements` only as far as the invariants
need them. Only model-checked are the liveness properties: `PaidIsDelivered`,
`HeldbackPointsArrive`, `OverdueExpires`, `EventuallyCloses`, `ClaimsAreSettled`,
`HoldsComeBack`, `NeverUnseen` and `EveryRowIsPosted`; liveness under fairness is out
of the prover's reach. `OneVoucherPerBurn` and `ReturnedOnlyAfterVoid` without their
hypotheses, `MoneyMovesOnce` without its, and `EachCentClaimedOnce` with `Outlives` are
false; so are `EndsAtS` without the shares of refunds and `EveryRowIsPosted` without
its exception.

Some hazards in `PROJECT.json` have no property, because the code does not
withstand them: what a property would say is false, and the counterexamples above
show how. They are the lost capture answer (`OneWinnerOneCapture`), the lost answer
to an approval (`ApprovedIsDisbursed`) and the statement stored after its request was
given up (`EachCentClaimedOnce` with `Outlives` TRUE; the run and the theorem have it
FALSE). `SettledFairly` excuses a capture that was answered by an error (`unheard`),
and so says nothing about the first.

## Not modelled

The modules cover the state machines in which several actors, loops or outside
calls share state; that is a small part of the repository's lines. The larger
part is not of that kind: the web front end, route and contract declarations,
seeds, check scripts and tests, and API modules (business, campaign, studio,
store, feed, staff, identity) that read and write single rows behind an
authorization. Of the parts with state of their own these are left out:

- marketing reserve, solvency and pricing: sums and formulas inside single
  serializable transactions, which appear only as refusals;
- the outbox of expired vouchers, which `Outbox`'s code drains the same way, and
  the webhook outbox;
- purchases, receipt packages, marketing grants and per-viewer earn caps in the
  funding of rewards, and the reversal of a grant, which nothing calls;
- checkpoints and questions inside a watch session, attestation signatures,
  delivery coverage and streaks, none of which gates the grant's bookkeeping;
- gifts, batches and minting: single transactions each;
- undoing an expiry inside the grace window, which the lifecycle table permits
  and nothing calls (under `Redemption`);
- the event chain, anchors and the ledger's proof, whose properties are
  cryptographic;
- the voucher service's own claim table for HTTP calls (Go), a second
  implementation of what `Idempotency` models.

## Plan

Done: `CheckoutPromise`, `Checkout`, `UserPoints`, `Redemption`, `Funding`, `Watch`,
`Idempotency`, `Auction`, `Disbursement`, `Outbox`, `Statements` and the proofs above.

1. A composition of `Redemption`, `Outbox` and `Statements`: a promise that each
   share a merchant earned is paid once, over one abstract account.
2. `Gift`: the gift's row, the remint and the source voucher (`Handover`: one live
   voucher per value), composed with `Auction`'s escrow.
3. `Posting`: the double-entry core with keys and reversals, and `UserPoints`
   shown to implement an abstract account of a user's points.
4. Proofs: that `Outbox`, and with it the three modules of item 1, implements an
   abstract account in which each capture is owed and then paid; the types of
   `Auction` and `Statements`.

Runs are to stay small (about two minutes each at most); the violations are kept
until the code changes.
