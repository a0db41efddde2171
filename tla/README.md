# zudue-api: a TLA+ model of its lifecycles, its money and its live events

zudue-api is the backend of a marketplace where fans pay creators ("partners")
for video calls, direct messages and shout-outs. A NestJS service
(`src/src/**/*.ts`) runs each request in one transaction, most of them through
one Postgres function; the functions are in `src/migrations/*.sql`, where the
last definition of a function is the one in force. Scheduled jobs (pg_cron, or
a BullMQ worker in its place) finish what users leave open. A socket server
tells both sides of a call what became of it.

This directory holds TLA+ modules of the parts that are hard to test, their TLC
configurations, and proofs checked by TLAPS.

## The system

| Part | State it keeps | Operations | Talks to | Hard parts | What makes it correct |
|---|---|---|---|---|---|
| Bookings | `bookings.status`, `settle_at`, `availability.booked_minutes` | book, refund, expire, settle, admin expire / recover / split / force settle | ledger, calls, reports, jobs | unlocked expiry cursor, overlapping schedulers, overrides in any order | escrow spent once, minutes counted once, refunds final |
| Call attempts | `calls.attempt_status`, start, deadline, end, `partner_media_confirmed` | ring, join, heartbeat, complete, mark missed, sweep | bookings (trigger) | late ring timeouts, several attempts, carry-over of time | attempts end; only delivered time completes a booking |
| Calls desk | queue, `fan_ready_at`, notifications, pushes | ready, cancel, ring, join, complete, mark missed | call attempts, push | handlers that read, notify and only then write | both sides told the outcome; rings stop; the next fan told once |
| Ledger | `transactions`, `ledger_entries`, `wallets` | `post_transaction` | everything with money | retries, overdraft | a key applies once, legs sum to zero, no wallet below zero |
| Reports | `reports.status` | file, resolve, refund | bookings, shout-outs, DMs | resolution racing settlement | an open report holds settlement |
| Earnings and payouts | `partner_earnings`, `partner_payouts` | settle inserts; withdraw, approve, reject | bookings, DMs, shout-outs | sum-then-mark, check-then-write | one reference closes one payout; an earning is as far as its payout |
| Shout-outs | `shout_out_requests`, corrections | request, upload, confirm, report, correct, cancel, expire, settle | ledger, jobs | every handler decides where the escrow goes | credited or refunded, never both |
| Direct messages | `conversation_windows` | ask, answer, follow up, report, expire, settle | ledger, jobs | expiry against answer; a failing expiry | refunded at most once; nothing stays in escrow |
| Top-ups, disputes | `topup_orders`, `webhook_events`, `disputes` | create, webhook, abandon, dispute | ledger, payment provider | late, repeated, reordered webhooks; lost answers | credited once iff captured |
| Realtime | listener, probes; sockets, registry | listen, probe, rebuild, resync; upgrade, authenticate, route, tick, close, drain | Postgres NOTIFY, clients | links that look open and deliver nothing; awaits | a socket is open only while delivery is proven; a gap ends in a resync |
| Accounts | `profiles`, `deletion_requests`, the identity provider's user | sign up, edit, request / cancel deletion, purge | jobs, identity provider | two systems, a purge that dies half way | a completed deletion left nothing; none is early |
| Storefront | `partner_applications`, `partner_profiles`, KYC, `waitlist` | apply, review, promote, demote, suspend, vacation, join | discovery | four writers of one page; a fan-out in three statements | discovery lists creators only; a fan is told once |
| Jobs | none of their own | expire, settle, sweep, clean up, purge | all of the above | overlap, partial failure of one item | every due row is reached |

## Modules

| Module | Models |
|---|---|
| `EscrowPromise` | What the platform promises about a booking's money: taken into escrow once, released once, in full. |
| `BookingEscrow` | Bookings: one action per SQL function, with ledger legs, the date's minutes, reports and the outcome of calls. Implements `EscrowPromise`. |
| `BookingSweepRace` | `BookingEscrow` with the expiry sweep split into the cursor it opens and the rows it writes later, by one or two schedulers. |
| `CallAttempts` | The attempts of one booking and their times, with the unlocked read and the write of `rpc_mark_call_missed` as two steps. |
| `CallDesk` | What `CallsService` does around attempts: queue, ready flag, rings, notifications, pushes. |
| `Payouts` | One creator's earnings and withdrawals. Settled services add to it through `Credits`. |
| `Shoutouts`, `Questions` | Shout-outs, and the windows of one conversation. Each extends `Payouts` and settles into it. |
| `Creators` | `Payouts`, `Shoutouts` and `Questions` composed: each step is one of a part, the other parts unchanged. |
| `TopupPromise` | What a top-up promises: a captured payment is credited, once and in full, in the end. |
| `Topups` | Orders of one wallet, the provider's events, the webhook, the clean-up, disputes. Implements `TopupPromise`. |
| `RealtimeGateway` | The socket server, one action per handler up to its next await. |
| `Realtime` | The gateway composed with its event source: the listener, its probes and the link they go over. |
| `Accounts` | One account from sign-up to its purge in two systems. |
| `Storefront` | One user's way to a creator's page, what discovery shows of it, and its waiting list. |
| `BookingEscrowProofs`, `CallAttemptsProofs`, `CallDeskProofs`, `RealtimeProofs`, `AccountsProofs`, `StorefrontProofs` | Theorems about the module they are named after, for every value of its constants; the first also about `BookingSweepRace`. |
| `MoneyProofs` | The same about `Creators` and about `Topups`. |
| `SetSums` | Lemmas about the sum of a function over a finite set, which the proofs about wallets, minutes, calls and ceilings cite. |
| `MCBookingEscrow`, `MCBookingSweepRace`, `MCCallDesk`, `MCTopups` | Values for the constants TLC needs as functions. |

PROJECT.json maps every definition to the lines it models. What is common to
all modules: a function that takes its row `FOR UPDATE`, or writes it under a
condition, before it decides is one action; one that reads without a lock is
split where another transaction may commit. A failing statement aborts its
transaction even when the code catches the exception, so such a request is no
step at all unless something outside the database remembers it. Wording, audit
rows and fields nothing later reads are left out. Amounts are small numbers of
paise, times are relative.

### BookingEscrow and BookingSweepRace

State. `status` is `bookings.status` ("NONE" before the row). `remaining` is
`settle_at - now()` in ticks. `wallet`, `escrow`, `payable` and `promo` are, per
booking, the net of the ledger legs of that booking's transactions on the fan's
wallet, `booking_escrow`, `partner_payable` and `promo_incentive`. `posted` is
the set of idempotency keys in `transactions`, `earning` the `partner_earnings`
row, `bookedMinutes` and `threshold` the `availability` row of one date.
`live`, `ends` and `longest` are what the expiry sweep reads of `calls`.

Steps. The functions that move a booking's money lock its row and are one action
each. The expiry sweep's cursor has no lock, and its loop writes by id:
`BookingEscrow` takes cursor and write of one booking in one step,
`BookingSweepRace` separates them.

Bounds. `Window` = 1 day, `MaxLive` attempts alive at once, two bookings of one
fan in booking_lifecycle (the second makes an overdraft, and minutes sold twice,
possible), `Thresholds` {0, 3} for bookings of 2 and 1 minutes: both fit, and
the creator may close the date under them.

### CallAttempts

State. `attempt` is `calls.attempt_status` in the order of
`partner_initiated_at`; `rung`, `since` and `left` are the ages and the time to
go the code computes from its timestamps; `ran` is `ended_at - started_at`;
`seen` is `partner_media_confirmed`; `marking` is a mark-missed request between
its read and its write. Everything else that closes a booking is `BookingCloses`.

Bounds. A tick is a minute; `RingWindow` = 1, the five seconds in front of a
deadline are `Slack` = 0, the booked time is 3, so an attempt can be left with
all, some or none of it. Two attempts (one connected beside one ringing is the
interesting case) and one mark-missed request.

### CallDesk

State. `calls` are the attempts of all bookings in the order they were made,
`notice` the notifications in the database (recipient, event, entity is their
unique key), `pushed` the pushes of handlers that committed, `marking` the
requests to mark a call missed between read and write, `fresh` the rings less
than a minute old, `swept` what a job ended without telling anyone.

Steps. How a call ends is chosen (`CallAttempts` computes it). `Initiate` takes
the whole of the creator's ring: attempt, note, push, and the alert to the next
fan in the queue. Delivery of a push is not modelled.

Bounds. Two bookings of two fans, two attempts, one mark-missed request.

### Payouts, Shoutouts, Questions, Creators

State. `earning` is `partner_earnings` by service, `payout` `partner_payouts` in
order, `withdrawing` what a request has summed and not marked yet, `approving`
the approvals between their check of a bank reference and its write. `shoutout`
is one row per order with what its fan was debited and refunded; `due` and
`reviewed` say that `settle_at` and `review_deadline_at` have passed. `window`
is `conversation_windows` in order; `asking` counts questions that found no open
window and go on without a lock; `listed` is what each run of the expiry has
read and still handles, one transaction each.

Steps. `SumsEarnings` and `MarksEarnings` are the two statements of
`rpc_create_payout_batch`, which takes no lock. `ApprovalChecks` and
`ApprovalWrites` are the two of `rpc_process_payout`, which holds its own payout
only; the unique index on references decides (`UniqueIndex`). `ExpiryFails` is
a run whose transaction aborts on one window.

Bounds. One shout-out with two rounds of correction, two windows, two runs of
the expiry and one pair of racing questions, two withdrawals that share one
bank reference; the smallest withdrawal of 3 keeps single questions (2) out of
a payout and lets a shout-out (3 and more) in.

### Topups

State. `request` is each `createTopup` by phase; `deciding` holds the fan's
advisory lock; `status` and `age` are the `topup_orders` row; `posted` and
`balance` the wallet; `paid`, `sent` and `unanswered` the provider; `logged` is
`webhook_events`.

Steps. The lock orders the decisions, but not the credits that land between the
two reads of one, so those are two steps. The provider sends both events of a
capture, delivers in any order, and again while it has no answer. An answer may
be lost after the commit (`Logs`).

Bounds. Three orders of 2, 1 and 1 under a ceiling of 3: two fit, three do not,
so a lapsed reservation matters. One order may be disputed (`Disputed`), answers
may be lost for another (`Resent`); each is a separate hazard, and any order may
still be both abandoned and paid.

### RealtimeGateway and Realtime

State. `ws`, `user`, `verifying`, `byUser` and `older` are the fields of a
connection and the registry; a socket is "closing" from `close()` or
`terminate()` to its close event, which alone tells the gateway. `client` is
the listening connection by stage, `link` what the network makes of it ("deaf"
is open and delivers nothing, as behind a transaction-mode pooler), `timer`,
`misses` and `probe` the probe loop, `wire` what is under way. `proven` and
`behind` are history: the last probe was heard over this client; the socket's
user has a change it was not told of.

Steps. A handler up to its next await is one action, so `OnAuthFrame` and
`Verified` are two, with closings, failures and evictions in between. The
source reports its health synchronously (`OnHealth`). A probe of a discarded
client is "orphan" and must not count.

Bounds. Two sockets, two users with one socket each (`MaxPerUser` = 1 makes
every reconnect an eviction), two probes at once (one of a discarded client
beside one of the new), one notice on the wire besides probes.

### Accounts

State. One account in two systems (`credential` is the identity provider's),
deletion requests, and the job's list. `driver` and `keyed` are the deployment:
which scheduler runs and whether the service key is set. `barred` is the request
whose user the provider has deleted and the database has not.

Bounds. Two requests: both may be open, because the check and the insert are
two steps.

### Storefront

State. `role`, `standing`, `kyc`, `application` and the `page` with the flags
discovery reads; `entry` and `told` for the waiting list; `return` the three
statements of a creator's return, which are committed together but read the
list twice.

Bounds. Two fans, one of whom joins during a return.

## What is checked

| Run | Shows |
|---|---|
| `booking_lifecycle` | Two bookings, with forced settlement, splits and report decisions. No wallet overdraft (`WalletNeverNegative`); escrow and minutes exact; creators paid only for delivered calls; refunds final; an open report holds payment; nothing stays in escrow unless an admin has to decide (`EscrowReleased`); implements `EscrowPromise`. |
| `booking_overrides` | One booking, every override in any order, two sweeps at once. Exact escrow is not claimed here (see below), but earnings stay backed by the ledger, the creator is not paid above the price, and a sweep that comes second to a booking another sweep expired refunds nothing more. |
| `call_attempts` | Attempts end; a booking completes only when its attempts ran for the booked time together; an attempt whose creator was never seen does not complete. |
| `call_desk` | Both sides are pushed the status a finished call has, whichever of two racing ends is written last; every ring and miss has its note; rings are stopped; the next fan is alerted once. |
| `creators` | A shout-out is credited or refunded, never both, in part or twice; one bank reference closes one payout, an earning is as far as its payout. |
| `orders` | Every shout-out and paid question is in the end credited, refunded, expired or in the hands of an operator, although runs of the expiry fail. |
| `topups` | A captured payment is credited once and in full, in the end (`KeepsPromise`); the order's status and the ledger agree; an event taken as answered was applied; reservations stay within the ceiling. |
| `realtime` | The source is healthy only when proven; no open socket while it is not; registry exact; sockets per user bounded; a socket that missed a change is told to resync or closed (`NoSilentGap`); lapsed tokens are closed; the listener recovers. |
| `accounts` | A completed deletion left nothing in either system; nothing before the grace period; a due request is finished although runs are refused, fail or die. |
| `storefront` | Discovery lists creators only; a creator's client never lands on an onboarding screen; an entry of the waiting list brings at most one notification. |
| `expire_overspend`, `payout_amount` | Refutations, see below. |

Deadlock is checked in the booking runs and in call_attempts; in the others a state without
steps is a legitimate end (every order resolved, the account gone, a bound
reached), and `CHECK_DEADLOCK FALSE` says so. Every property of a passing run
has a mutant of a modelled definition that breaks it, listed in PROJECT.json;
the mutated forms stand right before the definition they replace.

### Fairness

Users, operators, peers and the network are never assumed to act, nor to stop
failing, except as follows.

- `booking_lifecycle`: time passes, and expiry and settlement reach each due
  booking: pg_cron runs them on a fixed schedule (0090), each item fails on its
  own, and a due row is taken again by the next run.
- `call_attempts`: time passes, and the call sweep, scheduled every minute, ends
  calls past their deadline and rings nobody answered.
- `orders`: weak fairness of the sweeps and of time; strong fairness of the
  refund of a listed window, that is, a window listed again and again is not
  failed every time. `ExpiryFails` has no fairness.
- `topups`: the provider delivers an event until it is answered.
- `accounts`: the job runs every day (weak), and does not fail on one request
  every time (strong, on the provider's answer and on the purge).
- `realtime`: armed timers fire, awaited queries answer or fail, what is on a
  live wire arrives, a closing socket's close event comes (the server destroys
  the socket after a while), the heartbeat ticks. `Recovers` says what it needs
  of the outside: that it fails only finitely often. A probe that misses although
  its echo is on the wire counts as such a failure.

### Disagreements between the code and what is said of it

Runs whose counterexample TLC must find:

| Run | Property | Disagreement |
|---|---|---|
| `expire_overspend` | `EscrowNeverOverspent` | 0086:514 "This mirrors the automated expiry logic exactly." The automated logic takes only BOOKED rows; the override never asks, and refunds under a key of its own: book, cancel, admin expire pays the fan twice. |
| `payout_amount` | `AmountIsWhatItMarks` | The batch is to be exactly what it marks (0017). A settlement between its two statements is marked and not paid, and two withdrawals at once both pay the same earnings. |

Properties stated in the modules and refuted by TLC, which no run repeats (put
the name as INVARIANT or PROPERTY into a copy of the cfg):

| Property | cfg | What is said, and what happens |
|---|---|---|
| `BookingEscrow!SplitIsFinal` | expire_overspend, with `AdminOps = {"partial"}`, `CreatorShare = {0}` | admin-moderation.module.ts:120 "escrow always lands at zero for that booking". With nothing for the creator there is no earnings row, and settlement pays the creator in full afterwards. With a part above nothing it holds (`SplitAlwaysFinal`). |
| `BookingEscrow!EscrowNeverOverspent` | booking_overrides, with `AdminOps = {}` | 0066:109 "or the same escrow paisa gets spent twice". A fan's refund that commits between a sweep's cursor and its write is refunded again: the two keys differ, and the sweep does not ask for the status again. |
| `BookingSweepRace!SweepIdempotent` | booking_overrides | 0090:25 "Both are idempotent ... so a brief overlap during rollout is safe". The money is (`SweepRefundsOnce`); the minutes are given back twice. |
| `CallAttempts!StaleRingIgnored` | call_attempts | 0099:1 "A ring outcome must never terminate a call that is already live." The check reads the call without a lock, and the update does not look again. |
| `CallAttempts!ResumedGetsTheRest` | call_attempts | 0096:1 "A resumed call gets the time that's LEFT, not a fresh full duration." An attempt still connected counts for nothing, and another may start beside it. |
| `Topups!CeilingHolds` | topups | wallet.service.ts:91-110: the ceiling is decided under a lock; a credit that lands between its two reads is in neither, so the balance ends above it. |
| `Topups!AnsweredMeansApplied` | topups, with `OwnIds = FALSE` | An event without an id of its own is logged under its payment's id, so a later event of that payment is answered as a replay. |
| `Storefront!ExactlyOnePerEntry` | storefront | 0007:41 "Exactly one auto-notification per entry". A fan who joins between the two reads of the list is marked and never told. |

Met while modelling, and modelled as the code has it:

- `rpc_admin_resolve_partial_call` checks that the two parts sum to the price
  (0086:693), not that neither is negative; a share above the price with a
  negative refund is accepted. `AlwaysPaidAtMostOnce` and `RacePaidAtMostOnce`
  therefore assume the split.
- A promotion sets `is_active` whatever the account's status (0053:59), although
  0029:30 means bans and `is_active` to stay in sync.
- A refund of a report on a question writes `updated_at` (0086:438), a column
  `conversation_windows` has not: it always fails.
- `rpc_expire_shoutout` refunds the price only (0097:214), where
  jobs.module.ts:252 says the fan gets a full refund; fees of paid corrections stay.
- A dispute's late event overwrites the status whatever it was (0097:75).
- jobs.module.ts:375 says the credential is deleted after the purge commits; the
  code deletes it first (395). `Accounts` has the code's order.
- A late mark clears a ready flag the fan has set anew (0013:57).
- The next fan in line may have an EXPIRED booking (0060:31) and is alerted.
- A suspended or demoted creator's return still tells the fans (0094:53), and a
  fan told once can never ask again.
- Final approval marks the identity check VERIFIED even if it was refused (0095:270).
- Two questions at once may open two paid windows (0086:130-146).
- The webhook holds its transaction open during a call to the provider
  (wallet.service.ts:171).

## What is proved

The theorems hold for every value of the constants that satisfies the `ASSUME`s
of the module and, where one is named below, its own assumption. TLC evaluates
the `ASSUME`s in every run.

| Theorem | Property | Assumes |
|---|---|---|
| `BookingEscrowProofs!TypeCorrect` | `TypeOK` | |
| `EscrowAlwaysExact`, `SplitAlwaysFinal` | `EscrowExact`, `SplitIsFinal` | `GatedOverrides` |
| `WalletAlwaysCovered`, under overlapping sweeps `RaceWalletCovered` | `WalletNeverNegative` | |
| `CapacityAlwaysExact` | `CapacityExact` | `NoStatusOverride` |
| `BookingKeepsPromise` | `KeepsPromise`, refinement of `EscrowPromise` | `GatedOverrides` |
| `ReportAlwaysHolds`, under overlapping sweeps `RaceReportHolds` | `ReportHold` | |
| `RefundAlwaysFinal` | `RefundIsFinal` | `NoStatusOverride` |
| `AlwaysPaidForDelivery`, under overlapping sweeps `RacePaidForDelivery` | `PaidForDelivery` | `NoStatusByHand` |
| `RaceTypeCorrect` | `RaceTypeOK` | |
| `RaceRefundsOnce` | `SweepRefundsOnce` | |
| `AlwaysBacked`, under overlapping sweeps `RaceAlwaysBacked` | `EarningsBacked` | |
| `AlwaysPaidAtMostOnce`, under overlapping sweeps `RacePaidAtMostOnce` | `CreatorPaidAtMostOnce` | `SharesWithinPrice` |
| `CallAttemptsProofs!NeverDeliveredUnseen`, `AlwaysDeliveredInFull`, `CallsAlwaysTyped` | `UnseenNotDelivered`, `DeliveredInFull`, `CallTypeOK` | |
| `MoneyProofs!PayoutsAlwaysReconcile` | `PayoutsReconcile` | |
| `OrdersAlwaysPaidOnce` | `OrdersPaidOnce` | |
| `CallDeskProofs!OutcomeAlwaysTold`, `RingsAlwaysRecorded`, `RingsAlwaysStopped`, `AlwaysAlertedOnce` | `OutcomeTold`, `RingsRecorded`, `RingsStopped`, `AlertedOnce` | |
| `SuccessAlwaysCredited` | `SuccessIsCredited` | |
| `ReservedAlwaysWithinCeiling` | `ReservedWithinCeiling` | |
| `TopupsAlwaysTyped`, `WalletAlwaysAddsUp` | `TopupTypeOK`; what a fan has and has spent is the sum of what the successful orders credit | |
| `TopupsOnlyPromised` | the safety of `TopupPromise` | |
| `AnsweredAlwaysApplied` | `AnsweredMeansApplied` | `OwnIds` |
| `RealtimeProofs!RealtimeTypeCorrect`, `AlwaysHealthyIsProven`, `NeverOpenUnproven`, `RegistryAlwaysExact`, `AlwaysPerUserBound` | `RealtimeTypeOK`, `HealthyIsProven`, `NoOpenSocketUnproven`, `RegistryExact`, `PerUserBound` | |
| `AccountsProofs!AccountTypeCorrect`, `CompletedAlwaysGone`, `AlwaysAfterGrace` | `AccountTypeOK`, `CompletedMeansGone`, `OnlyAfterGrace` | |
| `StorefrontProofs!StorefrontTypeCorrect`, `AlwaysListedIsCreator`, `CreatorAlwaysSettled`, `AlwaysOncePerEntry` | `StorefrontTypeOK`, `ListedIsCreator`, `CreatorIsSettled`, `OncePerEntry` | |

`GatedOverrides`: the instance leaves out the admin expiry, the call recovery
and the report refund, which do not look at a booking's status or at what was
paid, and every split gives the creator more than nothing and at most the price.
`NoStatusOverride` and `NoStatusByHand` leave out the overrides that write a
status whatever it was. `SharesWithinPrice`: no split gives the creator more
than the price. The disagreements above show that each is needed.

The arguments, each an inductive invariant:

- Booking escrow. `EscrowExact` is not inductive: that a refund empties the
  escrow depends on its key not having been posted, and on nothing but the
  booking's own transactions having touched the account. `AllAccounted` says for
  each booking that its whole ledger is what its status says (`Held`,
  `Disbursed`); `StepAccounted` that each step leaves the ledger alone or moves
  one booking's money in one of two ways, which are the steps of
  `EscrowPromise`. `AllEarned` adds that the statuses from which a booking can be
  paid rest on a call as much as the payment itself. `AllBacked` ties an earnings
  row to the ledger's payable under every override, because each writes both.
- Sums. `SumFunctionOnSet` folds the values in an order the definition leaves
  open. `SetSums` shows that some function is additive on the parts of a finite
  set (`AdditiveExists`) and that the sum agrees with it (`SumIsAdditive`), so the
  order does not matter and a sum can be taken apart at any element (`SumTake`).
  Each induction is first-order: a set of parts that fail has a smallest member
  (`SmallestPart`, from the well-foundedness of strict inclusion), which cannot be
  empty and cannot be one element larger than a part that does not fail.
- Wallets and minutes. Each step posts to at most one booking and each posting
  asks whether the wallet affords it (`StepPays`), or takes or gives back the
  minutes of at most one booking as its status starts or stops occupying the
  date; `SumChange` turns that into a change of the fan's or the date's sum. The
  minutes given back are among the sum, so clamping them at zero changes nothing.
- Overlapping sweeps. `RaceStep` shows that a booking sees of a sweep either a
  step of `BookingEscrow` or `ExpireAs` with some class read earlier; the lemmas
  about `ExpireAs` hold for every class, so a stale one changes nothing in them.
  `RacePaidForDelivery` needs more: a class that lets a creator be paid rested on a
  call when it was read (`SnapshotEarned`), and a call that took place stays
  (`DeliveredStays`); and `RaceRefundsOnce` that an expired booking has a refund posted under
  the sweeps' key or the admin's (`ExpiredIsPosted`). It leaves out what an admin
  expired, which a sweep does refund again, and the status that recovering a call
  types. What overlapping sweeps do break is in the table above.
- Call attempts. `MarksTyped` says that a mark under way is never a completion;
  each completion is then by a step that asks whether the fan saw the creator.
  `DeliveryInv` adds the time: for each connected attempt, what it has had, what it
  still gets and what the others ran for make the booked time (`TimeCovered`), and
  a mark written late only ever ends an attempt later (`EndsLater`), so no sum of
  what they ran for shrinks (`SumsRise`) and a booking once completed stays
  delivered. A deadline lies within the booked time because no attempt runs for
  less than nothing.
- Orders. `OrderInv` says for each status of a shout-out where the fan's money
  is, and that a settled one stays delivered, confirmed and worth what was
  credited, which closes every handler that could still refund it. `WindowInv`
  says that a window's refund is nothing or its charge, also when an expiry
  overwrites a row it listed earlier.
- Payouts. `PayoutInv` adds to `PayoutsReconcile` that an approval under way
  is the only one of a payout that is still requested: only then does its write
  close earnings that are in it and nowhere else.
- Calls desk. `DeskInv` ties each status to the pushes and notes that came with
  it, and each mark under way to an attempt that exists. `AlertedOnce` needs
  that a pushed alert has its note (`NextIsNoted`), for the note is what stops
  the second push.
- Top-ups. `CreditInv` holds order, ledger and balance together;
  `LoggedIsApplied` says that what is in the event log was acted on, and needs
  that two events never share a log entry (`OwnIds`). `CeilingInv` rests on the
  lock: what a decision has read covers what is reserved until it is taken
  (`SeenCovers`), since only another decision could reserve more, while credits,
  failures and lapses only end reservations; the row it adds is fresh and new.
- Realtime. `IInv` joins an invariant of the gateway and one of the source. The
  bound per user needs that the registry is bounded and that a socket belongs to
  the registry of its own user only; health needs that every probe under way is
  of the client there is.
- Accounts and storefront. The purge keeps what it has done to the credential
  with the request it has barred; the page's flags follow the role through
  every writer (`PageFollowsRole`).

Only model-checked: liveness (`EscrowReleased`, `AttemptEnds`, `EveryOrderResolves`,
`NoSilentGap`, `LapsedCloses`, `Recovers`, `DueIsHandled`, the liveness of
`TopupPromise`), which needs ENABLED and is beyond the prover. Every invariant and
every action property of a passing run is stated by a theorem.

## Not modelled

- Throttle: a counter per client and window in Redis. It refuses requests, and a
  refused request leaves all state above alone.
- Notifications feed, referrals, configuration, media storage, health,
  bootstrap: rows written beside the changes modelled here and read back, one-shot
  credits over the ledger, presigned URLs, wiring.
- Dashboards, settings, catalog and price lists: reads and single-row edits.
  Promo codes are an input (`Discount`).
- Token contents: verification of a token is one step that succeeds or does not.
- Push providers and device tokens: a push counts as sent when its handler is
  committed.
- The split of a wallet in bonus and principal; the legs of a top-up's tax.
- An operator's resolution of a dispute, which writes one row.

## Plan

Done: bookings, call attempts, calls desk, creators' business (payouts,
shout-outs, questions), top-ups, realtime, accounts, storefront, and the proofs
listed above.

Open: wallets split in bonus and principal; promo codes with their limits;
referrals.
