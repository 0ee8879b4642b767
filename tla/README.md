# Formal model of the Dobhi backend

TLA+ modules, TLC configurations and TLAPS proofs about the backend in
`src/src`: a marketplace in which a customer requests a helper, the request is
dispatched to helpers nearby, one of them accepts, the customer pays through
Razorpay into escrow, the helper does the job and is paid through RazorpayX.
The server is Express on Prisma and PostgreSQL; cron jobs run in the same
process.

## 1. Inventory

| Component | State it keeps | Operations | What makes it correct |
|---|---|---|---|
| Dispatch (`booking-dispatch.service.ts`) | `BookingRequest` (status, helperId, dispatchedHelperIds, expiresAt), `Helper.isAvailable` | create and dispatch, accept, reject with redispatch, expiry sweep | one helper takes a request, a taken request is not opened again, a helper has one job at a time, no request waits for ever |
| Booking lifecycle (`booking-lifecycle.service.ts`, `core/booking.service.ts`, `admin-booking.controller.ts`, two sweeps) | `Booking.status` | start with an OTP, complete, cancel (customer, administrator), sweeps for inactivity, no-show and the eight-hour limit | a cancelled booking stays cancelled, every booking ends |
| Payment (`payment.controller.ts`, `razorpay.service.ts`, `razorpay.routes.ts`) | `Payment.status`, `escrowStatus`, order id | order, initiate, verify (which asks nobody whether money has come), webhook, refund, expiry sweep | the escrow of a job that goes on is LOCKED; only cancelled bookings are refunded |
| Payout (`payout.service.ts`, `razorpayx.webhook.ts`, `payout.reconciliation.service.ts`, admin `payout.controller.ts`) | `Booking.payoutStatus`, `payoutId`, `retryCount` | payout cron, webhook, nightly reconciliation, manual mark | money leaves only for a completed job; PAID means paid; one job works on a payout, unless the lock was overwritten; sent money is recorded, within the seven days of the reconciliation |
| Ledger (`ledger.service.ts`) | `LedgerEntry` rows, unique per type and reference | `createLedgerEntry` inside the transactions above | agrees with the rows |
| Payout account (`onboarding.controller.ts`, `bank.controller.ts`, `payout.registration.retry.service.ts`) | `HelperBank`, `Helper.payoutEnabled`, `payoutSetupStatus`, `payoutRetryCount` | submit and change bank details, register at RazorpayX, the half-hourly retry | who can be paid has a fund account; a pending registration settles |
| Onboarding (`onboarding.controller.ts`, `kyc.controller.ts`, `admin-helper.controller.ts`, `admin-user.controller.ts`) | `Helper.onboardingStatus`, `HelperKyc`, `User.isActive`, `isBlocked` | submit KYC, upload, approve, reject, block | one helper per PAN; an approval stands |
| Codes and sessions (`otp.service.ts`, `otp-security.service.ts`, `seller-auth.routes.ts`, `worker-auth.routes.ts`, `auth.controller.ts`, the stores' sign-in in `public-store.routes.ts`, start OTP in `booking-lifecycle.service.ts`) | codes in columns, in Redis and in memory, attempts, locks, `RefreshToken`, blacklist | send, try, accept, lock, refresh, log out | a code is accepted once (beside it, the master codes always are), wrong tries are bounded, refreshing multiplies no session |
| Store marketplace (`public-store.routes.ts`, `store-dispatch.service.ts`, `worker-delivery.routes.ts`, `seller-worker.routes.ts`, `kirana.admin.routes.ts`) | `SellerOrder`, `Seller.ordersToday`, stock, delivery code | order, claim, accept, assign, arrive, verify, pay | stock is taken once, the holder of an accepted order was counted, money only after a code or the master code |
| Records of helpers and customers (`rating.controller.ts`, `helper-discipline.service.ts`, `services.controller.ts`, `address.controller.ts`, `report-issue.controller.ts`) | ratings, counters, services, addresses, issues | create, replace, delete, count | what a race leaves is bounded, and later calls mend it |
| Pictures (`admin-category.routes.ts`, `kirana.catalog.admin.routes.ts`, `user.controller.ts`, `utils/cloudinary.ts`) | image columns, Cloudinary | upload, replace, delete | a shown picture is stored |
| The rest (notifications, admin views, look-ups, audits) | records | create, list | - |

The components meet in the database. No lock is held between two statements:
handlers read, decide in JavaScript, and write, and some of the writes repeat
the decision in a `WHERE` (`updateMany` and its count) while others update by
id. The behaviours that are hard are therefore

* a write that rests on a read another call has overtaken;
* webhooks of Razorpay and RazorpayX that come twice, late, or not at all;
* two stores for one truth: a code in memory and in Redis, a picture in a row
  and at Cloudinary, a fund account in a row and at RazorpayX;
* six cron sweeps, without a guard against overlapping themselves, that race
  the users and each other;
* a process that stops between an outside call and the statement that records it;
* retries of what may already have happened.

`PROJECT.json` lists them as hazards at their lines, with the properties that
cover them.

## 2. How the code becomes steps

One Prisma call is one atomic step, and so is one `$transaction` whose reads do
not matter (PostgreSQL at READ COMMITTED; `updateMany` with a `WHERE` is a
compare-and-set). The transactions of accept and reject in the dispatch read a
row and write it later; their reads and writes are separate steps, since READ
COMMITTED lets others commit in between.

A handler in flight is a record in `call` (`job` for payout jobs): its stage
names what it will do next and stands for what it has read. A handler that
answers with an error before it wrote anything is no step. A guarded update
that finds no row rolls its transaction back; that call, a crash and a lost
connection are all `CallDies` or `JobDies`: what was committed stays and the
rest never happens.

A duplicate ledger entry is caught in `createLedgerEntry` (P2002), but
PostgreSQL has by then aborted the transaction it was made in: such a
transaction has no effect, and the action's guard says that no duplicate is
there.

`prisma.$transaction([...])` and `$transaction(async tx => ...)` that replace
rows (`deleteMany`, then `createMany`; clear all defaults, then set one) are not
one step either: at READ COMMITTED a statement sees the rows committed when it
began, waits for a row another transaction holds, and never sees a row inserted
meanwhile. `ServiceList`, `AddressBook` and `HelperRecord` split them at the
place where that matters.

Statements that are sent and not waited for (the reset of a store's daily count,
the deletions at Cloudinary) are in flight in a variable of their own, or count
as done when they are sent, whichever is the worse for the properties.

Time is a set of deadlines that have passed (`due`, `late`); a sweep may read a
row from then on. `bookingDate` is midnight of the day of the job, so the
no-show deadline passes before the one that counts from `startTime`.

## 3. Modules

| Module | Models |
|---|---|
| `BookingStore` | the rows of a booking and its payment, calls in flight, deadlines |
| `BookingPayment` | every handler and sweep that writes `Booking.status` or the payment, over `BookingStore`; properties |
| `BookingContract` | what a booking promises: money held in the step that books, returned only in the step that closes, closed is final |
| `BookingPaymentProofs` | the proofs, for any number of bookings and calls |
| `Payout` | the payout cron with its lock and its catch, RazorpayX, its webhook, the reconciliation and the end of its seven days, the manual mark |
| `BookingMoney` | `BookingPayment` and `Payout` together; properties |
| `Dispatch` | requests, batches, accepts, rejects, the sweep, the administrator's switches; properties |
| `DispatchOffer` | what the dispatch promises: an open offer is taken once, and closes the customer's other offers |
| `Calendar` | the two times of a request, the conflict check and the gap, the times of the booking |
| `StartOtp` | the start OTP: value, attempts, expiry, regeneration |
| `OneTimeCode` | what a one-time code promises: accepted once, while it is the code of now, given up after a number of wrong tries |
| `EmailCode` | the codes mailed to sellers and workers, and to those who register, and the master code |
| `LoginOtp` | the codes by SMS in memory and Redis, the lock of a phone, restarts and outages |
| `StoreSignIn` | the sign-in of the public store routes: codes in memory, the master code, the store an address is given to |
| `Sessions` | users, refresh tokens, rotation, blacklist, logout |
| `Onboarding` | KYC submissions, uploads, the administrator's decisions |
| `PayoutAccount` | bank details, registration at RazorpayX, the retry job, crashes |
| `StoreOrder` | store orders: choice of a store, daily quota, claims, any status sent in, stock |
| `StoreDelivery` | worker, arrival, delivery code and master code, payment on delivery |
| `Images` | pictures of categories, shelves, products and users |
| `HelperRecord` | discipline counters; ratings and their average |
| `JobSite` | the issues of a job and the administrator's cancellation |
| `AddressBook` | a customer's addresses and the default one |
| `ServiceList` | the services a helper offers |
| `BookingMoneyProofs`, `DispatchProofs`, `PayoutAccountProofs`, `StoreOrderProofs` | the proofs about the module each is named after |
| `StoreProofs`, `AccessProofs`, `HelpersProofs` | the proofs about the modules that `MCStore`, `MCAccess` and `MCHelpers` put together, and about the three |
| `BookingClaims`, `PayoutClaims`, `DispatchClaims` | what comments and documents say and the code does not do, one property each |
| `MCBookingMoney` | symmetry, a view and a constraint for TLC |
| `MCDispatch` | symmetry for TLC |
| `MCStore`, `MCAccess`, `MCHelpers` | several modules in one run, one behaviour of one module at a time |

`BookingPayment`, and `BookingMoney` with the payouts, implement
`BookingContract`, `Dispatch` implements `DispatchOffer`, and `StartOtp`
implements `OneTimeCode`, under the refinement mappings `phaseBar`/`fundsBar`,
`stateBar` and the one in `StartOtp` that takes the columns for the contract's
variables.

`MCStore`, `MCAccess` and `MCHelpers` do not compose their modules: a behaviour
picks a module (`focus`), moves only that one and leaves the rest where they
started. The modules put together there share no column that one decides by and
another writes, so that their interleavings show nothing new. They are together
because each is small and their questions are of one kind.

Correspondence of state and code: `status`, `payoutStatus`, `payment`,
`escrow`, `order` are the columns of the same meaning. `ledger` is the set of
entry types a booking has, sufficient because type and reference are unique and
every reference is derived from the booking or its payment. `charged` and
`transfer` are the outside world: what Razorpay has taken and what RazorpayX
has sent. `transfer` has one value per booking because the payout is created
with an idempotency key of the booking. In `Dispatch`, `standing` merges
`onboardingStatus` and `isActive`; `live` and `booked` are the booking as far as
the dispatch knows it.

In the other modules the variables are named after the columns, and the comment
at each names the one it stands for. Codes, addresses, pictures and rows whose
ids matter are numbered in the order of their creation. Variables called history
in their comment (`freed`, `accepted`, `wrong`, `tries`, `counted`, `told`,
`flying`, `late`, `logins`, `approvals`, ...) are in no row; they say what the
calls have done, for the properties, and no guard of a modelled handler reads
them.

Abstractions a reader should know:

* `Found`: distance, rating, fairness rotation, being online and the conflict
  check decide who is asked. Any subset of the approved and active helpers may
  result, also none, which is what an error gives.
* In `Dispatch` the conflict check of accept may find a conflict (`CallDies`) or
  miss one. What it computes is in `Calendar`, by the half hour, with the day,
  the zones' offset and the gap as constants.
* The two-hour hold of a payout and the backoff only delay a read; reads may come
  at any time. The seven days of the reconciliation end its reads for good: they are
  `old`, which `LookbackEnds` sets whenever the reconciliation could read the row.
* A commission of zero writes no `COMMISSION_EARNED`; it is taken as positive.
* `payment.captured` is sent only after the customer paid, and the webhook checks its
  signature and the amount before the modelled steps. `verifyPayment` checks who calls
  and the booking's state, no signature, no amount and no payment at Razorpay; so
  `VerifyReadPayment` may come whether or not `charged` is true.
* The body of the Razorpay webhook is the one the handler expects.
* Updates of several rows by a sweep are modelled row by row of its snapshot.
* An administrator's approval of onboarding reads the helper and then updates it
  in a transaction; the two are one step, since the dispatch writes none of the
  fields the read checks. `Onboarding` has them as two.
* A code has a number for its digits: two codes never have the same digits by
  chance, and a code that a client guesses is the right one or a wrong one.
* In `EmailCode` an account is a row, whatever its address; in `StoreSignIn` no address
  contains another (the code searches with `contains`), and of several approved stores
  any may be found first.
* A master code is accepted in every environment: `VerifyMaster` in `EmailCode` and
  `StoreSignIn`, a disjunct of `VerifyRead` in `StoreDelivery`. The codes accepted only
  outside production ('1234', a worker's passcode, `otp.service.ts:256`) are not modelled.
* A rating is a number of stars, an average the sum and the number it is made of.
* Which store is nearest is any of those within reach that has quota left.
* A registration at RazorpayX makes the contact and the fund account, or fails
  at either; the fund accounts made so far are `atRazorpay`.

## 4. Runs

Passing runs (`tlc -config <name>.cfg <module>`):

| Run | Instance | Shows |
|---|---|---|
| `payment` (`BookingPayment`) | 1 booking, 2 calls | types; live jobs hold escrow, paid or not; refunds only of cancelled bookings; the ledger agrees; the no-show sweep spares captured payments; refinement of `BookingContract`; every booking ends |
| `money_safety` (`MCBookingMoney`) | 1 booking, 1 call, 2 payout workers, `MaxRetries` 1, symmetry of the workers, `VIEW MoneyView` | payouts only for completed jobs, PAID means paid, who takes the payout lock away |
| `payout_live` (`MCBookingMoney`) | the same, from a completed booking, no symmetry and no view, `CONSTRAINT NotCancelled` | money sent under a stored payout id is recorded, unless the seven days end first |
| `dispatch_lock` (`MCDispatch`) | 2 requests, 2 customers, 1 helper, 2 calls, symmetry | one live job per helper, settled requests, refinement of `DispatchOffer` |
| `dispatch_batch` (`Dispatch`) | 1 request, 2 helpers, 2 calls | every request is resolved, through batches and redispatch |
| `store` (`MCStore`) | 1 order, 2 products, 2 calls, quota 1; 1 store and 2 days, or 2 stores and the pickups of a day; 2 workers, 2 codes, 1 try; 1 row of each kind and 3 pictures; symmetry of stores and calls | stock taken once, the holder of an accepted order was counted, settled counts stay, payment after a code, shown pictures are stored |
| `access` (`MCAccess`) | start: 1 booking, 3 calls, 3 tries, 3 codes; mail: 1 address, 2 calls, 2 tries, 2 codes, 1 mail in a window; SMS: 1 phone, 2 calls, lock at 2, 2 codes; sessions: 1 user, 2 calls, 2 rows, 2 seconds; KYC: 2 helpers, 1 PAN, 2 calls; stores' sign-in: 2 addresses, 2 stores, 2 calls, 2 codes of one address or 1 of each; symmetry of calls and helpers | codes are accepted once or by calls that found them together, wrong tries are bounded, sessions come from logins, one helper per PAN, approvals stand, refinement of `OneTimeCode` |
| `helpers` (`MCHelpers`) | account: 1 helper, 2 details, 2 calls, 2 retries, 1 crash; ratings: 2 bookings, 2 stars; 3 counters, 3 events; 3 issues of a job; 3 addresses; 3 services; 2 requests in days of 6 units; 2 calls each | payable helpers have a fund account and registrations settle; averages, counters, defaults and services heal; issues are lost by overlaps only; bookings are apart |

Bounds. No handler of `BookingPayment` or `Payout` touches two bookings, so one
booking is enough, and the theorems of section 6 cover any number. Two calls
give every race between a stale read and a write that overtakes it; the theorems
cover any number of calls. With two payout workers a payout job and a webhook, a
reconciliation, a manual mark or a second job are in flight; `MaxRetries` 1 (3 in
the code) has a first attempt, a retry, and a failure out of retries.
`dispatch_lock` needs two requests for one helper, of one customer (rivals) or of
two; `dispatch_batch` needs a batch of two, or a batch of one and a helper
outside it. Both requests with both helpers is too large for TLC; the theorems cover it.
Symmetry is used only in runs without liveness. `MoneyView` forgets the deadlines of
bookings that are completed or cancelled, which nothing reads any more. `NotCancelled`
cuts a behaviour where the booking is cancelled, from where on `SentMoneyIsRecorded` asks
nothing of it.

In `store`, `access` and `helpers` two calls are again a stale read and the
write that overtakes it; `StartOtp` has three, for a wrong code, a right one and
a new code together. A limit of two or three tries (three or five in the code)
has a try below it, the last one and one in flight past it. Two codes are a used
and a new one. One store and two days show a count, its reset and an acceptance
across midnight; two stores claim one pickup on one day; both stores over both days is
too large, and is proved. In the run of one store that has several days a store signs up
on the last of them (`SignsUpLate`), since its first day is like no other only until it
is counted. One try of a delivery code has the try that is counted and one in flight
past it. At the sign-in of stores two addresses compete for one store, or a second
code of one address takes the place of the first (`FewCodes`). Of two helpers at most one is
blocked (`OneIsBlocked`): blocking is about a helper's own row. In `Calendar` a day has six units of which two are slots, the offset of
the zones is one, and the instants asked for are in step with a slot, out of
step, and on both sides of midnight. `TriesBound` is the number of wrong codes
after which the lock holds, computed in `LoginOtp` from the calls and the limit: 4
for two calls and a limit of 2. It is no larger than need be: TLC reaches it there, and
also with two and with three calls and a limit of 3.

`helpers` and `access` do not check for deadlock, since a behaviour may really
end there: `Calendar` when its requests are over, the codes and sessions when
the bounds are used up. The other passing runs check it.

`BookedRequestIsSettled` allows a booked request to be EXPIRED: a reject that
read it before the accept and was the last of its batch still expires it.
`OneLiveJobPerHelper` excepts helpers whom an administrator rejected and approved
again in the middle of a job, which sets `isAvailable` whatever is booked. `PaidMeansPaid` excepts
what an administrator marked by hand. `OnePayoutJob` excepts that, and the booking a job
has set back to PENDING without having been told that it had the lock (`freed`): the
lock's statement is inside the `try`, and the catch writes by id. `SentMoneyIsRecorded`
ends with a cancellation, and with the seven days of the reconciliation.
`PaidWasVerified` is satisfied by the master code, which needs neither a code nor the
customer; only where none was entered does it say that the customer gave a code.
`AcceptedTogetherOnly` counts the acceptances of codes that were mailed, and not those of
the master code, which are without bound. `HolderIsCounted` speaks of an order from its
first acceptance or claim on; what the status routes write does not count as one.
`SettledCountKeeps` speaks of a count for which nothing decided earlier is under way
(`Settled`), and not of what an acceptance across midnight leaves. `LostIssuesOverlapped`
excepts reports in flight together with each other or with the administrator.
`EscrowFollowsStatus` and the refunds are about
`escrowStatus`: `refundPayment` and the no-show sweep leave it alone, so a
cancelled booking may keep its escrow LOCKED, which the contract's `Close`
allows. `AcceptedTwiceTogetherOnly` says nothing once Redis has been away: a code
deleted in memory only is found again when it comes back. `ShownImageExists`
excepts pictures that a client named, that a category was given back by a stale
update, and a user's old photo, which is deleted before the row is written.
`SlotsKeepApart` is about requests whose instant and slot agree; of others, the
code keeps nothing apart. `ApprovalOutlastsLaterCalls` excepts the submission
that began before the approval, which does take it back. The properties named
after healing (`RatingHeals`, `DefaultHeals`, `ServicesHeal`) say that a race may
leave the wrong value and that the next call that is alone mends it.

Fairness. A call ends, by answering or dying (weak fairness: neither Node nor
the database holds a request for ever). Deadlines pass. A sweep is started again
every few seconds or minutes: its read and its write are strongly fair per
booking or request, which says that it is not killed at the same place for ever. Of
the reconciliation this is asked only as long as its `WHERE` selects the booking:
`ReconcileSelect` is disabled by `old`, and nothing says that the row is read before.
RazorpayX settles what it has queued. The job that registers accounts again
starts every half hour and goes on, unless the server stops, which it does
`MaxCrashes` times (weak fairness of `RetryStart` and `Proceed` in
`PayoutAccount`; while another module is in focus nothing of it is enabled).
Nothing is assumed of customers, helpers, administrators or webhooks.

Violation runs. Each checks one sentence of a comment against what the code
does; the finding in `PROJECT.json` quotes it.

| Run | What the code does |
|---|---|
| `claim_expiry_benign` | the expiry sweep fails a payment captured after its snapshot: the booking is CONFIRMED, the escrow LOCKED, the payment FAILED, and the payout will refuse it |
| `claim_customer_cancel` | a capture between the customer's check and the update is cancelled, the money stays in escrow |
| `claim_payout_processing` | a payout job that dies after its lock leaves PROCESSING for ever; without handlers and with `CHECK_DEADLOCK FALSE`, since the payout really stops there |
| `claim_lock_released` | `isAvailable`, taken by accept, is given back by no completion and no cancellation |

Other places where the model shows less than the text beside the code says, and
where no run is kept: `adminCancelBookingHandler` cancels a booking completed
after its check (`AdminCancelGuard` excludes CANCELLED only; the comment at
admin-booking.controller.ts:151 speaks of "the expected non-terminal state");
`initiatePayment` resets a payment captured after its check (`InitiateReset`);
`refundPayment` books as refunded a payment that left CAPTURED after its check,
and writes no reversal for a payout settled after its read (`RefundWrite`);
`markPayoutPaid` marks a payout the cron locked after its check (`MarkPaidWrite`);
the no-show deadline counts from midnight (`TimePasses`); a redispatch excludes
the last stored batch only (`FindNextBatch`); ignores are recorded for requests
accepted after the snapshot and for helpers who rejected (`RecordIgnore`); a
request sent to nobody is PENDING with an empty batch (`Create`); helpers who are
not available are asked (`Found`). A second delivery of `payment.captured` fails the
payment of a confirmed booking when that has left CAPTURED meanwhile
(`razorpay.service.ts:277`; the comment at line 221 says "IDEMPOTENT: Safe to call
multiple times"); the reconciliation and the manual mark set PAID without the
DEBIT that `razorpayx.webhook.ts:183` speaks of; a reject that read a request
before its accept sets it EXPIRED, although `booking-dispatch.service.ts:769` says
"if another helper already accepted, abort".

`verifyPayment` (`payment.controller.ts:93-209`) captures and confirms a booking whose
customer has paid nothing: it looks neither at a signature nor at Razorpay
(`VerifyReadPayment`). `LiveJobHoldsEscrow` is about the column, and says that a job that
goes on has its escrow LOCKED, not that there is money in it. When the statement that
locks a payout fails, its own catch sets the booking back to PENDING by id, also while
another run holds the lock (`payout.service.ts:163`, `389`; `Catch`, `ScheduleRetry`). The
reconciliation gives a booking up seven days after its creation
(`payout.reconciliation.service.ts:90`; `LookbackEnds`): money that was sent is then
recorded only by a webhook that is still to come. A customer who registers again makes
a deactivated account active (`public-store.routes.ts:2009-2017`; `RegisterCustomer`).

At the stores, an acceptance that has read the seller before midnight and writes after it
dates the seller back, and the next search starts the new day's count again
(`store-dispatch.service.ts:193-202`; `CountOrder`). The store's status route writes any
status over any other (`public-store.routes.ts:1087-1109`), also
one that calls an order scheduled which no store has accepted (`UpdateStatus`). Master
codes are accepted in every environment: '123456' for mailed codes
(`seller-auth.routes.ts:171`, `341`, `378`; `worker-auth.routes.ts:200`) and at delivery
(`worker-delivery.routes.ts:299`), '1234' at the stores' sign-in
(`public-store.routes.ts:1881`). That sign-in gives an address no store has to the first
approved store, over the address it had (1905-1919), and otherwise creates a store with
a phone number that is always the same and unique, so that this succeeds once
(1920-1939).

In the modules of codes and records: two refreshes of one token in the second in
which it was made sign a token equal to it (`auth.controller.ts:350`); the counters
are "Transaction-safe" (`helper-discipline.service.ts:38`), yet read and written
back; photos of the work are "streamed to S3 and URLs stored"
(`partner-booking.routes.ts:70-72`), but `work-photos.controller.ts` uses (80, 217) a
client it does not import (19-23), so that both uploads answer 500, no photo is ever
recorded, and the timer, which asks for one (`partner-booking.routes.ts:84-86`), refuses
every start; that a code is regenerated only after the
last one has expired is said beside the handler and not checked
(`regenerateOtpForBooking`); two reports at once make two issues, and a report in
flight when the administrator cancels stays open (`LostIssuesOverlapped`); `getPendingRequestsForHelper`
(`booking-request.controller.ts:424`) always answers with an empty list; an
update of a category writes back the picture it read; an avatar is deleted
before the row stops showing it; deleting a shelf leaves its products' pictures at
Cloudinary; two saved lists of services are mixed (`services.controller.ts:103`);
requests whose date and time differ may be booked in the past or over another
booking, and the gap is kept from the booking that ends last only. A stop between
saving new bank details and recording that their registration failed leaves
`NOT_STARTED`, which no retry picks up; details changed while a fund account is
enabled leave the old account being paid.

## 5. What the properties catch

Every property of a passing run has a mutant: a change of one definition, of
the kind a bug in the code would be (a dropped `WHERE`, a skipped check, a missed
reset), defined above the definition it replaces. Under it TLC finds the
property violated.

## 6. Proofs

Every theorem is for any value of the constants, so for any number of bookings,
requests, helpers, stores and calls in flight. Where a run checks the property the
run shows the same on a small instance. The safety properties of the passing runs
are all proved.

| Module | Theorems |
|---|---|
| `BookingPaymentProofs` | `TypeCorrect`, `LiveJobsAreFunded`, `RefundsCancel`, `LedgerIsRight`, `NoShowIsSafe` (an action property), `Refinement` of `BookingContract` |
| `BookingMoneyProofs` | `MoneyTypeCorrect`, `PayoutsAreEarned`, `PaidIsTrue`, `LockExcludes`, `JobsStayFunded`, `MoneyRefinement` of `BookingContract` |
| `DispatchProofs` | `TypeCorrect`, `OneJobAtATime`, `BookingsAreSettled`, `OfferIsKept` (refinement of `DispatchOffer`) |
| `AccessProofs` | `StartCodeIsOneTime` (`StartOtp` implements `OneTimeCode`), `MailedCodesAreBounded` (`EmailCode`), `MailedCodesAreSpent` (`EmailCode` and `StoreSignIn`), `SmsCodesAreSpent` and `LockIsInTime` (`LoginOtp`), `SessionsAreLogins` (`Sessions`), `PansAreUnique` and `ApprovalLasts`, an action property (`Onboarding`), `AccessKeepsItsPromises` (all of them in `MCAccess`) |
| `HelpersProofs` | `LostIssuesOverlap` (`JobSite`), `RatingIsHealed` and `CountsStayBounded` (`HelperRecord`), `ServicesAreHealed` (`ServiceList`), `DefaultIsHealed` (`AddressBook`), `SlotsAreKeptApart` (`Calendar`), `HelpersKeepTheirPromises` (all of them and `PayoutAccount` in `MCHelpers`) |
| `StoreProofs` | `DeliveryIsPaidAfterItsCode` (`StoreDelivery`), `ShownPicturesExist` (`Images`), `StoreKeepsItsPromises` (both and `StoreOrder` in `MCStore`) |
| `PayoutAccountProofs` | `AccountTypeCorrect`, `PayableIsFunded` |
| `StoreOrderProofs` | `TypeCorrect`, `StockIsTakenOnce`, `AcceptedOrdersAreCounted`, `SettledCountsKeep` (an action property) |

None of the invariants is inductive alone: a step may write by what a call read
earlier. Each module has an inductive invariant that says what is still true of
the rows when a call acts on its read.

* `BookingPayment`: `IInv` adds `EscrowFollowsStatus` (money is in escrow from the
  capture on and not before) and `CallsKnow`: a call that will refund knows the
  escrow was taken, since nothing sets it back to PENDING; the no-show sweep,
  which read a confirmed booking whose payment was not CAPTURED, knows that both
  are still so, since a payment becomes CAPTURED only together with a booking that
  awaits payment, and no booking awaits payment again. Every write of `status` is
  one of the contract's steps (`ClosesBooking`, `CaptureBooks`,
  `HelperStepImplements`), and the rest are stutters (`RestStutters`).
* `BookingMoney`: `MInv` adds to `IInv` that what was completed is earned and
  nothing of a payout exists before (`CompletedIsEarned`, `PayoutIsEarned`), what
  a job or a refund has read that no step undoes (`JobsKnow`, `RefundsKnow`), and
  the lock: while a job holds it nobody can take it (`LockIsTaken`), because PENDING
  comes back only from the one job that holds it (`OneHolder`) or from one whose lock
  failed or lost its answer, which is `freed`. The steps of
  `BookingPayment` keep `IInv` by its own proof, and are `Harmless` to the payout.
* `Dispatch`: a live booking has a helper, who is not available unless approved
  again (`LiveBookingHoldsHelper`); the guarded updates of accept decide whatever
  the call has read.
* `StartOtp`: the code of now was never used and neither was any that is yet to
  come (`CodesAreSpent`); null is not a code (`RightIsACode`). One lemma per
  handler shows that its step keeps `IInv` and is a step of `OneTimeCode`.
* `Calendar`: the arithmetic first. An instant whose time in India is a slot is
  the start of the booking (`SlotIsInstant`, from the uniqueness of quotient and
  remainder); the rest is what the two checks compared when a booking was made,
  of rows that do not change any more.
* `Onboarding`: a submission began while the helper was not approved; if he is by
  now, he was approved since (`SubmissionsKnow`).
* `Sessions`: `SessionInv` counts. The rows of a user and the refreshes of his that
  have taken their row away and not yet stored the next are together at most his
  logins; ids are given once (`IdsAreUnique`), and a refresh takes a row of its
  own user (`CallsAreOwn`), so that no step adds to one side alone.
* `EmailCode`: the limit has to be kept with the tries in flight
  (`CodesAreBounded`): the wrong tries of a code and the calls that have read it and
  are about to count one are together at most the limit and all calls but one.
  The same is true of the right code and those about to accept it. The master code
  spends what its call has read and counts nothing (`VerifyMasterKeeps`), so that it
  takes a code away and gives none back.
* `StoreSignIn`: a code that was accepted is not the one that is stored, nor one that is
  yet to be made (`StoreCodesAreSpent`): the look and the deletion are one step.
* `LoginOtp`: a code that was deleted is stored nowhere (`FoundCodes`, `Gone`), as
  long as Redis has not been away; so the calls that accept a code found it before
  its deletion, and were together then (`FoundTogether`).
* The lock of `LoginOtp`: failures are counted by a read and a write, so the count may
  fall and bounds no number of tries. Each call has a level: the count it would
  write at worst, less one (`Levels`). How the calls stand is, for each count k that does
  not lock, how many of them have a level of at most k (`StandOf`). A wrong code that
  does not lock takes its own call above some k, and can bring another call down, by
  the lower count it writes, only to above that k (`HarmlessWriteIsNear`). So the number at
  that k falls and none before it rises, the standing moves on in an order in which none
  comes again (`Before`, `RisePasses`), and every other step leaves it or moves it on
  (`RiseKeepsPassed`). There are finitely many standings (`StandingsAreFinite`); while
  no lock has come, each try has passed a standing of its own, and from the lock on only the
  calls then in flight still answer (`LockIsNearAt`, `LockedWriteIsNear`). The bound is
  therefore the number of standings, less the present one, and the calls:
  (C+M-1 over C) - 1 + C with C calls and a lock at M.
* `JobSite`: a report begins only where there is no issue, so the issues and the reports
  in flight are together at most the calls; and none begins once an administrator was
  shown one, so what he was shown and what was then in flight bounds what comes
  (`SiteCallsKnow`, and `SawIsKept` for the steps of the others).
* `HelperRecord`: a rating since whose statement no other was committed has the
  average of the rows as they will be with its own (`AloneIsRight`); a counter that
  was read is no more than its events (`ReadsAreBounded`). That the sum of the
  stars is a natural number is an induction over a recursive definition of the
  library. It is done by the smallest set of bookings for which it would fail
  (`SmallestSubset`): the sum of what is left when one is taken away exists, and so
  does the sum of the set (`OthersAreFewer`, `SumsAgree`, `SumsAreNatural`).
* `ServiceList`: a save that was not overtaken has found all the rows there are
  (`RowsAreFound`), and profiles are saved one at a time (`OneProfile`).
* `AddressBook`: while requests have come one at a time there is one default, or the
  request that deletes it is under way, and what a request has read is still so
  (`OrderIsKept`); a transaction that is alone has cleared every mark
  (`SetterClears`).
* `StoreDelivery`: a payment under way is of an order that was verified when it began
  (`PayersWereTold`). `verified` itself is taken back by a new arrival, so the history
  of which code was given, the customer's or the master code, is what lasts; and a
  customer's code is entered only where one was made.
* `Images`: a picture nobody named belongs to one row (`PicturesAreOwn`). One row
  shows it, and only calls of that row have read it (`ShownByOne`); before that, one
  call brings it and nobody else knows of it (`BroughtByOne`), so a deletion takes
  away only what its own row has shown.
* `PayoutAccount`: a fund account that is written down exists and is never wiped
  out (`FundExists`, `FundIsThere`), and so do those that a call or a run has read
  (`CallsKnow`, `TodoKnows`).
* `StoreOrder`: an order is created once and has its kind from then on
  (`KindIsOfAnOrder`), stock is owed by grocery orders only and by one call
  (`StockIsOfGroceries`, `StockTakenOnce`), a store is chosen before it is counted
  (`StoreIsChosen`), and whoever goes on to link or claim the order was counted for it
  (`ClaimsAreCounted`): the store's row and the order's are written in that order, and
  the status, which any route may write, decides nothing here. `SettledCountsKeep` is
  proved step by step: while nothing under way has read the seller on another day, a new
  read finds today's date and adds to the count.

Assumptions: `MaxRetriesAssumption` (`Payout`), `NoHelperAssumption` (`Dispatch`),
`OtpAssumption` (`StartOtp`), `NothingAssumption` and `AccountAssumption`
(`PayoutAccount`), `SellerAssumption` and `BoundAssumption` (`StoreOrder`), and the
`...Assumption` of each module that is used by INSTANCE, assumed in `MCStore`,
`MCAccess` and `MCHelpers`: bounds are natural numbers and the values for null are
none of the others. Besides, the set of calls is finite where calls are counted
(`JobSite`, `Sessions`, `EmailCode`, `LoginOtp`), the set of bookings is finite where
their stars are added (`HelperRecord`), and a mailed code has at least one try
(`MaxAttempts > 0`; the code has 5). The runs evaluate all of them.

The theorems about modules used by INSTANCE are about the definitions that `MCStore`,
`MCAccess` and `MCHelpers` take from them, with any values for their constants. The
last theorem of each of the three says that the properties hold in the run's own
specification: a step there is a step of the module in focus, and a stutter of the
others (`StoreStep`, `AccessStep`, `HelpersStep`).

Only model-checked: liveness (`EveryBookingEnds`, `SentMoneyIsRecorded`,
`EveryRequestResolves`, `RegistrationSettles`), which is out of the prover's reach under
fairness.

## 7. Not modelled

The photos of the work and the job's timer have no state: no upload stores a photo, and
without one no timer starts (section 4). Notifications, look-ups of identity and bank, location pings and the admin's views
are records and messages that are written and listed, without a protocol between
actors. Amounts, prices, coupons and texts are data no modelled decision depends
on. The ledger audits (`ledger.integrity`, `ledger.validation`, `finance.ledger`)
are called by no route and no cron job. `confirmBooking`, `startBooking`,
`cancelBooking`, `helperCancelBooking` and `processHelperNoShows` are never called
either, so `PayoutStatus` CANCELLED and `BookingStatus` NO_SHOW and EXPIRED are
never written, and a cancellation is never counted. No code calls a refund of
Razorpay: REFUNDED is a state of the rows only. `handlePaymentFailed` looks for a
payment by a field that is not set and changes nothing. `resendOtp` has no caller.
The checks of access tokens and of request rates read and answer; they change
nothing another call reads. Who may call a route is not modelled: the actions are
those of callers whom the code lets in.

`Payout` chooses freely whether a helper's account is ready where `PayoutAccount`
computes it; the composition of the two would only restrict the choice.

## 8. Plan

1. Done: booking, payment and their contract; payouts; dispatch and its offer;
   the start OTP and its contract; calendar; codes, sessions and onboarding;
   payout accounts; store orders and deliveries; pictures; the records of helpers
   and customers; the proofs of section 6; the claims.
2. Next to model: the composition of `PayoutAccount` with `Payout`; prices and
   coupons of store orders, if amounts are ever decided by more than one call.
3. Next to prove: more of what `PayoutAccount` promises of the retry
   job, stated as safety.
