--------------------------------- MODULE Payout ---------------------------------
(***************************************************************************)
(* Paying the helper of a completed booking: the payout cron, RazorpayX    *)
(* and its webhook, the nightly reconciliation, and the administrator who  *)
(* marks a payout as paid by hand.                                         *)
(*                                                                         *)
(* The two-hour hold and the delay before a retry only say when a job may  *)
(* read a row; a read may come at any time here.  The reconciliation looks *)
(* at the bookings of the last seven days, and at no other ever again.     *)
(***************************************************************************)
EXTENDS BookingStore

CONSTANTS
  Worker,      \* the payout jobs and webhook deliveries in flight at once
  MaxRetries   \* MAX_RETRIES

ASSUME MaxRetriesAssumption == MaxRetries \in Nat

VARIABLES
  payoutId,    \* Booking.payoutId is set
  retryCount,  \* Booking.retryCount
  transfer,    \* the payout at RazorpayX: one per booking, by its idempotency key
  old,         \* seven days have passed since Booking.createdAt
  markedPaid,  \* the administrator has marked the payout as paid
  freed,       \* history: a job that was never told it had the lock scheduled a retry
  job          \* what each worker is doing

payoutVars == <<payoutId, retryCount, transfer, old, markedPaid, freed, job>>

\* What this module only reads, or does not look at.
bookingSide == <<status, payment, order, charged, due, call>>

JobStage == {"lock", "checkPayment", "checkHelper", "callApi", "storeId", "revert", "notReady",
             "unpayable", "fail", "retry", "webhookPaid", "webhookFailed", "fetch",
             "reconcilePaid", "reconcileFailed", "markCheck", "markPaid"}

NoJob == [stage |-> "idle"]

\* hadId and tries are payoutId and retryCount as a job of the payout cron read them,
\* the other jobs read neither; locked is history: the job was told that it had the
\* lock and has not given it up.
Job == [stage : JobStage, booking : Booking, hadId : BOOLEAN, tries : 0..MaxRetries,
        locked : BOOLEAN]

PayoutTypeOK ==
  /\ payoutId \in [Booking -> BOOLEAN]
  /\ retryCount \in [Booking -> 0..MaxRetries]
  /\ transfer \in [Booking -> {"none", "queued", "processed", "failed"}]
  /\ old \in [Booking -> BOOLEAN]
  /\ markedPaid \in [Booking -> BOOLEAN]
  /\ freed \in [Booking -> BOOLEAN]
  /\ job \in [Worker -> Job \cup {NoJob}]

PayoutInit ==
  /\ payoutId = [b \in Booking |-> FALSE]
  /\ retryCount = [b \in Booking |-> 0]
  /\ transfer = [b \in Booking |-> "none"]
  /\ old = [b \in Booking |-> FALSE]
  /\ markedPaid = [b \in Booking |-> FALSE]
  /\ freed = [b \in Booking |-> FALSE]
  /\ job = [w \in Worker |-> NoJob]

(***************************************************************************)
(* The life of a job.                                                      *)
(***************************************************************************)

On(w, stage, b) == job[w].stage = stage /\ job[w].booking = b

TakeReading(w, stage, b, hadId, tries) ==
  /\ job[w] = NoJob
  /\ job' = [job EXCEPT ![w] = [stage |-> stage, booking |-> b, hadId |-> hadId,
                                tries |-> tries, locked |-> FALSE]]

Take(w, stage, b) == TakeReading(w, stage, b, FALSE, 0)

Goto(w, stage) == job' = [job EXCEPT ![w].stage = stage]

Done(w) == job' = [job EXCEPT ![w] = NoJob]

\* The catch around a payout: a transient error is retried later while there are
\* retries left, every other one fails the payout.
Catch(w, locked) ==
  \E next \in {"retry", "fail"} :
    /\ next = "retry" => job[w].tries < MaxRetries
    /\ job' = [job EXCEPT ![w].stage = next, ![w].locked = locked]

SetPayout(b, s) == payoutStatus' = [payoutStatus EXCEPT ![b] = s]

ReleaseEscrow(b) == escrow' = [escrow EXCEPT ![b] = "RELEASED"]

\* A step that changes nothing but the job.
JobOnly ==
  UNCHANGED <<bookingSide, payoutStatus, escrow, ledger,
              payoutId, retryCount, transfer, old, markedPaid, freed>>

\* A step that writes payoutStatus and nothing else.
StatusOnly(b, s) ==
  /\ SetPayout(b, s)
  /\ UNCHANGED <<bookingSide, escrow, ledger, payoutId, retryCount, transfer, old,
                 markedPaid, freed>>

(***************************************************************************)
(* The payout cron.                                                        *)
(***************************************************************************)

\* Mutant of SelectPayout: the booking's status is not in the WHERE.
SelectPayoutByPayoutStatus(w, b) ==
  /\ payoutStatus[b] = "PENDING"
  /\ TakeReading(w, "lock", b, payoutId[b], retryCount[b])
  /\ JobOnly

SelectPayout(w, b) ==
  /\ status[b] = "COMPLETED"
  /\ payoutStatus[b] = "PENDING"
  /\ TakeReading(w, "lock", b, payoutId[b], retryCount[b])
  /\ JobOnly

\* Mutant of LockFree: the lock is an update by id.
LockById(b) == b \in Booking

\* The WHERE of the lock.
LockFree(b) == payoutStatus[b] = "PENDING"

\* A booking whose payoutId was already set stays PROCESSING, for the
\* reconciliation to settle.  A lock that was taken and whose answer was lost is
\* caught like any other error.
LockPayout(w, b) ==
  /\ On(w, "lock", b)
  /\ LockFree(b)
  /\ StatusOnly(b, "PROCESSING")
  /\ \/ job[w].hadId /\ Done(w)
     \/ ~job[w].hadId
        /\ job' = [job EXCEPT ![w].stage = "checkPayment", ![w].locked = TRUE]
     \/ Catch(w, FALSE)

Payable(b) == payment[b] = "CAPTURED" /\ escrow[b] = "LOCKED"

CheckPayment(w, b) ==
  /\ On(w, "checkPayment", b)
  /\ Goto(w, IF Payable(b) THEN "checkHelper" ELSE "revert")
  /\ JobOnly

\* The helper's account is ready, is still being registered, or is missing.
CheckHelper(w, b) ==
  /\ On(w, "checkHelper", b)
  /\ \E next \in {"callApi", "notReady", "unpayable"} : Goto(w, next)
  /\ JobOnly

\* Sent with an idempotency key: another call for the booking finds the same payout.
CallApi(w, b) ==
  /\ On(w, "callApi", b)
  /\ transfer' = [transfer EXCEPT ![b] = IF @ = "none" THEN "queued" ELSE @]
  /\ Goto(w, "storeId")
  /\ UNCHANGED <<bookingSide, payoutStatus, escrow, ledger, payoutId, retryCount, old,
                 markedPaid, freed>>

StoreId(w, b) ==
  /\ On(w, "storeId", b)
  /\ payoutId' = [payoutId EXCEPT ![b] = TRUE]
  /\ Done(w) \/ Catch(w, job[w].locked)   \* committed, and the answer may be lost
  /\ UNCHANGED <<bookingSide, payoutStatus, escrow, ledger, retryCount, transfer, old,
                 markedPaid, freed>>

\* An error of any statement inside the try, the lock's among them: the catch does
\* not know whether the job had the lock.  A call that failed may have reached
\* RazorpayX: that is CallApi followed by this step.
Throw(w, b) ==
  /\ \E stage \in {"lock", "checkPayment", "checkHelper", "callApi", "storeId", "notReady",
                   "unpayable"} : On(w, stage, b)
  /\ Catch(w, job[w].locked)
  /\ JobOnly

\* The reverts after the payment's checks have a catch of their own that only logs.
Revert(w, b) == On(w, "revert", b) /\ StatusOnly(b, "PENDING") /\ Done(w)

\* The other two writes may be committed, lose their answer, and be caught.
RevertNotReady(w, b) ==
  /\ On(w, "notReady", b)
  /\ StatusOnly(b, "PENDING")
  /\ Done(w) \/ Catch(w, FALSE)

FailUnpayable(w, b) ==
  /\ On(w, "unpayable", b)
  /\ StatusOnly(b, "FAILED")
  /\ Done(w) \/ Catch(w, job[w].locked)

\* What the catch writes, by id.
Fail(w, b) == On(w, "fail", b) /\ StatusOnly(b, "FAILED") /\ Done(w)

ScheduleRetry(w, b) ==
  /\ On(w, "retry", b)
  /\ SetPayout(b, "PENDING")
  /\ retryCount' = [retryCount EXCEPT ![b] = job[w].tries + 1]
  /\ freed' = [freed EXCEPT ![b] = @ \/ ~job[w].locked]
  /\ Done(w)
  /\ UNCHANGED <<bookingSide, escrow, ledger, payoutId, transfer, old, markedPaid>>

(***************************************************************************)
(* RazorpayX and its webhook.  The webhook is answered before it is        *)
(* handled, so a delivery that finds no booking is not sent again.         *)
(***************************************************************************)

Settle(b) ==
  /\ transfer[b] = "queued"
  /\ \E s \in {"processed", "failed"} : transfer' = [transfer EXCEPT ![b] = s]
  /\ UNCHANGED <<bookingSide, payoutStatus, escrow, ledger, payoutId, retryCount, old,
                 markedPaid, freed, job>>

PayoutWebhookRead(w, b) ==
  /\ payoutId[b]
  /\ payoutStatus[b] = "PROCESSING"
  /\ \/ transfer[b] = "processed" /\ Take(w, "webhookPaid", b)
     \/ transfer[b] = "failed" /\ Take(w, "webhookFailed", b)
  /\ JobOnly

\* The status is not looked at again.  A second DEBIT row aborts the transaction.
PayoutWebhookPaid(w, b) ==
  /\ On(w, "webhookPaid", b)
  /\ "HELPER_PAYOUT_DEBIT" \notin ledger[b]
  /\ SetPayout(b, "PAID")
  /\ ReleaseEscrow(b)
  /\ ledger' = [ledger EXCEPT ![b] = @ \cup {"HELPER_PAYOUT_DEBIT"}]
  /\ Done(w)
  /\ UNCHANGED <<bookingSide, payoutId, retryCount, transfer, old, markedPaid, freed>>

PayoutWebhookFailed(w, b) ==
  On(w, "webhookFailed", b) /\ StatusOnly(b, "FAILED") /\ Done(w)

(***************************************************************************)
(* The reconciliation: read the rows, ask RazorpayX, write.                *)
(***************************************************************************)

\* Mutant of ReconcileSelect: failed payouts are not looked at again.
ReconcileSelectProcessing(w, b) ==
  /\ payoutStatus[b] = "PROCESSING"
  /\ payoutId[b]
  /\ ~old[b]
  /\ Take(w, "fetch", b)
  /\ JobOnly

ReconcileSelect(w, b) ==
  /\ payoutStatus[b] \in {"PROCESSING", "FAILED"}
  /\ payoutId[b]
  /\ ~old[b]
  /\ Take(w, "fetch", b)
  /\ JobOnly

\* Mutant of ReconcileFetch: a payout that is not failed is taken as paid.
ReconcileFetchOptimistic(w, b) ==
  /\ On(w, "fetch", b)
  /\ \/ transfer[b] \in {"queued", "processed"} /\ Goto(w, "reconcilePaid")
     \/ transfer[b] = "failed" /\ Goto(w, "reconcileFailed")
  /\ JobOnly

ReconcileFetch(w, b) ==
  /\ On(w, "fetch", b)
  /\ \/ transfer[b] = "processed" /\ Goto(w, "reconcilePaid")
     \/ transfer[b] = "failed" /\ Goto(w, "reconcileFailed")
     \/ transfer[b] = "queued" /\ Done(w)
  /\ JobOnly

\* No ledger entry here.
ReconcilePaid(w, b) ==
  /\ On(w, "reconcilePaid", b)
  /\ SetPayout(b, "PAID")
  /\ ReleaseEscrow(b)
  /\ Done(w)
  /\ UNCHANGED <<bookingSide, ledger, payoutId, retryCount, transfer, old, markedPaid, freed>>

ReconcileFailed(w, b) ==
  On(w, "reconcileFailed", b) /\ StatusOnly(b, "FAILED") /\ Done(w)

(***************************************************************************)
(* The administrator pays by hand and records it.                          *)
(***************************************************************************)

MarkPaidRead(w, b) ==
  /\ status[b] = "COMPLETED"
  /\ payoutStatus[b] = "PENDING"
  /\ Take(w, "markCheck", b)
  /\ JobOnly

MarkPaidCheck(w, b) ==
  /\ On(w, "markCheck", b)
  /\ Payable(b)
  /\ Goto(w, "markPaid")
  /\ JobOnly

MarkPaidWrite(w, b) ==
  /\ On(w, "markPaid", b)
  /\ SetPayout(b, "PAID")
  /\ ReleaseEscrow(b)
  /\ markedPaid' = [markedPaid EXCEPT ![b] = TRUE]
  /\ Done(w)
  /\ UNCHANGED <<bookingSide, ledger, payoutId, retryCount, transfer, old, freed>>

\* The seven days of LOOKBACK_DAYS count from the creation of the booking, which may
\* be long before its job: they may be over before the payout begins, and are taken
\* as over when the reconciliation would read the row for the first time since.
LookbackEnds(b) ==
  /\ payoutId[b]
  /\ payoutStatus[b] \in {"PROCESSING", "FAILED"}
  /\ ~old[b]
  /\ old' = [old EXCEPT ![b] = TRUE]
  /\ UNCHANGED <<bookingSide, payoutStatus, escrow, ledger, payoutId, retryCount, transfer,
                 markedPaid, freed, job>>

\* The process stops, or a write cannot be made: the job is not taken up again.
JobDies(w) == job[w] # NoJob /\ Done(w) /\ JobOnly

-----------------------------------------------------------------------------
PayoutCron(w, b) ==
  \/ SelectPayout(w, b) \/ LockPayout(w, b) \/ CheckPayment(w, b) \/ CheckHelper(w, b)
  \/ CallApi(w, b) \/ StoreId(w, b) \/ Throw(w, b)
  \/ Revert(w, b) \/ RevertNotReady(w, b) \/ FailUnpayable(w, b)
  \/ Fail(w, b) \/ ScheduleRetry(w, b)

PayoutWebhook(w, b) ==
  PayoutWebhookRead(w, b) \/ PayoutWebhookPaid(w, b) \/ PayoutWebhookFailed(w, b)

Reconcile(w, b) ==
  \/ ReconcileSelect(w, b) \/ ReconcileFetch(w, b)
  \/ ReconcilePaid(w, b) \/ ReconcileFailed(w, b)

MarkPaid(w, b) == MarkPaidRead(w, b) \/ MarkPaidCheck(w, b) \/ MarkPaidWrite(w, b)

PayoutNext ==
  \/ \E w \in Worker, b \in Booking :
       PayoutCron(w, b) \/ PayoutWebhook(w, b) \/ Reconcile(w, b) \/ MarkPaid(w, b)
  \/ \E w \in Worker : JobDies(w)
  \/ \E b \in Booking : Settle(b) \/ LookbackEnds(b)
=============================================================================
