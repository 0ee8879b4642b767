----------------------------- MODULE BookingPayment -----------------------------
(***************************************************************************)
(* A booking from the moment a helper has accepted it until it is          *)
(* completed or cancelled, with its payment: the customer's requests, the  *)
(* Razorpay webhook, the helper's requests, the administrator's requests   *)
(* and the four cron sweeps, interleaved at every read and every write.    *)
(***************************************************************************)
EXTENDS BookingStore

(***************************************************************************)
(* Writes the handlers share.                                              *)
(***************************************************************************)

\* UPDATE payment WHERE status = CREATED, then UPDATE booking WHERE status =
\* PENDING_PAYMENT; either of them finding no row leaves everything as it was.
Capturable(b) == payment[b] = "CREATED" /\ status[b] = "PENDING_PAYMENT"

CaptureRows(b) ==
  /\ payment' = [payment EXCEPT ![b] = "CAPTURED"]
  /\ escrow' = [escrow EXCEPT ![b] = "LOCKED"]
  /\ status' = [status EXCEPT ![b] = "CONFIRMED"]

FailRow(b) ==
  /\ payment' = [payment EXCEPT ![b] = "FAILED"]
  /\ UNCHANGED <<status, payoutStatus, escrow, order, ledger>>

\* Mutant of CancelRow: a status of the enum that no reader expects.
CancelRowAsNoShow(b) == status' = [status EXCEPT ![b] = "NO_SHOW"]

CancelRow(b) == status' = [status EXCEPT ![b] = "CANCELLED"]

RefundRow(b) ==
  /\ payment' = [payment EXCEPT ![b] = "REFUNDED"]
  /\ escrow' = [escrow EXCEPT ![b] = "REFUNDED"]

(***************************************************************************)
(* The customer pays: create an order, initiate, pay at Razorpay, verify.  *)
(***************************************************************************)

CreateOrder(h, b) ==
  /\ status[b] = "PENDING_PAYMENT"
  /\ ~order[b]
  /\ Begin(h, "saveOrder", b)

\* Only while the order id is still null; the loser of a race returns the
\* winner's order.
SaveOrder(h, b) ==
  /\ At(h, "saveOrder", b)
  /\ order' = [order EXCEPT ![b] = TRUE]
  /\ UNCHANGED <<status, payoutStatus, payment, escrow, ledger>>
  /\ Reply(h)

InitiateReadBooking(h, b) ==
  /\ status[b] = "PENDING_PAYMENT"
  /\ Begin(h, "initiatePayment", b)

InitiateReadPayment(h, b) ==
  /\ At(h, "initiatePayment", b)
  /\ payment[b] # "CAPTURED"
  /\ Proceed(h, "resetPayment", b)

InitiateReset(h, b) ==
  /\ At(h, "resetPayment", b)
  /\ payment' = [payment EXCEPT ![b] = "CREATED"]
  /\ UNCHANGED <<status, payoutStatus, escrow, order, ledger>>
  /\ Reply(h)

\* Razorpay's checkout knows the order, not the state of the booking.
CustomerPays(b) ==
  /\ order[b]
  /\ ~charged[b]
  /\ charged' = [charged EXCEPT ![b] = TRUE]
  /\ UNCHANGED <<rows, due, call>>

\* The handler takes the app's word: it looks at whose booking it is and at the two
\* states, and at nothing that comes from Razorpay, so it may be called before any
\* money was taken.
VerifyReadPayment(h, b) ==
  /\ payment[b] # "CAPTURED"
  /\ Begin(h, "verifyPayment", b)

VerifyReadBooking(h, b) ==
  /\ At(h, "verifyPayment", b)
  /\ Proceed(h, IF status[b] = "PENDING_PAYMENT" THEN "verifyCapture" ELSE "verifyFail", b)

VerifyCapture(h, b) ==
  /\ At(h, "verifyCapture", b)
  /\ \/ Capturable(b) /\ CaptureRows(b) /\ UNCHANGED <<payoutStatus, order, ledger>>
     \/ ~Capturable(b) /\ UNCHANGED rows
  /\ Reply(h)

VerifyFail(h, b) ==
  /\ At(h, "verifyFail", b)
  /\ FailRow(b)
  /\ Reply(h)

(***************************************************************************)
(* The payment.captured webhook.  Razorpay may deliver it any number of    *)
(* times: after an answer that was lost, and after every error answer.     *)
(***************************************************************************)

\* What the webhook books: the money, its lock, and the commission.
CaptureEntries == {"PAYMENT_CAPTURED", "ESCROW_LOCK", "COMMISSION_EARNED"}

\* A delivery is signed by Razorpay, so there is one only for money it has taken.
WebhookRead(h, b) ==
  /\ charged[b]
  /\ payment[b] # "CAPTURED"
  /\ Begin(h, IF status[b] = "PENDING_PAYMENT" THEN "webhookCapture" ELSE "webhookFail", b)

WebhookCapture(h, b) ==
  /\ At(h, "webhookCapture", b)
  /\ \/ /\ Capturable(b)
        /\ CaptureRows(b)
        /\ ledger' = [ledger EXCEPT ![b] = @ \cup CaptureEntries]
        /\ UNCHANGED <<payoutStatus, order>>
     \/ ~Capturable(b) /\ UNCHANGED rows
  /\ Reply(h)

WebhookFail(h, b) ==
  /\ At(h, "webhookFail", b)
  /\ FailRow(b)
  /\ Reply(h)

(***************************************************************************)
(* The customer cancels.                                                   *)
(***************************************************************************)

CustomerCancelRead(h, b) ==
  /\ status[b] \notin {"IN_PROGRESS", "COMPLETED"}
  /\ payment[b] # "CAPTURED"
  /\ Begin(h, "customerCancel", b)

\* By id alone: neither the status nor the payment is looked at again.
CustomerCancelWrite(h, b) ==
  /\ At(h, "customerCancel", b)
  /\ CancelRow(b)
  /\ UNCHANGED <<payoutStatus, paymentRow, ledger>>
  /\ Reply(h)

(***************************************************************************)
(* The helper starts the job with the customer's OTP and completes it.     *)
(***************************************************************************)

StartRead(h, b) == status[b] = "CONFIRMED" /\ Begin(h, "startJob", b)

\* Mutant of StartWrite: an update by id.
StartWriteById(h, b) ==
  /\ At(h, "startJob", b)
  /\ status' = [status EXCEPT ![b] = "IN_PROGRESS"]
  /\ UNCHANGED <<payoutStatus, paymentRow, ledger>>
  /\ Reply(h)

StartWrite(h, b) ==
  /\ At(h, "startJob", b)
  /\ status[b] = "CONFIRMED"
  /\ status' = [status EXCEPT ![b] = "IN_PROGRESS"]
  /\ UNCHANGED <<payoutStatus, paymentRow, ledger>>
  /\ Reply(h)

CompleteRead(h, b) == status[b] = "IN_PROGRESS" /\ Begin(h, "complete", b)

CompleteWrite(h, b) ==
  /\ At(h, "complete", b)
  /\ status[b] = "IN_PROGRESS"
  /\ status' = [status EXCEPT ![b] = "COMPLETED"]
  /\ payoutStatus' = [payoutStatus EXCEPT ![b] = "PENDING"]
  /\ ledger' = [ledger EXCEPT ![b] = @ \cup {"HELPER_PAYOUT_CREDIT"}]
  /\ UNCHANGED paymentRow
  /\ Reply(h)

(***************************************************************************)
(* The administrator cancels, or refunds a payment.                        *)
(***************************************************************************)

\* The stage holds whether the payment was captured when it was read.
AdminCancelRead(h, b) ==
  /\ status[b] \notin {"CANCELLED", "COMPLETED"}
  /\ Begin(h, IF payment[b] = "CAPTURED" THEN "adminRefund" ELSE "adminCancel", b)

\* Mutant of AdminCancelGuard: no WHERE on the status.
AdminCancelUnguarded(b) == b \in Booking

AdminCancelGuard(b) == status[b] # "CANCELLED"

AdminCancelWrite(h, b) ==
  /\ At(h, "adminCancel", b)
  /\ AdminCancelGuard(b)
  /\ CancelRow(b)
  /\ UNCHANGED <<payoutStatus, paymentRow, ledger>>
  /\ Reply(h)

AdminRefundWrite(h, b) ==
  /\ At(h, "adminRefund", b)
  /\ AdminCancelGuard(b)
  /\ CancelRow(b)
  /\ RefundRow(b)
  /\ UNCHANGED <<payoutStatus, order, ledger>>
  /\ Reply(h)

\* The stage holds whether the helper had been paid when the booking was read.
RefundRead(h, b) ==
  /\ payment[b] = "CAPTURED"
  /\ Begin(h, IF payoutStatus[b] = "PAID" THEN "refundPaid" ELSE "refund", b)

\* A second REFUND_ISSUED row for the payment aborts the whole transaction.
RefundWrite(h, b) ==
  /\ \/ At(h, "refund", b) /\ ledger' = [ledger EXCEPT ![b] = @ \cup {"REFUND_ISSUED"}]
     \/ At(h, "refundPaid", b)
        /\ ledger' = [ledger EXCEPT ![b] = @ \cup {"REFUND_ISSUED", "PAYOUT_REVERSAL"}]
  /\ "REFUND_ISSUED" \notin ledger[b]
  /\ payment' = [payment EXCEPT ![b] = "REFUNDED"]
  /\ CancelRow(b)
  /\ UNCHANGED <<payoutStatus, escrow, order>>
  /\ Reply(h)

(***************************************************************************)
(* The cron sweeps.  A sweep is modelled per booking of its snapshot.      *)
(***************************************************************************)

ExpireRead(h, b) ==
  /\ status[b] = "PENDING_PAYMENT"
  /\ "payment" \in due[b]
  /\ Begin(h, "expire", b)

\* The booking is cancelled only if it still awaits payment; the payment is
\* failed in either case.
ExpireWrite(h, b) ==
  /\ At(h, "expire", b)
  /\ payment' = [payment EXCEPT ![b] = "FAILED"]
  /\ \/ status[b] = "PENDING_PAYMENT" /\ CancelRow(b)
     \/ status[b] # "PENDING_PAYMENT" /\ UNCHANGED status
  /\ UNCHANGED <<payoutStatus, escrow, order, ledger>>
  /\ Reply(h)

\* The WHERE of the two sweeps over confirmed bookings.
StillConfirmed(b) == status[b] = "CONFIRMED"

InactiveRead(h, b) ==
  /\ status[b] = "CONFIRMED"
  /\ "grace" \in due[b]
  /\ Begin(h, "inactive", b)

\* Mutant of InactiveWrite: only the booking's update is guarded, as in the expiry
\* sweep.
InactiveWriteLoose(h, b) ==
  /\ At(h, "inactive", b)
  /\ status' = [status EXCEPT ![b] = IF StillConfirmed(b) THEN "CANCELLED" ELSE @]
  /\ RefundRow(b)
  /\ UNCHANGED <<payoutStatus, order, ledger>>
  /\ Reply(h)

InactiveWrite(h, b) ==
  /\ At(h, "inactive", b)
  /\ StillConfirmed(b)
  /\ CancelRow(b)
  /\ RefundRow(b)
  /\ UNCHANGED <<payoutStatus, order, ledger>>
  /\ Reply(h)

\* Mutant of NoShowRead: captured payments are not skipped.
NoShowReadAll(h, b) ==
  /\ status[b] = "CONFIRMED"
  /\ "noShow" \in due[b]
  /\ Begin(h, "noShow", b)

\* Bookings whose payment is captured are skipped.
NoShowRead(h, b) ==
  /\ status[b] = "CONFIRMED"
  /\ "noShow" \in due[b]
  /\ payment[b] # "CAPTURED"
  /\ Begin(h, "noShow", b)

\* Mutant of NoShowWrite: the payment is refunded whatever the booking's update found.
NoShowWriteLoose(h, b) ==
  /\ At(h, "noShow", b)
  /\ status' = [status EXCEPT ![b] = IF StillConfirmed(b) THEN "CANCELLED" ELSE @]
  /\ payment' = [payment EXCEPT ![b] = "REFUNDED"]
  /\ UNCHANGED <<payoutStatus, escrow, order, ledger>>
  /\ Reply(h)

NoShowWrite(h, b) ==
  /\ At(h, "noShow", b)
  /\ StillConfirmed(b)
  /\ CancelRow(b)
  /\ payment' = [payment EXCEPT ![b] = "REFUNDED"]
  /\ UNCHANGED <<payoutStatus, escrow, order, ledger>>
  /\ Reply(h)

\* Mutant of StaleRead: captured payments are skipped, as in the no-show sweep.
StaleReadUncaptured(h, b) ==
  /\ status[b] = "IN_PROGRESS"
  /\ "job" \in due[b]
  /\ payment[b] # "CAPTURED"
  /\ Begin(h, "stale", b)

StaleRead(h, b) ==
  /\ status[b] = "IN_PROGRESS"
  /\ "job" \in due[b]
  /\ Begin(h, IF payment[b] = "CAPTURED" /\ escrow[b] = "LOCKED"
              THEN "staleRefund" ELSE "stale", b)

StillInProgress(b) == status[b] = "IN_PROGRESS"

StaleWrite(h, b) ==
  /\ \/ At(h, "stale", b) /\ UNCHANGED paymentRow
     \/ At(h, "staleRefund", b) /\ RefundRow(b) /\ UNCHANGED order
  /\ StillInProgress(b)
  /\ CancelRow(b)
  /\ UNCHANGED <<payoutStatus, ledger>>
  /\ Reply(h)

-----------------------------------------------------------------------------
Customer(h, b) ==
  \/ CreateOrder(h, b) \/ SaveOrder(h, b)
  \/ InitiateReadBooking(h, b) \/ InitiateReadPayment(h, b) \/ InitiateReset(h, b)
  \/ VerifyReadPayment(h, b) \/ VerifyReadBooking(h, b)
  \/ VerifyCapture(h, b) \/ VerifyFail(h, b)
  \/ CustomerCancelRead(h, b) \/ CustomerCancelWrite(h, b)

Webhook(h, b) == WebhookRead(h, b) \/ WebhookCapture(h, b) \/ WebhookFail(h, b)

Helper(h, b) ==
  \/ StartRead(h, b) \/ StartWrite(h, b) \/ CompleteRead(h, b) \/ CompleteWrite(h, b)

Admin(h, b) ==
  \/ AdminCancelRead(h, b) \/ AdminCancelWrite(h, b) \/ AdminRefundWrite(h, b)
  \/ RefundRead(h, b) \/ RefundWrite(h, b)

Cron(h, b) ==
  \/ ExpireRead(h, b) \/ ExpireWrite(h, b) \/ InactiveRead(h, b) \/ InactiveWrite(h, b)
  \/ NoShowRead(h, b) \/ NoShowWrite(h, b) \/ StaleRead(h, b) \/ StaleWrite(h, b)

Environment ==
  \/ \E h \in Handler : CallDies(h)
  \/ \E b \in Booking : CustomerPays(b)
  \/ \E b \in Booking, d \in Deadline : TimePasses(b, d)

Next ==
  \/ \E h \in Handler, b \in Booking :
       Customer(h, b) \/ Webhook(h, b) \/ Helper(h, b) \/ Admin(h, b) \/ Cron(h, b)
  \/ Environment

Spec == Init /\ [][Next]_vars

\* Every call ends (it answers or it dies), every deadline passes, and each cron
\* sweep, started again every few seconds or minutes, is not killed for ever.
CallEnds(h) == Next /\ call[h] # Idle /\ call'[h] # call[h]

Fairness ==
  /\ \A h \in Handler : WF_vars(CallEnds(h))
  /\ \A b \in Booking : \A d \in Deadline : WF_vars(TimePasses(b, d))
  /\ \A b \in Booking :
       /\ SF_vars(\E h \in Handler : ExpireRead(h, b))
       /\ SF_vars(\E h \in Handler : ExpireWrite(h, b))
       /\ SF_vars(\E h \in Handler : InactiveRead(h, b))
       /\ SF_vars(\E h \in Handler : InactiveWrite(h, b))
       /\ SF_vars(\E h \in Handler : StaleRead(h, b))
       /\ SF_vars(\E h \in Handler : StaleWrite(h, b))

FairSpec == Spec /\ Fairness

(***************************************************************************)
(* Properties                                                              *)
(***************************************************************************)

\* While a job is booked or worked on its payment's row has the escrow LOCKED, and
\* for a completed job LOCKED or RELEASED: no sweep, cancellation or refund that
\* lost its race touches the escrow of a job that goes on (the guarded updates of
\* the cron services and of the capture).  It is about what the row says: a
\* capture by verifyPayment locks it without any money having come.
LiveJobHoldsEscrow ==
  \A b \in Booking :
    /\ status[b] \in {"CONFIRMED", "IN_PROGRESS"} => escrow[b] = "LOCKED"
    /\ status[b] = "COMPLETED" => escrow[b] \in {"LOCKED", "RELEASED"}

\* A payment is REFUNDED only for a booking that is CANCELLED, whichever of the
\* five handlers that refund ran and whatever it had read before.
RefundOnlyWhenCancelled ==
  \A b \in Booking : payment[b] = "REFUNDED" => status[b] = "CANCELLED"

\* The ledger, which no handler reads back, agrees with the rows and with Razorpay:
\* money is booked as received only if Razorpay took it and the escrow was locked
\* for it, whoever captured first, earnings only for a job that was completed, and
\* a payment booked as refunded is never CAPTURED again, by whatever mix of
\* webhook, verification and re-initiation follows.
LedgerMatchesRows ==
  \A b \in Booking :
    /\ ledger[b] \cap CaptureEntries # {} => charged[b] /\ escrow[b] # "PENDING"
    /\ "HELPER_PAYOUT_CREDIT" \in ledger[b] => status[b] \in {"COMPLETED", "CANCELLED"}
    /\ "REFUND_ISSUED" \in ledger[b] => status[b] = "CANCELLED" /\ payment[b] # "CAPTURED"

\* The no-show sweep, which skips captured payments by what it read before its
\* transaction, never cancels a booking whose payment is captured: a payment that
\* left CAPTURED while its booking stayed confirmed does not come back to it.
NoShowSparesCaptured ==
  [][\A h \in Handler, b \in Booking : NoShowWrite(h, b) => payment[b] # "CAPTURED"]_vars

PhaseOf == [PENDING_PAYMENT |-> "unpaid", CONFIRMED |-> "booked", IN_PROGRESS |-> "working",
            COMPLETED |-> "done", CANCELLED |-> "closed"]
FundsOf == [PENDING |-> "none", LOCKED |-> "held", REFUNDED |-> "returned",
            RELEASED |-> "released"]

phaseBar == [b \in Booking |-> PhaseOf[status[b]]]
fundsBar == [b \in Booking |-> FundsOf[escrow[b]]]

Contract == INSTANCE BookingContract WITH phase <- phaseBar, funds <- fundsBar

\* The rows implement the contract: the escrow is locked in the step that confirms
\* and in no other, returned only in the step that cancels, and CANCELLED is final.
ImplementsContract == Contract!Spec

\* No booking stays open: the sweeps close whatever the customer, the helper and
\* the webhook leave behind, through any crash of any call.
EveryBookingEnds == \A b \in Booking : <>(status[b] \in {"COMPLETED", "CANCELLED"})
=============================================================================
