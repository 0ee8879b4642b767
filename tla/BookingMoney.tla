------------------------------ MODULE BookingMoney ------------------------------
(***************************************************************************)
(* The life of a booking and its payment together with the payout of its   *)
(* helper: the two meet in payoutStatus, escrowStatus and the ledger.      *)
(***************************************************************************)
EXTENDS BookingPayment, Payout

mvars == <<vars, payoutVars>>

MoneyInit == Init /\ PayoutInit

MoneyNext ==
  \/ Next /\ UNCHANGED payoutVars
  \/ PayoutNext

MoneySpec == MoneyInit /\ [][MoneyNext]_mvars

\* The rows as the webhook, the helper and completeBooking leave them, nothing in
\* flight: where the payout of a booking begins.
CompletedInit ==
  /\ status = [b \in Booking |-> "COMPLETED"]
  /\ payoutStatus = [b \in Booking |-> "PENDING"]
  /\ payment = [b \in Booking |-> "CAPTURED"]
  /\ escrow = [b \in Booking |-> "LOCKED"]
  /\ order = [b \in Booking |-> TRUE]
  /\ ledger = [b \in Booking |-> CaptureEntries \cup {"HELPER_PAYOUT_CREDIT"}]
  /\ charged = [b \in Booking |-> TRUE]
  /\ due = [b \in Booking |-> {}]
  /\ call = [h \in Handler |-> Idle]
  /\ PayoutInit

\* Every job moves on or dies, RazorpayX settles what it has queued, and the two
\* cron jobs, started again every five minutes and every night, are not killed at
\* the same place for ever.  That the reconciliation reads a booking is assumed only
\* for as long as its WHERE lets it: once the seven days are over it never does, and
\* nothing says that they last until it has.
JobMoves(w) == PayoutNext /\ job[w] # NoJob /\ job'[w] # job[w]

PayoutFairness ==
  /\ \A w \in Worker : WF_mvars(JobMoves(w))
  /\ \A b \in Booking :
       /\ WF_mvars(Settle(b))
       /\ SF_mvars(\E w \in Worker : SelectPayout(w, b))
       /\ SF_mvars(\E w \in Worker : LockPayout(w, b))
       /\ SF_mvars(\E w \in Worker : ReconcileSelect(w, b))
       /\ SF_mvars(\E w \in Worker : ReconcileFetch(w, b))
       /\ SF_mvars(\E w \in Worker : ReconcilePaid(w, b))

FairPayoutSpec == CompletedInit /\ [][MoneyNext]_mvars /\ PayoutFairness

(***************************************************************************)
(* Properties                                                              *)
(***************************************************************************)

\* The rows of the booking and of the payout, and the calls in flight, keep their types.
MoneyTypeOK == TypeOK /\ PayoutTypeOK

\* Money leaves for a helper, and escrow is released, only for a job that was
\* completed: whatever has become of the booking since the payout job selected it.
PayoutNeedsCompletedJob ==
  \A b \in Booking :
    transfer[b] # "none" \/ escrow[b] = "RELEASED" => "HELPER_PAYOUT_CREDIT" \in ledger[b]

\* PAID and the ledger's DEBIT say that the helper has the money: RazorpayX
\* processed the payout, or for PAID an administrator said so; and a refund takes
\* back from a helper only what the helper was paid.
PaidMeansPaid ==
  \A b \in Booking :
    /\ payoutStatus[b] = "PAID" => transfer[b] = "processed" \/ markedPaid[b]
    /\ "HELPER_PAYOUT_DEBIT" \in ledger[b] => transfer[b] = "processed"
    /\ "PAYOUT_REVERSAL" \in ledger[b] => transfer[b] = "processed" \/ markedPaid[b]

\* The lock: between being told of it and giving it up, no second cron job works on
\* the booking, whatever the webhook, the reconciliation, other runs and failed
\* statements write meanwhile.  Two things break it, and nothing else does: an
\* administrator who marks the payout, and the catch of a job whose lock failed or
\* whose answer was lost, which writes PENDING by id over a lock that may be another's
\* (payout.service.ts:389, where the lock of line 163 is inside the try).
Working(w, b) ==
  \E stage \in {"checkPayment", "checkHelper", "callApi", "storeId"} : On(w, stage, b)

OnePayoutJob ==
  \A b \in Booking : \A v, w \in Worker :
    Working(v, b) /\ Working(w, b) /\ v # w => markedPaid[b] \/ freed[b]

\* Money that RazorpayX has sent under a payout id the booking knows is recorded as
\* PAID in the end, unless the booking is cancelled or its seven days end first: the
\* reconciliation repairs what lost webhooks, overwritten states and dead jobs leave
\* behind, and after the seven days nothing does but a webhook that is still to come.
SentMoneyIsRecorded ==
  \A b \in Booking :
    payoutId[b] /\ transfer[b] = "processed"
      ~> payoutStatus[b] = "PAID" \/ status[b] = "CANCELLED" \/ old[b]
=============================================================================
