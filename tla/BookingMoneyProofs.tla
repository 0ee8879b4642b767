--------------------------- MODULE BookingMoneyProofs ---------------------------
(***************************************************************************)
(* Proofs about BookingMoney, for any sets of bookings, of calls and of    *)
(* payout jobs, and any number of retries.                                 *)
(*                                                                         *)
(* What a job may do to a row rests on what it read before others wrote:   *)
(* MInv adds to IInv what stays true of the booking of a job in flight.    *)
(***************************************************************************)
EXTENDS BookingMoney, BookingPaymentProofs

\* The earnings are booked with the completion, and neither is taken back.
Earned(b) == "HELPER_PAYOUT_CREDIT" \in ledger[b]

CompletedIsEarned == \A b \in Booking : status[b] = "COMPLETED" => Earned(b)

\* Nothing of a payout exists before the job was completed, and what was earned
\* had been paid by the customer.
PayoutIsEarned ==
  \A b \in Booking :
    /\ transfer[b] # "none" \/ payoutId[b] \/ escrow[b] = "RELEASED" => Earned(b)
    /\ Earned(b) => escrow[b] # "PENDING"

\* The stages a job reaches only with the lock it was told of.
LockedStage ==
  {"checkPayment", "checkHelper", "callApi", "storeId", "revert", "notReady", "unpayable"}

\* What a job or a refund read of a booking that no other step can undo.
JobsKnow ==
  \A w \in Worker, b \in Booking :
    job[w] # NoJob /\ job[w].booking = b =>
      /\ Earned(b)
      /\ job[w].stage \in {"webhookPaid", "reconcilePaid"} => transfer[b] = "processed"
      /\ job[w].stage = "retry" => job[w].tries < MaxRetries
      /\ job[w].stage \in LockedStage => job[w].locked
      /\ job[w].stage = "lock" => ~job[w].locked

RefundsKnow ==
  \A h \in Handler, b \in Booking :
    At(h, "refundPaid", b) => transfer[b] = "processed" \/ markedPaid[b]

\* A job holds the lock from being told of it until it has written what becomes of
\* the payout: the stages of Working, and the writes that give the lock up.
HoldingStage == LockedStage \cup {"fail", "retry"}

Holding(w, b) == job[w].stage \in HoldingStage /\ job[w].locked /\ job[w].booking = b

\* While the lock is held nobody can take it, unless an administrator has marked the
\* payout or a job that was not told of its lock has written PENDING: otherwise
\* PENDING comes back only from the job that holds it.
LockIsTaken ==
  \A w \in Worker, b \in Booking :
    Holding(w, b) => payoutStatus[b] # "PENDING" \/ markedPaid[b] \/ freed[b]

OneHolder ==
  \A b \in Booking : \A v, w \in Worker :
    Holding(v, b) /\ Holding(w, b) /\ v # w => markedPaid[b] \/ freed[b]

MInv ==
  /\ IInv
  /\ PayoutTypeOK
  /\ CompletedIsEarned
  /\ PayoutIsEarned
  /\ PaidMeansPaid
  /\ JobsKnow
  /\ RefundsKnow
  /\ LockIsTaken
  /\ OneHolder

\* A booking starts without a payout, and a job without a booking.
LEMMA InitMInv == MoneyInit => MInv
<1> SUFFICES ASSUME MoneyInit PROVE MInv
  OBVIOUS
<1>1. IInv
  BY InitIInv DEF MoneyInit
<1>2. PayoutTypeOK
  BY MaxRetriesAssumption DEF MoneyInit, PayoutInit, PayoutTypeOK
<1>3. CompletedIsEarned /\ PayoutIsEarned /\ PaidMeansPaid
  BY DEF MoneyInit, Init, PayoutInit, CompletedIsEarned, PayoutIsEarned, PaidMeansPaid, Earned
<1>4. JobsKnow /\ RefundsKnow /\ LockIsTaken /\ OneHolder
  BY DEF MoneyInit, Init, PayoutInit, JobsKnow, RefundsKnow, LockIsTaken, OneHolder,
         Holding, HoldingStage, LockedStage, NoJob, At, Idle
<1> QED
  BY <1>1, <1>2, <1>3, <1>4 DEF MInv

(***************************************************************************)
(* What a step of BookingPayment does to what the payout reads.            *)
(***************************************************************************)

\* The ledger only grows, and only a completion and a refund of a paid payout
\* write what the payout reads of it; the escrow is released to nobody; the
\* payout becomes PENDING with the completion alone; a refund learns that the
\* helper was paid from the row.
Harmless ==
  \A b \in Booking :
    /\ ledger[b] \subseteq ledger'[b]
    /\ "HELPER_PAYOUT_DEBIT" \in ledger'[b] => "HELPER_PAYOUT_DEBIT" \in ledger[b]
    /\ "PAYOUT_REVERSAL" \in ledger'[b] =>
         "PAYOUT_REVERSAL" \in ledger[b] \/ \E h \in Handler : At(h, "refundPaid", b)
    /\ status'[b] = "COMPLETED" => status[b] = "COMPLETED" \/ Earned(b)'
    /\ Earned(b)' => Earned(b) \/ status'[b] = "COMPLETED"
    /\ escrow'[b] \in {"PENDING", "RELEASED"} => escrow'[b] = escrow[b]
    /\ payoutStatus'[b] # payoutStatus[b] => payoutStatus'[b] = "PENDING" /\ ~Earned(b)
    /\ \A h \in Handler :
         At(h, "refundPaid", b)' => At(h, "refundPaid", b) \/ payoutStatus[b] = "PAID"

\* A step of the customer's handlers is harmless to the payout.
LEMMA CustomerIsHarmless ==
  ASSUME TypeOK, NEW h \in Handler, NEW b \in Booking, Customer(h, b)
  PROVE  Harmless
  BY DEF Customer, CreateOrder, SaveOrder, InitiateReadBooking, InitiateReadPayment,
         InitiateReset, VerifyReadPayment, VerifyReadBooking, VerifyCapture, VerifyFail,
         CustomerCancelRead, CustomerCancelWrite, Capturable, CaptureRows, CancelRow, FailRow,
         Begin, Proceed, Reply, rows, paymentRow, Harmless, Earned, At, Idle, TypeOK

\* A delivery of the payment's webhook is harmless to the payout.
LEMMA WebhookIsHarmless ==
  ASSUME TypeOK, NEW h \in Handler, NEW b \in Booking, Webhook(h, b)
  PROVE  Harmless
  BY DEF Webhook, WebhookRead, WebhookCapture, WebhookFail, Capturable, CaptureRows,
         CaptureEntries, FailRow, Begin, Reply, rows, Harmless, Earned, At, Idle, TypeOK

\* Starting and completing a job: the completion comes once, before any payout.
LEMMA HelperIsHarmless ==
  ASSUME TypeOK, LedgerMatchesRows, NEW h \in Handler, NEW b \in Booking, Helper(h, b)
  PROVE  Harmless
<1> USE DEF Harmless, Earned, At, Idle, TypeOK
<1>1. CASE StartRead(h, b) \/ CompleteRead(h, b)
  BY <1>1 DEF StartRead, CompleteRead, Begin, rows
<1>2. CASE StartWrite(h, b)
  BY <1>2 DEF StartWrite, paymentRow, Reply
<1>3. CASE CompleteWrite(h, b)
  BY <1>3 DEF CompleteWrite, paymentRow, Reply, LedgerMatchesRows
<1> QED
  BY <1>1, <1>2, <1>3 DEF Helper

\* The administrator's cancellation and refund.
LEMMA AdminIsHarmless ==
  ASSUME TypeOK, NEW h \in Handler, NEW b \in Booking, Admin(h, b)
  PROVE  Harmless
<1> USE DEF Harmless, Earned, At, Idle, TypeOK
<1>1. CASE AdminCancelRead(h, b) \/ RefundRead(h, b)
  BY <1>1 DEF AdminCancelRead, RefundRead, Begin, rows
<1>2. CASE AdminCancelWrite(h, b) \/ AdminRefundWrite(h, b)
  BY <1>2 DEF AdminCancelWrite, AdminRefundWrite, CancelRow, RefundRow, paymentRow, Reply
<1>3. CASE RefundWrite(h, b)
  BY <1>3 DEF RefundWrite, CancelRow, Reply
<1> QED
  BY <1>1, <1>2, <1>3 DEF Admin

\* The four sweeps.
LEMMA CronIsHarmless ==
  ASSUME TypeOK, NEW h \in Handler, NEW b \in Booking, Cron(h, b)
  PROVE  Harmless
  BY DEF Cron, ExpireRead, ExpireWrite, InactiveRead, InactiveWrite, NoShowRead, NoShowWrite,
         StaleRead, StaleWrite, StillConfirmed, StillInProgress, CancelRow, RefundRow, Begin,
         Reply, rows, paymentRow, Harmless, Earned, At, Idle, TypeOK

\* Every step of BookingPayment is harmless to the payout.
LEMMA BookingIsHarmless == IInv /\ Next => Harmless
<1> SUFFICES ASSUME IInv, Next PROVE Harmless
  OBVIOUS
<1>1. CASE Environment
  BY <1>1 DEF Environment, CallDies, CustomerPays, TimePasses, Reply, rows, Harmless, Earned,
              At, Idle, IInv, TypeOK
<1> QED
  BY <1>1, CustomerIsHarmless, WebhookIsHarmless, HelperIsHarmless, AdminIsHarmless,
     CronIsHarmless DEF Next, IInv

\* A step of the booking, whatever jobs are in flight beside it, keeps MInv.
LEMMA BookingStep == MInv /\ Next /\ UNCHANGED payoutVars => MInv'
<1> SUFFICES ASSUME MInv, Next, UNCHANGED payoutVars PROVE MInv'
  OBVIOUS
<1> USE DEF MInv, payoutVars
<1>1. Harmless
  BY BookingIsHarmless
<1>2. IInv'
  BY NextIInv
<1>3. PayoutTypeOK'
  BY DEF PayoutTypeOK
<1>4. CompletedIsEarned' /\ PayoutIsEarned'
  BY <1>1, <1>2
  DEF Harmless, Earned, CompletedIsEarned, PayoutIsEarned, IInv, LiveJobHoldsEscrow
<1>5. PaidMeansPaid'
  BY <1>1 DEF Harmless, PaidMeansPaid, RefundsKnow
<1>6. JobsKnow'
  BY <1>1 DEF Harmless, JobsKnow, Earned
<1>7. RefundsKnow'
  BY <1>1 DEF Harmless, RefundsKnow, PaidMeansPaid
<1>8. LockIsTaken' /\ OneHolder'
  BY <1>1 DEF Harmless, LockIsTaken, OneHolder, Holding, HoldingStage, LockedStage, JobsKnow, NoJob
<1> QED
  BY <1>2, <1>3, <1>4, <1>5, <1>6, <1>7, <1>8

(***************************************************************************)
(* The steps of the payout.                                                *)
(***************************************************************************)

\* What a payout step may do to a booking: release the escrow of an earned job,
\* book the disbursement, and set the payout's status.
LEMMA PayoutKeepsBooking ==
  ASSUME IInv,
         UNCHANGED bookingSide,
         payoutStatus' \in [Booking -> PayoutStatus],
         UNCHANGED escrow \/ \E b \in Booking : Earned(b) /\ ReleaseEscrow(b),
         \/ UNCHANGED ledger
         \/ \E b \in Booking : ledger' = [ledger EXCEPT ![b] = @ \cup {"HELPER_PAYOUT_DEBIT"}]
  PROVE  IInv'
<1> USE DEF IInv, bookingSide, TypeOK
<1>1. \A b \in Booking :
        /\ ledger'[b] = ledger[b] \/ ledger'[b] = ledger[b] \cup {"HELPER_PAYOUT_DEBIT"}
        /\ escrow'[b] = escrow[b] \/ (escrow'[b] = "RELEASED" /\ Earned(b))
  BY DEF ReleaseEscrow
<1>2. TypeOK'
  BY DEF ReleaseEscrow, EscrowStatus, Entry
<1>3. LiveJobHoldsEscrow'
  BY <1>1 DEF LiveJobHoldsEscrow, LedgerMatchesRows, Earned
<1>4. RefundOnlyWhenCancelled'
  BY DEF RefundOnlyWhenCancelled
<1>5. LedgerMatchesRows'
  BY <1>1 DEF LedgerMatchesRows, Earned, CaptureEntries
<1>6. EscrowFollowsStatus'
  BY <1>1 DEF EscrowFollowsStatus, LedgerMatchesRows, Earned
<1>7. CallsKnow'
  BY <1>1 DEF CallsKnow, At
<1> QED
  BY <1>2, <1>3, <1>4, <1>5, <1>6, <1>7

\* Whether a job like j holds the lock, and what its stage says it has read.
HoldsAs(j) == j.stage \in HoldingStage /\ j.locked

KnowsOf(j, b) ==
  /\ j.stage \in {"webhookPaid", "reconcilePaid"} => transfer[b] = "processed"
  /\ j.stage = "retry" => j.tries < MaxRetries
  /\ j.stage \in LockedStage => j.locked
  /\ j.stage = "lock" => ~j.locked

\* What a step of a job may do to the rows: of its own booking, send one payout,
\* write its id and its status, and release the escrow; nothing that was sent,
\* marked or freed is taken back.
RowsOf(b) ==
  /\ UNCHANGED bookingSide
  /\ payoutStatus' \in [Booking -> PayoutStatus]
  /\ payoutId' \in [Booking -> BOOLEAN]
  /\ retryCount' \in [Booking -> 0..MaxRetries]
  /\ transfer' \in [Booking -> {"none", "queued", "processed", "failed"}]
  /\ old' \in [Booking -> BOOLEAN]
  /\ markedPaid' \in [Booking -> BOOLEAN]
  /\ freed' \in [Booking -> BOOLEAN]
  /\ UNCHANGED escrow \/ ReleaseEscrow(b)
  /\ \/ UNCHANGED ledger
     \/ /\ ledger' = [ledger EXCEPT ![b] = @ \cup {"HELPER_PAYOUT_DEBIT"}]
        /\ transfer[b] = "processed"
  /\ \A d \in Booking :
       /\ payoutStatus'[d] = payoutStatus[d] \/ d = b
       /\ payoutId'[d] => payoutId[d] \/ d = b
       /\ transfer'[d] = transfer[d] \/ (d = b /\ transfer[d] = "none")
       /\ markedPaid[d] => markedPaid'[d]
       /\ freed[d] => freed'[d]
  /\ payoutStatus'[b] = "PAID" =>
       payoutStatus[b] = "PAID" \/ transfer[b] = "processed" \/ markedPaid'[b]

\* A step that changes nothing but the job.
LEMMA JobOnlyRows ==
  ASSUME MInv, JobOnly, NEW b \in Booking
  PROVE  RowsOf(b) /\ payoutStatus' = payoutStatus
  BY DEF MInv, IInv, TypeOK, PayoutTypeOK, JobOnly, RowsOf

\* A step that writes the payout's status, and not PAID.
LEMMA StatusOnlyRows ==
  ASSUME MInv, NEW b \in Booking, NEW s \in PayoutStatus \ {"PAID"}, StatusOnly(b, s)
  PROVE  RowsOf(b) /\ payoutStatus'[b] = s
  BY DEF MInv, IInv, TypeOK, PayoutTypeOK, StatusOnly, SetPayout, RowsOf

\* What such a step leaves of the rows.
LEMMA RowsKeep ==
  ASSUME MInv, NEW b \in Booking, Earned(b), RowsOf(b)
  PROVE  (IInv /\ CompletedIsEarned /\ PayoutIsEarned /\ PaidMeansPaid /\ RefundsKnow)'
<1> USE DEF MInv, RowsOf
<1>1. \A d \in Booking :
        /\ escrow'[d] = escrow[d] \/ (d = b /\ escrow'[d] = "RELEASED")
        /\ Earned(d)' <=> Earned(d)
        /\ "PAYOUT_REVERSAL" \in ledger'[d] <=> "PAYOUT_REVERSAL" \in ledger[d]
        /\ "HELPER_PAYOUT_DEBIT" \in ledger'[d] =>
             "HELPER_PAYOUT_DEBIT" \in ledger[d] \/ transfer[d] = "processed"
  BY DEF Earned, ReleaseEscrow, IInv, TypeOK
<1>2. IInv'
  BY PayoutKeepsBooking
<1>3. CompletedIsEarned' /\ PayoutIsEarned'
  BY <1>1 DEF CompletedIsEarned, PayoutIsEarned, bookingSide
<1>4. PaidMeansPaid'
  <2>1. \A d \in Booking : transfer[d] = "processed" => transfer'[d] = "processed"
    OBVIOUS
  <2>2. \A d \in Booking :
          payoutStatus'[d] = "PAID" => transfer'[d] = "processed" \/ markedPaid'[d]
    BY <2>1 DEF PaidMeansPaid
  <2> QED
    BY <1>1, <2>1, <2>2 DEF PaidMeansPaid
<1>5. RefundsKnow'
  BY DEF RefundsKnow, bookingSide, At
<1> QED
  BY <1>2, <1>3, <1>4, <1>5

\* A step of a job, or the one that takes it up, keeps MInv, if PENDING is written
\* only by a job that gives the lock up or is recorded as freed, and the lock is
\* taken only of a row that was PENDING and is not any more.
LEMMA JobStepKeeps ==
  ASSUME MInv, NEW w \in Worker, NEW b \in Booking, NEW j \in Job \cup {NoJob},
         Earned(b), RowsOf(b),
         job' = [job EXCEPT ![w] = j],
         job[w] = NoJob \/ job[w].booking = b,
         j = NoJob \/ (j.booking = b /\ KnowsOf(j, b)),
         payoutStatus'[b] = "PENDING" =>
           payoutStatus[b] = "PENDING" \/ (Holding(w, b) /\ ~HoldsAs(j)) \/ freed'[b],
         HoldsAs(j) =>
           Holding(w, b) \/ (payoutStatus[b] = "PENDING" /\ payoutStatus'[b] # "PENDING")
  PROVE  MInv'
<1> USE DEF MInv
<1>1. \A v \in Worker : job'[v] = IF v = w THEN j ELSE job[v]
  BY DEF PayoutTypeOK
<1>2. (IInv /\ CompletedIsEarned /\ PayoutIsEarned /\ PaidMeansPaid /\ RefundsKnow)'
  BY RowsKeep
<1>3. PayoutTypeOK'
  BY DEF PayoutTypeOK, RowsOf
<1>4. \A d \in Booking : Earned(d)' <=> Earned(d)
  BY DEF Earned, RowsOf, IInv, TypeOK
<1>5. JobsKnow'
  BY <1>1, <1>4 DEF JobsKnow, KnowsOf, RowsOf
<1>6. \A v \in Worker, d \in Booking :
        Holding(v, d)' <=> IF v = w THEN HoldsAs(j) /\ d = b ELSE Holding(v, d)
  BY <1>1 DEF Holding, HoldsAs, HoldingStage, LockedStage, NoJob
<1>7. OneHolder'
  BY <1>6 DEF OneHolder, LockIsTaken, RowsOf
<1>8. LockIsTaken'
  BY <1>6 DEF OneHolder, LockIsTaken, RowsOf
<1> QED
  BY <1>2, <1>3, <1>5, <1>7, <1>8

\* A job is taken up: nothing is written, and what it has read is so.
LEMMA TakeKeeps ==
  ASSUME MInv, NEW w \in Worker, NEW b \in Booking, NEW s \in JobStage \ HoldingStage,
         NEW hadId \in BOOLEAN, NEW tries \in 0..MaxRetries,
         TakeReading(w, s, b, hadId, tries), JobOnly, Earned(b),
         s \in {"webhookPaid", "reconcilePaid"} => transfer[b] = "processed"
  PROVE  MInv'
<1> DEFINE j == [stage |-> s, booking |-> b, hadId |-> hadId, tries |-> tries,
                 locked |-> FALSE]
<1>1. j \in Job /\ j # NoJob /\ j.booking = b /\ ~HoldsAs(j) /\ KnowsOf(j, b)
  BY DEF Job, NoJob, HoldsAs, KnowsOf, HoldingStage, LockedStage
<1>2. job[w] = NoJob /\ job' = [job EXCEPT ![w] = j]
  BY DEF TakeReading
<1>3. RowsOf(b) /\ payoutStatus' = payoutStatus
  BY JobOnlyRows
<1> HIDE DEF j
<1> QED
  BY <1>1, <1>2, <1>3, JobStepKeeps

\* The jobs that read nothing of the payout's columns.
LEMMA PlainTakeKeeps ==
  ASSUME MInv, NEW w \in Worker, NEW b \in Booking, NEW s \in JobStage \ HoldingStage,
         Take(w, s, b), JobOnly, Earned(b),
         s \in {"webhookPaid", "reconcilePaid"} => transfer[b] = "processed"
  PROVE  MInv'
<1>1. TakeReading(w, s, b, FALSE, 0)
  BY DEF Take
<1>2. 0 \in 0..MaxRetries
  BY MaxRetriesAssumption
<1> QED
  BY <1>1, <1>2, TakeKeeps

\* A job goes on to another stage: it takes no lock this way.
LEMMA GotoKeeps ==
  ASSUME MInv, NEW w \in Worker, NEW b \in Booking, NEW s \in JobStage,
         job[w] # NoJob, job[w].booking = b, Goto(w, s), RowsOf(b),
         payoutStatus' = payoutStatus,
         s \in HoldingStage => Holding(w, b),
         s \notin {"retry", "lock"},
         s \in {"webhookPaid", "reconcilePaid"} => transfer[b] = "processed"
  PROVE  MInv'
<1> DEFINE j == [job[w] EXCEPT !.stage = s]
<1>1. job[w] \in Job /\ Earned(b)
  BY DEF MInv, PayoutTypeOK, JobsKnow
<1>2. j \in Job /\ j.stage = s /\ j.booking = b /\ j.locked = job[w].locked
  BY <1>1 DEF Job
<1>3. job' = [job EXCEPT ![w] = j]
  BY DEF Goto
<1> HIDE DEF j
<1>4. KnowsOf(j, b) /\ (HoldsAs(j) => Holding(w, b))
  BY <1>2 DEF KnowsOf, HoldsAs, Holding, HoldingStage, LockedStage
<1> QED
  BY <1>1, <1>2, <1>3, <1>4, JobStepKeeps

\* An error is caught: the job holds no more than it held, and nothing after a
\* revert that was committed.
LEMMA CatchKeeps ==
  ASSUME MInv, NEW w \in Worker, NEW b \in Booking, NEW l \in BOOLEAN,
         job[w] # NoJob, job[w].booking = b, job[w].stage \in LockedStage \cup {"lock"},
         Catch(w, l), RowsOf(b), l => job[w].locked,
         payoutStatus'[b] = "PENDING" =>
           payoutStatus[b] = "PENDING" \/ (Holding(w, b) /\ ~l)
  PROVE  MInv'
<1>1. job[w] \in Job /\ Earned(b)
  BY DEF MInv, PayoutTypeOK, JobsKnow
<1>2. PICK next \in {"retry", "fail"} :
        /\ next = "retry" => job[w].tries < MaxRetries
        /\ job' = [job EXCEPT ![w].stage = next, ![w].locked = l]
  BY DEF Catch
<1> DEFINE j == [job[w] EXCEPT !.stage = next, !.locked = l]
<1>3. j \in Job /\ j.stage = next /\ j.booking = b /\ j.locked = l /\ j.tries = job[w].tries
  BY <1>1 DEF Job, JobStage
<1>4. job' = [job EXCEPT ![w] = j]
  BY <1>2 DEF MInv, PayoutTypeOK
<1> HIDE DEF j
<1>5. KnowsOf(j, b) /\ (HoldsAs(j) <=> l)
  BY <1>2, <1>3 DEF KnowsOf, HoldsAs, HoldingStage, LockedStage
<1>6. l => Holding(w, b)
  BY <1>1 DEF Holding, HoldingStage, LockedStage, MInv, JobsKnow, Job
<1> QED
  BY <1>1, <1>3, <1>4, <1>5, <1>6, JobStepKeeps

\* A job ends: what it does not hold any more nobody else holds.
LEMMA EndKeeps ==
  ASSUME MInv, NEW w \in Worker, NEW b \in Booking, job[w] # NoJob, job[w].booking = b,
         Done(w), RowsOf(b),
         payoutStatus'[b] = "PENDING" =>
           payoutStatus[b] = "PENDING" \/ Holding(w, b) \/ freed'[b]
  PROVE  MInv'
<1>1. Earned(b)
  BY DEF MInv, JobsKnow
<1>2. ~HoldsAs(NoJob)
  BY DEF HoldsAs, HoldingStage, LockedStage, NoJob
<1> QED
  BY <1>1, <1>2, JobStepKeeps DEF Done

\* The payout cron: the lock is taken by whoever finds PENDING, and by nobody else
\* until it is given up or freed.
LEMMA CronStepKeeps ==
  ASSUME MInv, NEW w \in Worker, NEW b \in Booking, PayoutCron(w, b)
  PROVE  MInv'
<1> USE DEF MInv
<1>0. \A s \in LockedStage : On(w, s, b) => Holding(w, b) /\ job[w].locked
  BY DEF On, Holding, HoldingStage, LockedStage, JobsKnow, NoJob
<1>1. CASE SelectPayout(w, b)
  BY <1>1, TakeKeeps
  DEF SelectPayout, CompletedIsEarned, JobStage, HoldingStage, LockedStage, PayoutTypeOK
<1>2. CASE LockPayout(w, b)
  <2>1. /\ payoutStatus[b] = "PENDING" /\ payoutStatus'[b] = "PROCESSING" /\ RowsOf(b)
        /\ job[w] # NoJob /\ job[w].booking = b /\ job[w].stage = "lock"
    BY <1>2, StatusOnlyRows DEF LockPayout, LockFree, On, NoJob, PayoutStatus
  <2>2. CASE Done(w)
    BY <2>1, <2>2, EndKeeps
  <2>3. CASE job' = [job EXCEPT ![w].stage = "checkPayment", ![w].locked = TRUE]
    <3> DEFINE j == [job[w] EXCEPT !.stage = "checkPayment", !.locked = TRUE]
    <3>1. job[w] \in Job /\ Earned(b)
      BY <2>1 DEF PayoutTypeOK, JobsKnow
    <3>2. j \in Job /\ j.booking = b /\ j.stage = "checkPayment" /\ j.locked
      BY <2>1, <3>1 DEF Job, JobStage
    <3>3. job' = [job EXCEPT ![w] = j]
      BY <2>3 DEF PayoutTypeOK
    <3> HIDE DEF j
    <3>4. KnowsOf(j, b)
      BY <3>2 DEF KnowsOf
    <3> QED
      BY <2>1, <3>1, <3>2, <3>3, <3>4, JobStepKeeps
  <2>4. CASE Catch(w, FALSE)
    BY <2>1, <2>4, CatchKeeps
  <2> QED
    BY <1>2, <2>2, <2>3, <2>4 DEF LockPayout
<1>3. CASE CheckPayment(w, b)
  <2>1. On(w, "checkPayment", b) /\ RowsOf(b) /\ payoutStatus' = payoutStatus
    BY <1>3, JobOnlyRows DEF CheckPayment
  <2>2. \E s \in {"checkHelper", "revert"} : Goto(w, s)
    BY <1>3 DEF CheckPayment
  <2> QED
    BY <1>0, <2>1, <2>2, GotoKeeps DEF On, NoJob, JobStage, HoldingStage, LockedStage
<1>4. CASE CheckHelper(w, b)
  <2>1. On(w, "checkHelper", b) /\ RowsOf(b) /\ payoutStatus' = payoutStatus
    BY <1>4, JobOnlyRows DEF CheckHelper
  <2>2. \E s \in {"callApi", "notReady", "unpayable"} : Goto(w, s)
    BY <1>4 DEF CheckHelper
  <2> QED
    BY <1>0, <2>1, <2>2, GotoKeeps DEF On, NoJob, JobStage, HoldingStage, LockedStage
<1>5. CASE CallApi(w, b)
  <2>1. RowsOf(b) /\ payoutStatus' = payoutStatus
    BY <1>5 DEF CallApi, RowsOf, PayoutTypeOK, IInv, TypeOK
  <2>2. On(w, "callApi", b) /\ Goto(w, "storeId")
    BY <1>5 DEF CallApi
  <2> QED
    BY <1>0, <2>1, <2>2, GotoKeeps DEF On, NoJob, JobStage, HoldingStage, LockedStage
<1>6. CASE StoreId(w, b)
  <2>1. RowsOf(b) /\ payoutStatus' = payoutStatus
    BY <1>6 DEF StoreId, RowsOf, PayoutTypeOK, IInv, TypeOK
  <2>2. /\ job[w] # NoJob /\ job[w].booking = b /\ job[w].stage \in LockedStage
        /\ job[w].locked
    BY <1>0, <1>6 DEF StoreId, On, NoJob, LockedStage
  <2>3. CASE Done(w)
    BY <2>1, <2>2, <2>3, EndKeeps
  <2>4. CASE Catch(w, job[w].locked)
    BY <2>1, <2>2, <2>4, CatchKeeps
  <2> QED
    BY <1>6, <2>3, <2>4 DEF StoreId
<1>7. CASE Throw(w, b)
  <2>1. RowsOf(b) /\ payoutStatus' = payoutStatus
    BY <1>7, JobOnlyRows DEF Throw
  <2>2. /\ job[w] # NoJob /\ job[w].booking = b /\ job[w].stage \in LockedStage \cup {"lock"}
        /\ Catch(w, job[w].locked)
    BY <1>7 DEF Throw, On, NoJob, LockedStage
  <2>3. job[w].locked \in BOOLEAN
    BY <2>2 DEF PayoutTypeOK, Job
  <2> QED
    BY <2>1, <2>2, <2>3, CatchKeeps
<1>8. CASE Revert(w, b)
  BY <1>0, <1>8, StatusOnlyRows, EndKeeps
  DEF Revert, On, NoJob, PayoutStatus, LockedStage
<1>9. CASE RevertNotReady(w, b)
  <2>1. RowsOf(b)
    BY <1>9, StatusOnlyRows DEF RevertNotReady, PayoutStatus
  <2>2. job[w] # NoJob /\ job[w].booking = b /\ job[w].stage \in LockedStage /\ Holding(w, b)
    BY <1>0, <1>9 DEF RevertNotReady, On, NoJob, LockedStage
  <2>3. CASE Done(w)
    BY <2>1, <2>2, <2>3, EndKeeps
  <2>4. CASE Catch(w, FALSE)
    BY <2>1, <2>2, <2>4, CatchKeeps
  <2> QED
    BY <1>9, <2>3, <2>4 DEF RevertNotReady
<1>10. CASE FailUnpayable(w, b)
  <2>1. RowsOf(b) /\ payoutStatus'[b] = "FAILED"
    BY <1>10, StatusOnlyRows DEF FailUnpayable, PayoutStatus
  <2>2. job[w] # NoJob /\ job[w].booking = b /\ job[w].stage \in LockedStage /\ job[w].locked
    BY <1>0, <1>10 DEF FailUnpayable, On, NoJob, LockedStage
  <2>3. CASE Done(w)
    BY <2>1, <2>2, <2>3, EndKeeps
  <2>4. CASE Catch(w, job[w].locked)
    BY <2>1, <2>2, <2>4, CatchKeeps
  <2> QED
    BY <1>10, <2>3, <2>4 DEF FailUnpayable
<1>11. CASE Fail(w, b)
  BY <1>11, StatusOnlyRows, EndKeeps DEF Fail, On, NoJob, PayoutStatus
<1>12. CASE ScheduleRetry(w, b)
  <2>1. /\ job[w] # NoJob /\ job[w].booking = b /\ job[w].stage = "retry"
        /\ SetPayout(b, "PENDING") /\ Done(w)
        /\ UNCHANGED <<bookingSide, escrow, ledger, payoutId, transfer, old, markedPaid>>
    BY <1>12 DEF ScheduleRetry, On, NoJob
  <2>2. job[w] \in Job /\ job[w].tries < MaxRetries
    BY <2>1 DEF PayoutTypeOK, JobsKnow
  <2>3. retryCount' \in [Booking -> 0..MaxRetries]
    BY <1>12, <2>2, MaxRetriesAssumption DEF ScheduleRetry, PayoutTypeOK, Job
  <2>4. /\ freed' \in [Booking -> BOOLEAN]
        /\ \A d \in Booking : freed[d] => freed'[d]
        /\ freed'[b] = (freed[b] \/ ~job[w].locked)
    BY <1>12, <2>2 DEF ScheduleRetry, PayoutTypeOK, Job
  <2>5. RowsOf(b)
    BY <2>1, <2>3, <2>4 DEF RowsOf, SetPayout, PayoutTypeOK, IInv, TypeOK, PayoutStatus
  <2>6. Holding(w, b) \/ freed'[b]
    BY <2>1, <2>2, <2>4 DEF Holding, HoldingStage, Job
  <2> QED
    BY <2>1, <2>5, <2>6, EndKeeps
<1> QED
  BY <1>1, <1>2, <1>3, <1>4, <1>5, <1>6, <1>7, <1>8, <1>9, <1>10, <1>11, <1>12 DEF PayoutCron

\* The webhook of RazorpayX writes what RazorpayX has done, once.
LEMMA WebhookStepKeeps ==
  ASSUME MInv, NEW w \in Worker, NEW b \in Booking, PayoutWebhook(w, b)
  PROVE  MInv'
<1> USE DEF MInv
<1>1. CASE PayoutWebhookRead(w, b)
  BY <1>1, PlainTakeKeeps
  DEF PayoutWebhookRead, PayoutIsEarned, JobStage, HoldingStage, LockedStage
<1>2. CASE PayoutWebhookPaid(w, b)
  <2>1. /\ job[w] # NoJob /\ job[w].booking = b /\ transfer[b] = "processed"
        /\ SetPayout(b, "PAID") /\ Done(w) /\ ReleaseEscrow(b)
        /\ ledger' = [ledger EXCEPT ![b] = @ \cup {"HELPER_PAYOUT_DEBIT"}]
        /\ UNCHANGED <<bookingSide, payoutId, retryCount, transfer, old, markedPaid, freed>>
    BY <1>2 DEF PayoutWebhookPaid, On, NoJob, JobsKnow
  <2>2. RowsOf(b) /\ payoutStatus'[b] = "PAID"
    BY <2>1 DEF RowsOf, SetPayout, PayoutTypeOK, IInv, TypeOK, PayoutStatus
  <2> QED
    BY <2>1, <2>2, EndKeeps
<1>3. CASE PayoutWebhookFailed(w, b)
  BY <1>3, StatusOnlyRows, EndKeeps DEF PayoutWebhookFailed, On, NoJob, PayoutStatus
<1> QED
  BY <1>1, <1>2, <1>3 DEF PayoutWebhook

\* The reconciliation writes, late, what RazorpayX has done.
LEMMA ReconcileStepKeeps ==
  ASSUME MInv, NEW w \in Worker, NEW b \in Booking, Reconcile(w, b)
  PROVE  MInv'
<1> USE DEF MInv
<1>1. CASE ReconcileSelect(w, b)
  BY <1>1, PlainTakeKeeps
  DEF ReconcileSelect, PayoutIsEarned, JobStage, HoldingStage, LockedStage
<1>2. CASE ReconcileFetch(w, b)
  <2>1. RowsOf(b) /\ payoutStatus' = payoutStatus
    BY <1>2, JobOnlyRows DEF ReconcileFetch
  <2> QED
    BY <1>2, <2>1, GotoKeeps, EndKeeps
    DEF ReconcileFetch, On, NoJob, JobStage, HoldingStage, LockedStage
<1>3. CASE ReconcilePaid(w, b)
  <2>1. /\ job[w] # NoJob /\ job[w].booking = b /\ transfer[b] = "processed"
        /\ SetPayout(b, "PAID") /\ Done(w) /\ ReleaseEscrow(b)
        /\ UNCHANGED <<bookingSide, ledger, payoutId, retryCount, transfer, old, markedPaid,
                       freed>>
    BY <1>3 DEF ReconcilePaid, On, NoJob, JobsKnow
  <2>2. RowsOf(b) /\ payoutStatus'[b] = "PAID"
    BY <2>1 DEF RowsOf, SetPayout, PayoutTypeOK, IInv, TypeOK, PayoutStatus
  <2> QED
    BY <2>1, <2>2, EndKeeps
<1>4. CASE ReconcileFailed(w, b)
  BY <1>4, StatusOnlyRows, EndKeeps DEF ReconcileFailed, On, NoJob, PayoutStatus
<1> QED
  BY <1>1, <1>2, <1>3, <1>4 DEF Reconcile

\* The administrator's mark.
LEMMA MarkStepKeeps ==
  ASSUME MInv, NEW w \in Worker, NEW b \in Booking, MarkPaid(w, b)
  PROVE  MInv'
<1> USE DEF MInv
<1>1. CASE MarkPaidRead(w, b)
  BY <1>1, PlainTakeKeeps
  DEF MarkPaidRead, CompletedIsEarned, JobStage, HoldingStage, LockedStage
<1>2. CASE MarkPaidCheck(w, b)
  <2>1. RowsOf(b) /\ payoutStatus' = payoutStatus
    BY <1>2, JobOnlyRows DEF MarkPaidCheck
  <2> QED
    BY <1>2, <2>1, GotoKeeps DEF MarkPaidCheck, On, NoJob, JobStage, HoldingStage, LockedStage
<1>3. CASE MarkPaidWrite(w, b)
  <2>1. /\ job[w] # NoJob /\ job[w].booking = b
        /\ SetPayout(b, "PAID") /\ Done(w) /\ ReleaseEscrow(b)
        /\ markedPaid' = [markedPaid EXCEPT ![b] = TRUE]
        /\ UNCHANGED <<bookingSide, ledger, payoutId, retryCount, transfer, old, freed>>
    BY <1>3 DEF MarkPaidWrite, On, NoJob
  <2>2. RowsOf(b) /\ payoutStatus'[b] = "PAID"
    BY <2>1 DEF RowsOf, SetPayout, PayoutTypeOK, IInv, TypeOK, PayoutStatus
  <2> QED
    BY <2>1, <2>2, EndKeeps
<1> QED
  BY <1>1, <1>2, <1>3 DEF MarkPaid

\* A job that dies gives nothing up and writes nothing.
LEMMA DeadJobKeeps ==
  ASSUME MInv, NEW w \in Worker, JobDies(w)
  PROVE  MInv'
<1>1. job[w] \in Job
  BY DEF JobDies, MInv, PayoutTypeOK
<1>2. job[w].booking \in Booking
  BY <1>1 DEF Job
<1>3. RowsOf(job[w].booking) /\ payoutStatus' = payoutStatus
  BY <1>2, JobOnlyRows DEF JobDies
<1> QED
  BY <1>2, <1>3, EndKeeps DEF JobDies

\* RazorpayX settles a payout once, and the seven days end.
LEMMA OutsideKeeps ==
  ASSUME MInv, NEW b \in Booking, Settle(b) \/ LookbackEnds(b)
  PROVE  MInv'
<1> USE DEF MInv
<1>1. /\ \A d \in Booking :
           /\ transfer'[d] = transfer[d] \/ (d = b /\ transfer[d] = "queued")
           /\ transfer'[d] # "none" => transfer[d] # "none"
      /\ UNCHANGED <<bookingSide, payoutStatus, escrow, ledger, payoutId, retryCount, markedPaid,
                     freed, job>>
  BY DEF PayoutTypeOK, Settle, LookbackEnds
<1>2. IInv'
  BY <1>1, PayoutKeepsBooking DEF IInv, TypeOK
<1>3. PayoutTypeOK'
  BY DEF PayoutTypeOK, Settle, LookbackEnds
<1>4. (CompletedIsEarned /\ PayoutIsEarned)'
  BY <1>1 DEF CompletedIsEarned, PayoutIsEarned, Earned, bookingSide
<1>5. PaidMeansPaid'
  BY <1>1 DEF PaidMeansPaid
<1>6. JobsKnow' /\ RefundsKnow'
  BY <1>1 DEF JobsKnow, RefundsKnow, Earned, At, bookingSide
<1>7. LockIsTaken' /\ OneHolder'
  BY <1>1 DEF LockIsTaken, OneHolder, Holding
<1> QED
  BY <1>2, <1>3, <1>4, <1>5, <1>6, <1>7

\* Every step of booking and payout, and every stutter, keeps MInv.
LEMMA MoneyNextMInv == MInv /\ [MoneyNext]_mvars => MInv'
<1> SUFFICES ASSUME MInv, [MoneyNext]_mvars PROVE MInv'
  OBVIOUS
<1>1. CASE Next /\ UNCHANGED payoutVars
  BY <1>1, BookingStep
<1>2. CASE PayoutNext
  BY <1>2, CronStepKeeps, WebhookStepKeeps, ReconcileStepKeeps, MarkStepKeeps, DeadJobKeeps,
     OutsideKeeps DEF PayoutNext
<1>3. CASE UNCHANGED mvars
  <2>1. IInv'
    BY <1>3, NextIInv DEF mvars, MInv
  <2> QED
    BY <1>3, <2>1
    DEF mvars, vars, payoutVars, MInv, PayoutTypeOK, CompletedIsEarned, PayoutIsEarned,
        PaidMeansPaid, JobsKnow, RefundsKnow, LockIsTaken, OneHolder, Holding, Earned, At
<1> QED
  BY <1>1, <1>2, <1>3 DEF MoneyNext

\* MInv holds in every reachable state.
LEMMA MoneyInvariance == MoneySpec => []MInv
  BY InitMInv, MoneyNextMInv, PTL DEF MoneySpec

(***************************************************************************)
(* The theorems.                                                           *)
(***************************************************************************)

\* The rows and the calls in flight keep their types.
THEOREM MoneyTypeCorrect == MoneySpec => []MoneyTypeOK
<1>1. MInv => MoneyTypeOK
  BY DEF MInv, IInv, MoneyTypeOK
<1> QED
  BY MoneyInvariance, <1>1, PTL

\* Money leaves for a helper, and escrow is released, only for a completed job.
THEOREM PayoutsAreEarned == MoneySpec => []PayoutNeedsCompletedJob
<1>1. MInv => PayoutNeedsCompletedJob
  BY DEF MInv, PayoutIsEarned, PayoutNeedsCompletedJob, Earned
<1> QED
  BY MoneyInvariance, <1>1, PTL

\* PAID, the ledger's DEBIT and its REVERSAL all mean that the helper was paid.
THEOREM PaidIsTrue == MoneySpec => []PaidMeansPaid
<1>1. MInv => PaidMeansPaid
  BY DEF MInv
<1> QED
  BY MoneyInvariance, <1>1, PTL

\* The payout's status is a lock: no two cron jobs work on one booking, but for an
\* administrator's mark and a lock whose own statement failed.
THEOREM LockExcludes == MoneySpec => []OnePayoutJob
<1>1. MInv => OnePayoutJob
  <2> SUFFICES ASSUME MInv, NEW w \in Worker, NEW b \in Booking, Working(w, b)
               PROVE  Holding(w, b)
    BY DEF MInv, OneHolder, OnePayoutJob
  <2> QED
    BY DEF MInv, JobsKnow, Holding, HoldingStage, LockedStage, Working, On, NoJob
<1> QED
  BY MoneyInvariance, <1>1, PTL

\* The payout does not break what is proved of the booking alone: the escrow of a
\* job that goes on stays locked, and the ledger agrees with the rows and books as
\* received only what Razorpay took.
THEOREM JobsStayFunded == MoneySpec => [](LiveJobHoldsEscrow /\ LedgerMatchesRows)
<1>1. MInv => LiveJobHoldsEscrow /\ LedgerMatchesRows
  BY DEF MInv, IInv
<1> QED
  BY MoneyInvariance, <1>1, PTL

\* The payout moves the contract by a Release, of a job that was done, or not at all.
LEMMA PayoutImplements == MInv /\ PayoutNext => [Contract!Next]_(Contract!cvars)
<1> SUFFICES ASSUME MInv, PayoutNext PROVE [Contract!Next]_(Contract!cvars)
  OBVIOUS
<1>1. CASE UNCHANGED <<status, escrow>>
  BY <1>1, RestStutters
<1>2. ASSUME NEW w \in Worker, NEW b \in Booking, job[w] # NoJob, job[w].booking = b,
             UNCHANGED bookingSide, ReleaseEscrow(b)
      PROVE  [Contract!Next]_(Contract!cvars)
  <2>1. Earned(b)
    BY <1>2 DEF MInv, JobsKnow
  <2>2. status[b] \in {"COMPLETED", "CANCELLED"} /\ escrow[b] # "PENDING"
    BY <2>1 DEF MInv, IInv, LedgerMatchesRows, PayoutIsEarned, Earned
  <2>3. phaseBar[b] \in {"done", "closed"} /\ fundsBar[b] # "none"
    BY <2>2 DEF MInv, IInv, TypeOK, EscrowStatus, phaseBar, fundsBar, PhaseOf, FundsOf
  <2>4. fundsBar' = [fundsBar EXCEPT ![b] = "released"]
    BY <1>2, FundsFollow, "RELEASED" \in EscrowStatus
    DEF ReleaseEscrow, MInv, IInv, EscrowStatus, FundsOf
  <2>5. UNCHANGED phaseBar
    BY <1>2 DEF bookingSide, phaseBar
  <2> QED
    BY <2>3, <2>4, <2>5 DEF Contract!Next, Contract!Release
<1>3. ASSUME NEW w \in Worker, NEW b \in Booking, PayoutCron(w, b)
      PROVE  UNCHANGED <<status, escrow>>
  BY <1>3
  DEF PayoutCron, SelectPayout, LockPayout, CheckPayment, CheckHelper, CallApi, StoreId, Throw,
      Revert, RevertNotReady, FailUnpayable, Fail, ScheduleRetry, StatusOnly, JobOnly, bookingSide
<1>4. ASSUME NEW w \in Worker, NEW b \in Booking, PayoutWebhook(w, b)
      PROVE  [Contract!Next]_(Contract!cvars)
  BY <1>1, <1>2, <1>4
  DEF PayoutWebhook, PayoutWebhookRead, PayoutWebhookPaid, PayoutWebhookFailed, StatusOnly,
      JobOnly, On, NoJob, bookingSide
<1>5. ASSUME NEW w \in Worker, NEW b \in Booking, Reconcile(w, b)
      PROVE  [Contract!Next]_(Contract!cvars)
  BY <1>1, <1>2, <1>5
  DEF Reconcile, ReconcileSelect, ReconcileFetch, ReconcilePaid, ReconcileFailed, StatusOnly,
      JobOnly, On, NoJob, bookingSide
<1>6. ASSUME NEW w \in Worker, NEW b \in Booking, MarkPaid(w, b)
      PROVE  [Contract!Next]_(Contract!cvars)
  BY <1>1, <1>2, <1>6
  DEF MarkPaid, MarkPaidRead, MarkPaidCheck, MarkPaidWrite, JobOnly, On, NoJob, bookingSide
<1>7. CASE \/ \E w \in Worker : JobDies(w)
           \/ \E b \in Booking : Settle(b) \/ LookbackEnds(b)
  BY <1>1, <1>7 DEF JobDies, Settle, LookbackEnds, JobOnly, bookingSide
<1> QED
  BY <1>1, <1>3, <1>4, <1>5, <1>6, <1>7 DEF PayoutNext

\* Booking, payment and payout together implement the contract: the escrow is
\* released only for a job that was done.
THEOREM MoneyRefinement == MoneySpec => ImplementsContract
<1>1. MoneyInit => Contract!Init
  BY DEF MoneyInit, Init, Contract!Init, phaseBar, fundsBar, PhaseOf, FundsOf
<1>2. MInv /\ [MoneyNext]_mvars => [Contract!Next]_(Contract!cvars)
  <2>1. CASE UNCHANGED mvars
    BY <2>1, RestStutters DEF mvars, vars
  <2> QED
    BY <2>1, NextImplements, PayoutImplements DEF MoneyNext, MInv
<1> QED
  BY <1>1, <1>2, MoneyInvariance, PTL DEF MoneySpec, ImplementsContract, Contract!Spec
=============================================================================
