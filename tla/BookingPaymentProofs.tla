-------------------------- MODULE BookingPaymentProofs --------------------------
(***************************************************************************)
(* Proofs about BookingPayment, for any set of bookings and any number of  *)
(* handlers in flight.                                                     *)
(*                                                                         *)
(* The properties are not inductive: each rests on what the calls in       *)
(* flight have read.  CallsKnow states what is still true of a booking     *)
(* when a call comes to act on what it read, and IInv is inductive.        *)
(***************************************************************************)
EXTENDS BookingPayment, TLAPS

\* The escrow is taken from the capture on and never before it.
EscrowFollowsStatus ==
  \A b \in Booking :
    /\ status[b] = "PENDING_PAYMENT" => escrow[b] = "PENDING"
    /\ payment[b] = "CAPTURED" => escrow[b] # "PENDING"

\* What a call read that no other step can undo: a delivery of the webhook is of
\* money that Razorpay has taken, a call that will refund read a payment whose escrow
\* was taken, and the no-show sweep read a confirmed booking whose payment had lost
\* its capture.
CallsKnow ==
  \A h \in Handler, b \in Booking :
    /\ At(h, "webhookCapture", b) => charged[b]
    /\ At(h, "adminRefund", b) => escrow[b] # "PENDING"
    /\ At(h, "staleRefund", b) => escrow[b] # "PENDING"
    /\ At(h, "noShow", b) => status[b] # "PENDING_PAYMENT" /\ payment[b] # "CAPTURED"

IInv ==
  /\ TypeOK
  /\ LiveJobHoldsEscrow
  /\ RefundOnlyWhenCancelled
  /\ LedgerMatchesRows
  /\ EscrowFollowsStatus
  /\ CallsKnow

\* The rows acceptBookingRequest creates satisfy IInv.
LEMMA InitIInv == Init => IInv
  BY DEF Init, IInv, TypeOK, LiveJobHoldsEscrow, RefundOnlyWhenCancelled, LedgerMatchesRows,
         EscrowFollowsStatus, CallsKnow, At, Idle, BookingStatus, PayoutStatus, PaymentStatus,
         EscrowStatus, Entry, Deadline

\* No step of the customer's handlers breaks IInv.
LEMMA CustomerStep ==
  ASSUME IInv, NEW h \in Handler, NEW b \in Booking, Customer(h, b)
  PROVE  IInv'
<1> USE DEF IInv, TypeOK, LiveJobHoldsEscrow, RefundOnlyWhenCancelled, LedgerMatchesRows,
            EscrowFollowsStatus, CallsKnow, BookingStatus, PayoutStatus, PaymentStatus,
            EscrowStatus, Entry, CaptureEntries, Call, Stage, Idle, At, rows, paymentRow
<1>1. CASE CreateOrder(h, b)
  BY <1>1 DEF CreateOrder, Begin
<1>2. CASE SaveOrder(h, b)
  BY <1>2 DEF SaveOrder, Reply
<1>3. CASE InitiateReadBooking(h, b)
  BY <1>3 DEF InitiateReadBooking, Begin
<1>4. CASE InitiateReadPayment(h, b)
  BY <1>4 DEF InitiateReadPayment, Proceed
<1>5. CASE InitiateReset(h, b)
  BY <1>5 DEF InitiateReset, Reply
<1>6. CASE VerifyReadPayment(h, b)
  BY <1>6 DEF VerifyReadPayment, Begin
<1>7. CASE VerifyReadBooking(h, b)
  BY <1>7 DEF VerifyReadBooking, Proceed
<1>8. CASE VerifyCapture(h, b)
  <2>1. CASE Capturable(b) /\ CaptureRows(b) /\ UNCHANGED <<payoutStatus, order, ledger>>
    BY <1>8, <2>1 DEF VerifyCapture, Capturable, CaptureRows, Reply
  <2>2. CASE UNCHANGED rows
    BY <1>8, <2>2 DEF VerifyCapture, Reply
  <2> QED
    BY <1>8, <2>1, <2>2 DEF VerifyCapture
<1>9. CASE VerifyFail(h, b)
  BY <1>9 DEF VerifyFail, FailRow, Reply
<1>10. CASE CustomerCancelRead(h, b)
  BY <1>10 DEF CustomerCancelRead, Begin
<1>11. CASE CustomerCancelWrite(h, b)
  BY <1>11 DEF CustomerCancelWrite, CancelRow, Reply
<1> QED
  BY <1>1, <1>2, <1>3, <1>4, <1>5, <1>6, <1>7, <1>8, <1>9, <1>10, <1>11 DEF Customer

\* No step of the Razorpay webhook breaks IInv.
LEMMA WebhookStep ==
  ASSUME IInv, NEW h \in Handler, NEW b \in Booking, Webhook(h, b)
  PROVE  IInv'
<1> USE DEF IInv, TypeOK, LiveJobHoldsEscrow, RefundOnlyWhenCancelled, LedgerMatchesRows,
            EscrowFollowsStatus, CallsKnow, BookingStatus, PayoutStatus, PaymentStatus,
            EscrowStatus, Entry, CaptureEntries, Call, Stage, Idle, At, rows, paymentRow
<1>1. CASE WebhookRead(h, b)
  BY <1>1 DEF WebhookRead, Begin
<1>2. CASE WebhookCapture(h, b)
  <2>1. CASE UNCHANGED rows
    BY <1>2, <2>1 DEF WebhookCapture, Reply
  <2>2. CASE /\ Capturable(b) /\ CaptureRows(b)
            /\ ledger' = [ledger EXCEPT ![b] = @ \cup CaptureEntries]
            /\ UNCHANGED <<payoutStatus, order>>
    BY <1>2, <2>2 DEF WebhookCapture, Capturable, CaptureRows, Reply
  <2> QED
    BY <1>2, <2>1, <2>2 DEF WebhookCapture
<1>3. CASE WebhookFail(h, b)
  BY <1>3 DEF WebhookFail, FailRow, Reply
<1> QED
  BY <1>1, <1>2, <1>3 DEF Webhook

\* Starting and completing a job keep IInv.
LEMMA HelperStep ==
  ASSUME IInv, NEW h \in Handler, NEW b \in Booking, Helper(h, b)
  PROVE  IInv'
<1> USE DEF IInv, TypeOK, LiveJobHoldsEscrow, RefundOnlyWhenCancelled, LedgerMatchesRows,
            EscrowFollowsStatus, CallsKnow, BookingStatus, PayoutStatus, PaymentStatus,
            EscrowStatus, Entry, CaptureEntries, Call, Stage, Idle, At, rows, paymentRow
<1>1. CASE StartRead(h, b)
  BY <1>1 DEF StartRead, Begin
<1>2. CASE StartWrite(h, b)
  BY <1>2 DEF StartWrite, Reply
<1>3. CASE CompleteRead(h, b)
  BY <1>3 DEF CompleteRead, Begin
<1>4. CASE CompleteWrite(h, b)
  BY <1>4 DEF CompleteWrite, Reply
<1> QED
  BY <1>1, <1>2, <1>3, <1>4 DEF Helper

\* The administrator's cancellation and refund keep IInv.
LEMMA AdminStep ==
  ASSUME IInv, NEW h \in Handler, NEW b \in Booking, Admin(h, b)
  PROVE  IInv'
<1> USE DEF IInv, TypeOK, LiveJobHoldsEscrow, RefundOnlyWhenCancelled, LedgerMatchesRows,
            EscrowFollowsStatus, CallsKnow, BookingStatus, PayoutStatus, PaymentStatus,
            EscrowStatus, Entry, CaptureEntries, Call, Stage, Idle, At, rows, paymentRow
<1>1. CASE AdminCancelRead(h, b)
  BY <1>1 DEF AdminCancelRead, Begin
<1>2. CASE AdminCancelWrite(h, b)
  BY <1>2 DEF AdminCancelWrite, AdminCancelGuard, CancelRow, Reply
<1>3. CASE AdminRefundWrite(h, b)
  BY <1>3 DEF AdminRefundWrite, AdminCancelGuard, CancelRow, RefundRow, Reply
<1>4. CASE RefundRead(h, b)
  BY <1>4 DEF RefundRead, Begin
<1>5. CASE RefundWrite(h, b)
  <2>1. CASE At(h, "refund", b)
    BY <1>5, <2>1, SMTT(30) DEF RefundWrite, CancelRow, Reply
  <2>2. CASE At(h, "refundPaid", b)
    BY <1>5, <2>2, SMTT(30) DEF RefundWrite, CancelRow, Reply
  <2> QED
    BY <1>5, <2>1, <2>2 DEF RefundWrite
<1> QED
  BY <1>1, <1>2, <1>3, <1>4, <1>5 DEF Admin

\* No step of a sweep breaks IInv, whatever overtook its snapshot.
LEMMA CronStep ==
  ASSUME IInv, NEW h \in Handler, NEW b \in Booking, Cron(h, b)
  PROVE  IInv'
<1> USE DEF IInv, TypeOK, LiveJobHoldsEscrow, RefundOnlyWhenCancelled, LedgerMatchesRows,
            EscrowFollowsStatus, CallsKnow, BookingStatus, PayoutStatus, PaymentStatus,
            EscrowStatus, Entry, CaptureEntries, Call, Stage, Idle, At, rows, paymentRow
<1>1. CASE ExpireRead(h, b)
  BY <1>1 DEF ExpireRead, Begin
<1>2. CASE ExpireWrite(h, b)
  BY <1>2 DEF ExpireWrite, CancelRow, Reply
<1>3. CASE InactiveRead(h, b)
  BY <1>3 DEF InactiveRead, Begin
<1>4. CASE InactiveWrite(h, b)
  BY <1>4 DEF InactiveWrite, StillConfirmed, CancelRow, RefundRow, Reply
<1>5. CASE NoShowRead(h, b)
  BY <1>5 DEF NoShowRead, Begin
<1>6. CASE NoShowWrite(h, b)
  BY <1>6 DEF NoShowWrite, StillConfirmed, CancelRow, Reply
<1>7. CASE StaleRead(h, b)
  BY <1>7 DEF StaleRead, Begin
<1>8. CASE StaleWrite(h, b)
  <2>1. CASE At(h, "stale", b)
    BY <1>8, <2>1 DEF StaleWrite, StillInProgress, CancelRow, Reply
  <2>2. CASE At(h, "staleRefund", b)
    <3>1. /\ StillInProgress(b) /\ CancelRow(b) /\ RefundRow(b)
          /\ UNCHANGED <<order, payoutStatus, ledger>> /\ Reply(h)
      BY <1>8, <2>2 DEF StaleWrite
    <3> QED
      BY <2>2, <3>1 DEF StillInProgress, CancelRow, RefundRow, Reply
  <2> QED
    BY <1>8, <2>1, <2>2 DEF StaleWrite
<1> QED
  BY <1>1, <1>2, <1>3, <1>4, <1>5, <1>6, <1>7, <1>8 DEF Cron

\* A call that dies, a checkout and a deadline keep IInv.
LEMMA EnvironmentStep ==
  ASSUME IInv, Environment
  PROVE  IInv'
<1> USE DEF IInv, TypeOK, LiveJobHoldsEscrow, RefundOnlyWhenCancelled, LedgerMatchesRows,
            EscrowFollowsStatus, CallsKnow, At, rows
<1>1. ASSUME NEW h \in Handler, CallDies(h) PROVE IInv'
  BY <1>1 DEF CallDies, Reply, Idle
<1>2. ASSUME NEW b \in Booking, CustomerPays(b) PROVE IInv'
  BY <1>2 DEF CustomerPays
<1>3. ASSUME NEW b \in Booking, NEW d \in Deadline, TimePasses(b, d) PROVE IInv'
  BY <1>3 DEF TimePasses
<1> QED
  BY <1>1, <1>2, <1>3 DEF Environment

\* Every step of the specification, and every stutter, preserves IInv.
LEMMA NextIInv == IInv /\ [Next]_vars => IInv'
<1> SUFFICES ASSUME IInv, [Next]_vars PROVE IInv'
  OBVIOUS
<1>1. CASE Next
  BY <1>1, CustomerStep, WebhookStep, HelperStep, AdminStep, CronStep, EnvironmentStep DEF Next
<1>2. CASE UNCHANGED vars
  BY <1>2 DEF vars, IInv, TypeOK, LiveJobHoldsEscrow, RefundOnlyWhenCancelled,
              LedgerMatchesRows, EscrowFollowsStatus, CallsKnow, At
<1> QED
  BY <1>1, <1>2

\* IInv holds in every reachable state.
LEMMA Invariance == Spec => []IInv
  BY InitIInv, NextIInv, PTL DEF Spec

\* The rows and the calls in flight keep their types.
THEOREM TypeCorrect == Spec => []TypeOK
<1>1. IInv => TypeOK
  BY DEF IInv
<1> QED
  BY Invariance, <1>1, PTL

\* A job that goes on keeps the escrow that its capture locked.
THEOREM LiveJobsAreFunded == Spec => []LiveJobHoldsEscrow
<1>1. IInv => LiveJobHoldsEscrow
  BY DEF IInv
<1> QED
  BY Invariance, <1>1, PTL

\* No payment is refunded while its booking goes on.
THEOREM RefundsCancel == Spec => []RefundOnlyWhenCancelled
<1>1. IInv => RefundOnlyWhenCancelled
  BY DEF IInv
<1> QED
  BY Invariance, <1>1, PTL

\* The ledger agrees with the rows, and books as received only what Razorpay took.
THEOREM LedgerIsRight == Spec => []LedgerMatchesRows
<1>1. IInv => LedgerMatchesRows
  BY DEF IInv
<1> QED
  BY Invariance, <1>1, PTL

\* The no-show sweep's stale check of the payment is still right when it writes.
THEOREM NoShowIsSafe == Spec => NoShowSparesCaptured
<1>1. IInv /\ [Next]_vars
        => [\A h \in Handler, b \in Booking : NoShowWrite(h, b) => payment[b] # "CAPTURED"]_vars
  BY DEF IInv, CallsKnow, NoShowWrite
<1> QED
  BY Invariance, <1>1, PTL DEF Spec, NoShowSparesCaptured

(***************************************************************************)
(* The refinement.                                                         *)
(***************************************************************************)

\* The abstract phase follows an update of Booking.status.
LEMMA PhaseFollows ==
  ASSUME TypeOK, NEW b \in Booking, NEW s \in BookingStatus,
         status' = [status EXCEPT ![b] = s]
  PROVE  phaseBar' = [phaseBar EXCEPT ![b] = PhaseOf[s]]
  BY DEF TypeOK, phaseBar

\* The abstract funds follow an update of Payment.escrowStatus.
LEMMA FundsFollow ==
  ASSUME TypeOK, NEW b \in Booking, NEW e \in EscrowStatus,
         escrow' = [escrow EXCEPT ![b] = e]
  PROVE  fundsBar' = [fundsBar EXCEPT ![b] = FundsOf[e]]
  BY DEF TypeOK, fundsBar

\* Closing a booking, with the money returned or left.
LEMMA ClosesBooking ==
  ASSUME TypeOK, NEW b \in Booking, CancelRow(b),
         \/ UNCHANGED escrow
         \/ status[b] # "CANCELLED" /\ escrow[b] # "PENDING" /\ RefundRow(b)
  PROVE  [Contract!Next]_(Contract!cvars)
<1>1. phaseBar' = [phaseBar EXCEPT ![b] = "closed"]
  BY PhaseFollows DEF CancelRow, BookingStatus, PhaseOf
<1>2. CASE UNCHANGED escrow
  <2>1. UNCHANGED fundsBar
    BY <1>2 DEF fundsBar
  <2>2. CASE phaseBar[b] = "closed"
    BY <1>1, <2>1, <2>2 DEF Contract!cvars, phaseBar
  <2>3. CASE phaseBar[b] # "closed"
    BY <1>1, <2>1, <2>3 DEF Contract!Next, Contract!Close
  <2> QED
    BY <2>2, <2>3
<1>3. CASE status[b] # "CANCELLED" /\ escrow[b] # "PENDING" /\ RefundRow(b)
  <2>1. fundsBar' = [fundsBar EXCEPT ![b] = "returned"]
    BY <1>3, FundsFollow, "REFUNDED" \in EscrowStatus DEF RefundRow, EscrowStatus, FundsOf
  <2>2. phaseBar[b] # "closed" /\ fundsBar[b] # "none"
    BY <1>3 DEF TypeOK, phaseBar, fundsBar, PhaseOf, FundsOf, BookingStatus, EscrowStatus
  <2> QED
    BY <1>1, <2>1, <2>2 DEF Contract!Next, Contract!Close
<1> QED
  BY <1>2, <1>3

\* Capturing a payment books the helper and locks the escrow in one step.
LEMMA CaptureBooks ==
  ASSUME TypeOK, EscrowFollowsStatus, NEW b \in Booking, Capturable(b), CaptureRows(b)
  PROVE  [Contract!Next]_(Contract!cvars)
<1>1. phaseBar' = [phaseBar EXCEPT ![b] = "booked"]
  BY PhaseFollows DEF CaptureRows, BookingStatus, PhaseOf
<1>2. fundsBar' = [fundsBar EXCEPT ![b] = "held"]
  BY FundsFollow DEF CaptureRows, EscrowStatus, FundsOf
<1>3. phaseBar[b] = "unpaid" /\ fundsBar[b] = "none"
  BY DEF Capturable, EscrowFollowsStatus, phaseBar, fundsBar, PhaseOf, FundsOf
<1> QED
  BY <1>1, <1>2, <1>3 DEF Contract!Next, Contract!Book, Contract!Move

\* A step that writes neither the status nor the escrow is a stutter.
LEMMA RestStutters ==
  ASSUME UNCHANGED <<status, escrow>>
  PROVE  [Contract!Next]_(Contract!cvars)
  BY DEF Contract!cvars, phaseBar, fundsBar

\* Starting and completing a job are StartWork and FinishWork of the contract.
LEMMA HelperStepImplements ==
  ASSUME TypeOK, NEW h \in Handler, NEW b \in Booking, StartWrite(h, b) \/ CompleteWrite(h, b)
  PROVE  [Contract!Next]_(Contract!cvars)
<1>1. UNCHANGED fundsBar
  BY DEF StartWrite, CompleteWrite, paymentRow, fundsBar
<1>2. CASE StartWrite(h, b)
  <2>1. phaseBar' = [phaseBar EXCEPT ![b] = "working"]
    BY <1>2, PhaseFollows DEF StartWrite, BookingStatus, PhaseOf
  <2>2. phaseBar[b] = "booked"
    BY <1>2 DEF StartWrite, phaseBar, PhaseOf
  <2> QED
    BY <1>1, <2>1, <2>2 DEF Contract!Next, Contract!StartWork, Contract!Move
<1>3. CASE CompleteWrite(h, b)
  <2>1. phaseBar' = [phaseBar EXCEPT ![b] = "done"]
    BY <1>3, PhaseFollows DEF CompleteWrite, BookingStatus, PhaseOf
  <2>2. phaseBar[b] = "working"
    BY <1>3 DEF CompleteWrite, phaseBar, PhaseOf
  <2> QED
    BY <1>1, <2>1, <2>2 DEF Contract!Next, Contract!FinishWork, Contract!Move
<1> QED
  BY <1>2, <1>3

\* Every step is a step of the contract, or changes nothing the contract sees.
LEMMA NextImplements == IInv /\ [Next]_vars => [Contract!Next]_(Contract!cvars)
<1> SUFFICES ASSUME IInv, [Next]_vars PROVE [Contract!Next]_(Contract!cvars)
  OBVIOUS
<1> USE DEF IInv
<1>1. CASE UNCHANGED vars
  BY <1>1, RestStutters DEF vars
<1>2. CASE Environment
  BY <1>2, RestStutters DEF Environment, CallDies, CustomerPays, TimePasses, rows
<1>3. ASSUME NEW h \in Handler, NEW b \in Booking, Customer(h, b)
      PROVE  [Contract!Next]_(Contract!cvars)
  <2>1. CASE Capturable(b) /\ CaptureRows(b)
    BY <2>1, CaptureBooks
  <2>2. CASE CustomerCancelWrite(h, b)
    BY <2>2, ClosesBooking DEF CustomerCancelWrite, paymentRow
  <2> QED
    BY <1>3, <2>1, <2>2, RestStutters
    DEF Customer, CreateOrder, SaveOrder, InitiateReadBooking, InitiateReadPayment,
        InitiateReset, VerifyReadPayment, VerifyReadBooking, VerifyCapture, VerifyFail,
        CustomerCancelRead, FailRow, Begin, Proceed, rows
<1>4. ASSUME NEW h \in Handler, NEW b \in Booking, Webhook(h, b)
      PROVE  [Contract!Next]_(Contract!cvars)
  BY <1>4, CaptureBooks, RestStutters
  DEF Webhook, WebhookRead, WebhookCapture, WebhookFail, FailRow, Begin, rows
<1>5. ASSUME NEW h \in Handler, NEW b \in Booking, Helper(h, b)
      PROVE  [Contract!Next]_(Contract!cvars)
  BY <1>5, HelperStepImplements, RestStutters DEF Helper, StartRead, CompleteRead, Begin, rows
<1>6. ASSUME NEW h \in Handler, NEW b \in Booking, Admin(h, b)
      PROVE  [Contract!Next]_(Contract!cvars)
  <2>1. CASE AdminRefundWrite(h, b)
    BY <2>1, ClosesBooking DEF AdminRefundWrite, AdminCancelGuard, CallsKnow
  <2>2. CASE AdminCancelWrite(h, b) \/ RefundWrite(h, b)
    BY <2>2, ClosesBooking DEF AdminCancelWrite, RefundWrite, paymentRow
  <2> QED
    BY <1>6, <2>1, <2>2, RestStutters DEF Admin, AdminCancelRead, RefundRead, Begin, rows
<1>7. ASSUME NEW h \in Handler, NEW b \in Booking, Cron(h, b)
      PROVE  [Contract!Next]_(Contract!cvars)
  <2>1. CASE ExpireWrite(h, b)
    BY <2>1, ClosesBooking, RestStutters DEF ExpireWrite
  <2>2. CASE InactiveWrite(h, b)
    BY <2>2, ClosesBooking DEF InactiveWrite, StillConfirmed, LiveJobHoldsEscrow
  <2>3. CASE NoShowWrite(h, b)
    BY <2>3, ClosesBooking DEF NoShowWrite
  <2>4. CASE StaleWrite(h, b)
    BY <2>4, ClosesBooking DEF StaleWrite, StillInProgress, CallsKnow, paymentRow
  <2> QED
    BY <1>7, <2>1, <2>2, <2>3, <2>4, RestStutters
    DEF Cron, ExpireRead, InactiveRead, NoShowRead, StaleRead, Begin, rows
<1> QED
  BY <1>1, <1>2, <1>3, <1>4, <1>5, <1>6, <1>7 DEF Next

\* The rows of bookings and payments implement the contract.
THEOREM Refinement == Spec => ImplementsContract
<1>1. Init => Contract!Init
  BY DEF Init, Contract!Init, phaseBar, fundsBar, PhaseOf, FundsOf
<1> QED
  BY <1>1, Invariance, NextImplements, PTL DEF Spec, ImplementsContract, Contract!Spec
================================================================================
