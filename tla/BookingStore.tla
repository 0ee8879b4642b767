------------------------------ MODULE BookingStore ------------------------------
(***************************************************************************)
(* The database rows of a booking and of its payment, and the calls that   *)
(* are in flight against them.                                             *)
(*                                                                         *)
(* One Prisma call is one atomic step, and so is one $transaction.  A      *)
(* handler that reads a row, decides, and writes with another call can be  *)
(* overtaken in between: such a call is a record in `call`, whose stage    *)
(* names what it is about to do with what it has read.  A handler that     *)
(* rejects its request changes nothing and is not a step.                  *)
(***************************************************************************)
EXTENDS Naturals

CONSTANTS
  Booking,   \* the bookings that exist
  Handler    \* the requests and cron runs that may be in flight at once

VARIABLES
  status,        \* Booking.status
  payoutStatus,  \* Booking.payoutStatus
  payment,       \* Payment.status of the booking's only payment row
  escrow,        \* Payment.escrowStatus
  order,         \* Payment.razorpayOrderId is set
  ledger,        \* the LedgerEntry rows of the booking, by what they record
  charged,       \* Razorpay has taken the customer's money (not in the database)
  due,           \* the deadlines of the booking that have passed
  call           \* what each handler is doing

paymentRow == <<payment, escrow, order>>
rows == <<status, payoutStatus, payment, escrow, order, ledger>>
vars == <<status, payoutStatus, payment, escrow, order, ledger, charged, due, call>>

\* EXPIRED and NO_SHOW of the enum are written by no code that is called.
BookingStatus == {"PENDING_PAYMENT", "CONFIRMED", "IN_PROGRESS", "COMPLETED", "CANCELLED"}
PayoutStatus == {"PENDING", "PROCESSING", "PAID", "FAILED"}
PaymentStatus == {"CREATED", "CAPTURED", "FAILED", "REFUNDED"}
EscrowStatus == {"PENDING", "LOCKED", "RELEASED", "REFUNDED"}

\* A ledger row is unique per (type, referenceId): a booking has at most one
\* of each of these.
Entry == {"PAYMENT_CAPTURED", "ESCROW_LOCK", "COMMISSION_EARNED", "HELPER_PAYOUT_CREDIT",
          "HELPER_PAYOUT_DEBIT", "REFUND_ISSUED", "PAYOUT_REVERSAL"}

\* payment: five minutes after the accept; noShow: 30 minutes after bookingDate,
\* which is midnight of the day; grace: 30 minutes after startTime; job: eight
\* hours after startedAt.
Deadline == {"payment", "noShow", "grace", "job"}

\* What a call that is in flight will do next.
Stage == {"saveOrder", "initiatePayment", "resetPayment", "verifyPayment", "verifyCapture",
          "verifyFail", "webhookCapture", "webhookFail", "customerCancel", "startJob",
          "complete", "adminCancel", "adminRefund", "refund", "refundPaid", "expire",
          "inactive", "noShow", "stale", "staleRefund"}

Idle == [stage |-> "idle"]
Call == [stage : Stage, booking : Booking]

TypeOK ==
  /\ status \in [Booking -> BookingStatus]
  /\ payoutStatus \in [Booking -> PayoutStatus]
  /\ payment \in [Booking -> PaymentStatus]
  /\ escrow \in [Booking -> EscrowStatus]
  /\ order \in [Booking -> BOOLEAN]
  /\ ledger \in [Booking -> SUBSET Entry]
  /\ charged \in [Booking -> BOOLEAN]
  /\ due \in [Booking -> SUBSET Deadline]
  /\ call \in [Handler -> Call \cup {Idle}]

\* The rows acceptBookingRequest creates.
Init ==
  /\ status = [b \in Booking |-> "PENDING_PAYMENT"]
  /\ payoutStatus = [b \in Booking |-> "PENDING"]
  /\ payment = [b \in Booking |-> "CREATED"]
  /\ escrow = [b \in Booking |-> "PENDING"]
  /\ order = [b \in Booking |-> FALSE]
  /\ ledger = [b \in Booking |-> {}]
  /\ charged = [b \in Booking |-> FALSE]
  /\ due = [b \in Booking |-> {}]
  /\ call = [h \in Handler |-> Idle]

(***************************************************************************)
(* The life of a call.                                                     *)
(***************************************************************************)

At(h, stage, b) == call[h] = [stage |-> stage, booking |-> b]

\* The first read of a handler that goes on.
Begin(h, stage, b) ==
  /\ call[h] = Idle
  /\ call' = [call EXCEPT ![h] = [stage |-> stage, booking |-> b]]
  /\ UNCHANGED <<rows, charged, due>>

\* A later read of the same handler.
Proceed(h, stage, b) ==
  /\ call' = [call EXCEPT ![h] = [stage |-> stage, booking |-> b]]
  /\ UNCHANGED <<rows, charged, due>>

\* The handler answers after its last step.
Reply(h) ==
  /\ call' = [call EXCEPT ![h] = Idle]
  /\ UNCHANGED <<charged, due>>

\* The process stops, the connection is lost, or an outside call fails: what
\* was committed stays and the rest of the handler never happens.
CallDies(h) ==
  /\ call[h] # Idle
  /\ Reply(h)
  /\ UNCHANGED rows

\* A deadline passes.  Each is taken at the time the code can first look at it.
\* bookingDate is never after startTime, so noShow comes before grace.
TimePasses(b, d) ==
  /\ d \notin due[b]
  /\ d = "payment" => status[b] = "PENDING_PAYMENT"
  /\ d = "noShow" => status[b] = "CONFIRMED"
  /\ d = "grace" => status[b] = "CONFIRMED" /\ "noShow" \in due[b]
  /\ d = "job" => status[b] = "IN_PROGRESS"
  /\ due' = [due EXCEPT ![b] = @ \cup {d}]
  /\ UNCHANGED <<rows, charged, call>>
=============================================================================
