----------------------------- MODULE StoreDelivery -----------------------------
(***************************************************************************)
(* The delivery of a store's order: a worker is assigned, arrives, asks    *)
(* the customer for the code that was mailed, and takes the payment.  The  *)
(* master code is accepted in place of the customer's.                     *)
(*                                                                         *)
(* Every handler reads the order and later updates it by id.               *)
(***************************************************************************)
EXTENDS Naturals, FiniteSets

CONSTANTS
  Order, Worker,
  Caller,       \* the requests in flight at once
  MaxAttempts,  \* wrong codes before a new one is needed
  MaxCode,      \* bound: the codes that are mailed for an order
  NoWorker      \* the null of assignedWorkerId

DeliveryAssumption == NoWorker \notin Worker /\ {MaxAttempts, MaxCode} \subseteq Nat

VARIABLES
  employed,   \* the workers who have a row, and are active
  assigned,   \* SellerOrder.assignedWorkerId
  status,     \* SellerOrder.status, from the assignment on
  payment,    \* SellerOrder.paymentStatus
  code,       \* deliveryOtp: the number of the mail, 0 for null
  mailed,     \* the codes mailed so far
  expired,    \* deliveryOtpExpiresAt has passed
  verified,   \* deliveryOtpVerified
  attempts,   \* deliveryOtpAttempts
  told,       \* history: which codes have verified an order so far
  call        \* what each request is doing

codeVars == <<code, mailed, expired, verified, attempts, told>>
orderVars == <<assigned, status, payment>>
vars == <<employed, orderVars, codeVars, call>>

\* ready is any status before a worker is assigned, or that is not named here.
Status == {"ready", "Assigned", "Out for Delivery", "Arrived", "Payment Pending", "Completed"}

Payment == {"PENDING", "PROCESSING", "PAID"}

Idle == [stage |-> "idle"]

\* worker is whom the call assigns, paid what a verification has read.
Call == [stage : {"assign", "arrive", "wrong", "verify", "master", "startPayment", "settle"},
         order : Order, worker : Worker \cup {NoWorker}, paid : BOOLEAN]

TypeOK ==
  /\ employed \in SUBSET Worker
  /\ assigned \in [Order -> Worker \cup {NoWorker}]
  /\ status \in [Order -> Status]
  /\ payment \in [Order -> Payment]
  /\ code \in [Order -> Nat]
  /\ mailed \in [Order -> Nat]
  /\ expired \in [Order -> BOOLEAN]
  /\ verified \in [Order -> BOOLEAN]
  /\ attempts \in [Order -> Nat]
  /\ told \in [Order -> SUBSET {"customer", "master"}]
  /\ call \in [Caller -> Call \cup {Idle}]

Init ==
  /\ employed \in SUBSET Worker
  /\ assigned = [o \in Order |-> NoWorker]
  /\ status = [o \in Order |-> "ready"]
  /\ payment = [o \in Order |-> "PENDING"]
  /\ code = [o \in Order |-> 0]
  /\ mailed = [o \in Order |-> 0]
  /\ expired = [o \in Order |-> FALSE]
  /\ verified = [o \in Order |-> FALSE]
  /\ attempts = [o \in Order |-> 0]
  /\ told = [o \in Order |-> {}]
  /\ call = [c \in Caller |-> Idle]

At(c, stage, o) == call[c].stage = stage /\ call[c].order = o

Begin(c, stage, o, w) ==
  /\ call[c] = Idle
  /\ call' = [call EXCEPT ![c] =
       [stage |-> stage, order |-> o, worker |-> w,
        paid |-> stage \in {"verify", "master"} /\ payment[o] = "PAID"]]

Done(c) == call' = [call EXCEPT ![c] = Idle]

CallDies(c) ==
  /\ call[c] # Idle
  /\ Done(c)
  /\ UNCHANGED <<employed, orderVars, codeVars>>

(***************************************************************************)
(* The store.                                                              *)
(***************************************************************************)

AddWorker(w) ==
  /\ w \notin employed
  /\ employed' = employed \cup {w}
  /\ UNCHANGED <<orderVars, codeVars, call>>

\* The orders keep the id of a worker who is gone.
RemoveWorker(w) ==
  /\ w \in employed
  /\ employed' = employed \ {w}
  /\ UNCHANGED <<orderVars, codeVars, call>>

AssignRead(c, o, w) ==
  /\ w \in employed
  /\ Begin(c, "assign", o, w)
  /\ UNCHANGED <<employed, orderVars, codeVars>>

\* The seller's own route sets Assigned, the public one Out for Delivery.  The
\* worker's assignedOrdersCount is raised next, which nothing reads.
AssignWrite(c, o) ==
  /\ At(c, "assign", o)
  /\ assigned' = [assigned EXCEPT ![o] = call[c].worker]
  /\ \E s \in {"Assigned", "Out for Delivery"} : status' = [status EXCEPT ![o] = s]
  /\ Done(c)
  /\ UNCHANGED <<employed, payment, codeVars>>

\* By id, also without a worker.  The worker's route allows five statuses, the store's
\* whatever is sent.
UpdateStatus(o) ==
  /\ \E s \in Status : status' = [status EXCEPT ![o] = s]
  /\ UNCHANGED <<employed, assigned, payment, codeVars, call>>

(***************************************************************************)
(* The worker at the customer's door.                                      *)
(***************************************************************************)

\* Each request reads the worker anew.
OnDuty(w, o) == w \in employed /\ assigned[o] = w

ArriveRead(c, o, w) ==
  /\ OnDuty(w, o)
  /\ Begin(c, "arrive", o, NoWorker)
  /\ UNCHANGED <<employed, orderVars, codeVars>>

\* A new code, whatever became of the one before.
ArriveWrite(c, o) ==
  /\ At(c, "arrive", o)
  /\ mailed[o] < MaxCode
  /\ status' = [status EXCEPT ![o] = "Arrived"]
  /\ mailed' = [mailed EXCEPT ![o] = @ + 1]
  /\ code' = [code EXCEPT ![o] = mailed[o] + 1]
  /\ expired' = [expired EXCEPT ![o] = FALSE]
  /\ verified' = [verified EXCEPT ![o] = FALSE]
  /\ attempts' = [attempts EXCEPT ![o] = 0]
  /\ Done(c)
  /\ UNCHANGED <<employed, assigned, payment, told>>

CodeExpires(o) ==
  /\ code[o] # 0
  /\ ~expired[o]
  /\ expired' = [expired EXCEPT ![o] = TRUE]
  /\ UNCHANGED <<employed, orderVars, code, mailed, verified, attempts, told, call>>

MayTry(o) == attempts[o] < MaxAttempts

\* The worker enters a code: the customer's, one of an earlier mail, nonsense, or the
\* master code, which is accepted whether or not a code is stored, or has expired.
VerifyRead(c, o, w) ==
  /\ OnDuty(w, o)
  /\ MayTry(o)
  /\ \/ Begin(c, "wrong", o, NoWorker)
     \/ code[o] # 0 /\ ~expired[o] /\ Begin(c, "verify", o, NoWorker)
     \/ Begin(c, "master", o, NoWorker)
  /\ UNCHANGED <<employed, orderVars, codeVars>>

\* An atomic increment, by id.
VerifyWrong(c, o) ==
  /\ At(c, "wrong", o)
  /\ attempts' = [attempts EXCEPT ![o] = @ + 1]
  /\ Done(c)
  /\ UNCHANGED <<employed, orderVars, code, mailed, expired, verified, told>>

VerifyRight(c, o) ==
  /\ At(c, "verify", o) \/ At(c, "master", o)
  /\ verified' = [verified EXCEPT ![o] = TRUE]
  /\ code' = [code EXCEPT ![o] = 0]
  /\ status' = [status EXCEPT ![o] = IF call[c].paid THEN "Completed" ELSE "Payment Pending"]
  /\ told' = [told EXCEPT ![o] =
                @ \cup {IF call[c].stage = "master" THEN "master" ELSE "customer"}]
  /\ Done(c)
  /\ UNCHANGED <<employed, assigned, payment, mailed, expired, attempts>>

(***************************************************************************)
(* The payment.                                                            *)
(***************************************************************************)

\* Mutant of MayPay: the code is not looked at.
MayPayUnverified(o) == verified[o] \in BOOLEAN

MayPay(o) == verified[o]

StartPaymentRead(c, o) ==
  /\ MayPay(o)
  /\ Begin(c, "startPayment", o, NoWorker)
  /\ UNCHANGED <<employed, orderVars, codeVars>>

\* After the order was created at Razorpay; over whatever the payment is by now.
StartPaymentWrite(c, o) ==
  /\ At(c, "startPayment", o)
  /\ payment' = [payment EXCEPT ![o] = "PROCESSING"]
  /\ Done(c)
  /\ UNCHANGED <<employed, assigned, status, codeVars>>

\* In cash, or with a signature of Razorpay: whether create-payment was called is not
\* looked at.
SettleRead(c, o) ==
  /\ MayPay(o)
  /\ Begin(c, "settle", o, NoWorker)
  /\ UNCHANGED <<employed, orderVars, codeVars>>

\* Mutant of SettleWrite: the two columns are mixed up.
SettleWriteMixed(c, o) ==
  /\ At(c, "settle", o)
  /\ payment' = [payment EXCEPT ![o] = "Completed"]
  /\ status' = [status EXCEPT ![o] = "PAID"]
  /\ Done(c)
  /\ UNCHANGED <<employed, assigned, codeVars>>

SettleWrite(c, o) ==
  /\ At(c, "settle", o)
  /\ payment' = [payment EXCEPT ![o] = "PAID"]
  /\ status' = [status EXCEPT ![o] = "Completed"]
  /\ Done(c)
  /\ UNCHANGED <<employed, assigned, codeVars>>

-----------------------------------------------------------------------------
Store(c, o, w) == AssignRead(c, o, w) \/ AssignWrite(c, o)

Door(c, o, w) ==
  \/ ArriveRead(c, o, w) \/ ArriveWrite(c, o)
  \/ VerifyRead(c, o, w) \/ VerifyWrong(c, o) \/ VerifyRight(c, o)

Pay(c, o) ==
  \/ StartPaymentRead(c, o) \/ StartPaymentWrite(c, o)
  \/ SettleRead(c, o) \/ SettleWrite(c, o)

Next ==
  \/ \E w \in Worker : AddWorker(w) \/ RemoveWorker(w)
  \/ \E o \in Order : UpdateStatus(o) \/ CodeExpires(o)
  \/ \E c \in Caller, o \in Order : Pay(c, o) \/ \E w \in Worker : Store(c, o, w) \/ Door(c, o, w)
  \/ \E c \in Caller : CallDies(c)

Spec == Init /\ [][Next]_vars

(***************************************************************************)
(* Properties                                                              *)
(***************************************************************************)

\* Money is asked for and taken only for an order that a worker has verified, although a
\* new arrival, which takes the verification back, may come between the check and the
\* payment.  Where no master code was entered, the customer has given a code, and so one
\* was made for the order.
PaidWasVerified ==
  \A o \in Order :
    payment[o] # "PENDING" =>
      "master" \in told[o] \/ ("customer" \in told[o] /\ mailed[o] > 0)
=============================================================================
