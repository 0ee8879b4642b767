------------------------------- MODULE StartOtp -------------------------------
(***************************************************************************)
(* The code by which a helper starts a job at the customer's door:         *)
(* verifyStartOtp and regenerateOtpForBooking.  Both read the booking and  *)
(* write it with an updateMany that repeats what must still hold.          *)
(*                                                                         *)
(* BookingPayment has the start alone; here are the code and its attempts. *)
(***************************************************************************)
EXTENDS Naturals

CONSTANTS
  Booking,
  Caller,           \* the requests in flight at once
  MAX_OTP_ATTEMPTS,
  MaxCode           \* bound: the codes generated for a booking

ASSUME OtpAssumption == MAX_OTP_ATTEMPTS \in Nat /\ MaxCode \in Nat \ {0}

VARIABLES
  status,       \* Booking.status; closed is completed or cancelled
  startOtp,     \* the number of the code, 0 for null
  generated,    \* how many codes were generated
  otpAttempts,
  expired,      \* 30 minutes have passed since otpGeneratedAt
  started,      \* history: how often each code has started the job
  call          \* what each request is doing

rowVars == <<status, startOtp, generated, otpAttempts, expired>>
vars == <<rowVars, started, call>>

Code == 0 .. MaxCode
Idle == [stage |-> "idle"]

\* code is the one the helper has entered.
Call == [stage : {"wrong", "right", "regenerate"}, booking : Booking, code : Code]

TypeOK ==
  /\ status \in [Booking -> {"CONFIRMED", "IN_PROGRESS", "closed"}]
  /\ startOtp \in [Booking -> Code]
  /\ generated \in [Booking -> Code]
  /\ otpAttempts \in [Booking -> Nat]
  /\ expired \in [Booking -> BOOLEAN]
  /\ started \in [Booking -> [Code -> Nat]]
  /\ call \in [Caller -> Call \cup {Idle}]

\* A booking just confirmed: the capture has generated the first code.
Init ==
  /\ status = [b \in Booking |-> "CONFIRMED"]
  /\ startOtp = [b \in Booking |-> 1]
  /\ generated = [b \in Booking |-> 1]
  /\ otpAttempts = [b \in Booking |-> 0]
  /\ expired = [b \in Booking |-> FALSE]
  /\ started = [b \in Booking |-> [n \in Code |-> 0]]
  /\ call = [c \in Caller |-> Idle]

At(c, stage, b) == call[c].stage = stage /\ call[c].booking = b

Begin(c, stage, b, n) ==
  /\ call[c] = Idle
  /\ call' = [call EXCEPT ![c] = [stage |-> stage, booking |-> b, code |-> n]]

Done(c) == call' = [call EXCEPT ![c] = Idle]

\* Also the guarded update that finds no row.
CallDies(c) ==
  /\ call[c] # Idle
  /\ Done(c)
  /\ UNCHANGED <<rowVars, started>>

\* The read only rejects.
VerifyRead(c, b, n) ==
  /\ status[b] = "CONFIRMED"
  /\ startOtp[b] # 0
  /\ otpAttempts[b] < MAX_OTP_ATTEMPTS
  /\ ~expired[b]
  /\ Begin(c, IF startOtp[b] = n THEN "right" ELSE "wrong", b, n)
  /\ UNCHANGED <<rowVars, started>>

BelowCap(b) == otpAttempts[b] < MAX_OTP_ATTEMPTS

VerifyWrong(c, b) ==
  /\ At(c, "wrong", b)
  /\ status[b] = "CONFIRMED"
  /\ BelowCap(b)
  /\ otpAttempts' = [otpAttempts EXCEPT ![b] = @ + 1]
  /\ Done(c)
  /\ UNCHANGED <<status, startOtp, generated, expired, started>>

\* Mutant of StillThatCode: the status is repeated and the code is not.
AnyCodeWillDo(b, n) == n \in Code /\ status[b] = "CONFIRMED"

StillThatCode(b, n) == startOtp[b] = n /\ status[b] = "CONFIRMED"

VerifyRight(c, b) ==
  LET n == call[c].code IN
  /\ At(c, "right", b)
  /\ StillThatCode(b, n)
  /\ status' = [status EXCEPT ![b] = "IN_PROGRESS"]
  /\ startOtp' = [startOtp EXCEPT ![b] = 0]
  /\ otpAttempts' = [otpAttempts EXCEPT ![b] = 0]
  /\ started' = [started EXCEPT ![b][n] = @ + 1]
  /\ Done(c)
  /\ UNCHANGED <<generated, expired>>

RegenerateRead(c, b) ==
  /\ status[b] = "CONFIRMED"
  /\ Begin(c, "regenerate", b, 0)
  /\ UNCHANGED <<rowVars, started>>

RegenerateWrite(c, b) ==
  /\ At(c, "regenerate", b)
  /\ status[b] = "CONFIRMED"
  /\ generated[b] < MaxCode
  /\ generated' = [generated EXCEPT ![b] = @ + 1]
  /\ startOtp' = [startOtp EXCEPT ![b] = generated[b] + 1]
  /\ expired' = [expired EXCEPT ![b] = FALSE]
  /\ otpAttempts' = [otpAttempts EXCEPT ![b] = 0]
  /\ Done(c)
  /\ UNCHANGED <<status, started>>

TimePasses(b) ==
  /\ ~expired[b]
  /\ expired' = [expired EXCEPT ![b] = TRUE]
  /\ UNCHANGED <<status, startOtp, generated, otpAttempts, started, call>>

\* Completion and the cancellations, which leave the code alone.
BookingCloses(b) ==
  /\ status[b] # "closed"
  /\ status' = [status EXCEPT ![b] = "closed"]
  /\ UNCHANGED <<startOtp, generated, otpAttempts, expired, started, call>>

StartBookingWithOtp(c, b) ==
  \/ \E n \in Code : VerifyRead(c, b, n)
  \/ VerifyWrong(c, b) \/ VerifyRight(c, b)

RegenerateOtp(c, b) == RegenerateRead(c, b) \/ RegenerateWrite(c, b)

Next ==
  \/ \E c \in Caller, b \in Booking : StartBookingWithOtp(c, b) \/ RegenerateOtp(c, b)
  \/ \E b \in Booking : TimePasses(b) \/ BookingCloses(b)
  \/ \E c \in Caller : CallDies(c)

Spec == Init /\ [][Next]_vars

(***************************************************************************)
(* Properties                                                              *)
(***************************************************************************)

Contract == INSTANCE OneTimeCode
  WITH Subject <- Booking, MaxWrong <- MAX_OTP_ATTEMPTS, current <- startOtp,
       issued <- generated, wrong <- otpAttempts, accepted <- started

\* However the attempts, the right code and a new code overtake each other: a code
\* starts the job once, while it is the code of now, and the attempts never pass the
\* limit.
ImplementsOneTimeCode == Contract!Spec
=============================================================================
