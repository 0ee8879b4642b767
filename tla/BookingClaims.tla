------------------------------ MODULE BookingClaims ------------------------------
(***************************************************************************)
(* What comments and documents of the repository say of the booking and    *)
(* payment handlers, and the code does not do.  Each is checked by a run   *)
(* of its own, which TLC refutes with the interleaving that breaks it.     *)
(***************************************************************************)
EXTENDS BookingPayment

\* "marking FAILED on a payment whose booking was already handled concurrently is
\* benign and correct" (booking-dispatch.service.ts:1266): the expiry sweep would
\* leave the captured payment of a booking that is no longer waiting alone.
ExpiryIsBenign ==
  [][\A h \in Handler, b \in Booking :
       ExpireWrite(h, b) => ~(payment[b] = "CAPTURED" /\ payment'[b] = "FAILED")]_vars

\* "CRITICAL: Do NOT allow cancellation if payment is CAPTURED"
\* (booking.service.ts:170): no customer cancellation of a captured payment.
CustomerNeverCancelsCaptured ==
  [][\A h \in Handler, b \in Booking :
       CustomerCancelWrite(h, b) /\ status[b] # "CANCELLED" => payment[b] # "CAPTURED"]_vars
=============================================================================
