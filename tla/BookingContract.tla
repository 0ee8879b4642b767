----------------------------- MODULE BookingContract -----------------------------
(***************************************************************************)
(* What a booking promises its customer and its helper, without the        *)
(* requests, sweeps and rows that keep the promise.                        *)
(*                                                                         *)
(* Funds are what is on record of the customer's money, not the money      *)
(* itself.  They are held in the very step that books the helper, are      *)
(* held for as long as the job is booked, worked on or done, go back to    *)
(* the customer only in the step that closes the booking, and a closed     *)
(* booking never opens again.                                              *)
(***************************************************************************)
CONSTANT Booking

VARIABLES
  phase,   \* "unpaid", "booked", "working", "done" or "closed"
  funds    \* "none", "held", "returned" or "released"

cvars == <<phase, funds>>

Phase == {"unpaid", "booked", "working", "done", "closed"}
Funds == {"none", "held", "returned", "released"}

Init ==
  /\ phase = [b \in Booking |-> "unpaid"]
  /\ funds = [b \in Booking |-> "none"]

Move(b, from, to) ==
  /\ phase[b] = from
  /\ phase' = [phase EXCEPT ![b] = to]

\* Booking the helper and holding the money are one step.
Book(b) ==
  /\ Move(b, "unpaid", "booked")
  /\ funds[b] = "none"
  /\ funds' = [funds EXCEPT ![b] = "held"]

StartWork(b) == Move(b, "booked", "working") /\ UNCHANGED funds

FinishWork(b) == Move(b, "working", "done") /\ UNCHANGED funds

\* Closing may return money that is held, and returns none that is not there.
Close(b) ==
  /\ phase[b] # "closed"
  /\ phase' = [phase EXCEPT ![b] = "closed"]
  /\ \/ UNCHANGED funds
     \/ funds[b] # "none" /\ funds' = [funds EXCEPT ![b] = "returned"]

\* The helper is paid for a job that was done.
Release(b) ==
  /\ phase[b] \in {"done", "closed"}
  /\ funds[b] # "none"
  /\ funds' = [funds EXCEPT ![b] = "released"]
  /\ UNCHANGED phase

Next ==
  \E b \in Booking :
    Book(b) \/ StartWork(b) \/ FinishWork(b) \/ Close(b) \/ Release(b)

Spec == Init /\ [][Next]_cvars
=============================================================================
