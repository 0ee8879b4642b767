------------------------------ MODULE DispatchOffer ------------------------------
(***************************************************************************)
(* What the dispatch promises, without helpers that are asked, batches and *)
(* deadlines: a request is an offer that one helper may take while it is   *)
(* open.  The taker never changes, an offer that was closed is never taken,*)
(* and with the offer the customer's other open offers are closed.         *)
(***************************************************************************)
CONSTANTS Request, Helper, NoHelper

VARIABLES
  customer,   \* whose request it is
  state,      \* "none", "open", "taken" or "closed"
  taker       \* the helper who took it

ovars == <<customer, state, taker>>

Init ==
  /\ state = [r \in Request |-> "none"]
  /\ taker = [r \in Request |-> NoHelper]

Open(r) ==
  /\ state[r] = "none"
  /\ state' = [state EXCEPT ![r] = "open"]
  /\ UNCHANGED <<customer, taker>>

Close(r) ==
  /\ state[r] = "open"
  /\ state' = [state EXCEPT ![r] = "closed"]
  /\ UNCHANGED <<customer, taker>>

Take(r, h) ==
  /\ state[r] = "open"
  /\ state' = [q \in Request |->
                 IF q = r THEN "taken"
                 ELSE IF customer[q] = customer[r] /\ state[q] = "open" THEN "closed"
                 ELSE state[q]]
  /\ taker' = [taker EXCEPT ![r] = h]
  /\ UNCHANGED customer

Next == \E r \in Request : Open(r) \/ Close(r) \/ \E h \in Helper : Take(r, h)

Spec == Init /\ [][Next]_ovars
=============================================================================
