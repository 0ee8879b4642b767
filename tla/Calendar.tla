------------------------------- MODULE Calendar -------------------------------
(***************************************************************************)
(* When a helper works.  A request names its time twice: requestedDate, an *)
(* instant, and requestedTime, a slot of the day in India.  The checks     *)
(* compare the instant with the bookings there are; the booking starts at  *)
(* the slot of the server's day (UTC) of that instant.                     *)
(*                                                                         *)
(* One helper; another's bookings are not looked at.  The unit of time is  *)
(* the half hour, counted from a midnight in UTC.                          *)
(***************************************************************************)
EXTENDS Naturals

CONSTANTS
  Request,
  DayLength,            \* 48
  IstOffset,            \* how far India is ahead of UTC: 11
  FirstSlot, LastSlot,  \* the slots of a day in India: 12 (06:00 AM) to 40 (08:00 PM)
  MaxHours,             \* 12
  GapHours,             \* PlatformSetting.helperBookingGapHours
  Instant,              \* the instants asked for
  MaxNow,               \* bound: how far the clock goes
  NoAsk                 \* the request was not created

CalendarAssumption ==
  /\ {DayLength, IstOffset, FirstSlot, LastSlot, MaxHours, GapHours, MaxNow} \subseteq Nat
  /\ Instant \subseteq Nat
  /\ IstOffset <= FirstSlot /\ LastSlot < DayLength

VARIABLES
  asked,      \* what each request asks for
  sent,       \* the requests sent to the helper
  before,     \* history: his bookings when a request was sent to him
  booking,    \* the status of the request's booking with him
  available,  \* Helper.isAvailable
  now

vars == <<asked, sent, before, booking, available, now>>

Hour == 2
Slot == {s \in FirstSlot .. LastSlot : s % Hour = 0}
Ask == [at : Instant, slot : Slot, hours : 1 .. MaxHours]

Busy == {"PENDING_PAYMENT", "CONFIRMED", "IN_PROGRESS"}
Counted == Busy \cup {"COMPLETED"}

CalendarTypeOK ==
  /\ asked \in [Request -> Ask \cup {NoAsk}]
  /\ sent \in SUBSET Request
  /\ before \in [Request -> SUBSET Request]
  /\ booking \in [Request -> Counted \cup {"none", "CANCELLED"}]
  /\ available \in BOOLEAN
  /\ now \in 0 .. MaxNow

Init ==
  /\ asked = [r \in Request |-> NoAsk]
  /\ sent = {}
  /\ before = [r \in Request |-> {}]
  /\ booking = [r \in Request |-> "none"]
  /\ available = TRUE
  /\ now = 0

\* The server's day of the instant, with the slot put to it, taken back from India.
SlotOfDay(at, slot) == DayLength * (at \div DayLength) + slot - IstOffset

StartTime(r) == SlotOfDay(asked[r].at, asked[r].slot)
EndTime(r) == StartTime(r) + Hour * asked[r].hours

\* Fixed slots, and an hour's notice of the instant.
Create(r, ask) ==
  /\ asked[r] = NoAsk
  /\ ask.at >= now + Hour
  /\ asked' = [asked EXCEPT ![r] = ask]
  /\ UNCHANGED <<sent, before, booking, available, now>>

\* Mutant of AskedUntil: the hours are forgotten.
AskedNotFor(r) == asked[r].at

AskedUntil(r) == asked[r].at + Hour * asked[r].hours

HasConflict(r) ==
  \E q \in Request :
    /\ booking[q] \in Busy
    /\ StartTime(q) < AskedUntil(r)
    /\ EndTime(q) > asked[r].at

\* The booking that ends last decides.
ViolatesGap(r) ==
  \E q \in Request :
    booking[q] \in Counted /\ asked[r].at < EndTime(q) + Hour * GapHours

StartsSoon ==
  \E q \in Request :
    booking[q] = "CONFIRMED" /\ StartTime(q) > now /\ StartTime(q) <= now + 1

\* Found by the search, of the first batch or of a later one.
Send(r) ==
  /\ asked[r] # NoAsk
  /\ booking[r] = "none"
  /\ ~HasConflict(r) /\ ~StartsSoon /\ ~ViolatesGap(r)
  /\ sent' = sent \cup {r}
  /\ before' = [before EXCEPT ![r] = {q \in Request : booking[q] \in Counted}]
  /\ UNCHANGED <<asked, booking, available, now>>

\* By a helper it was sent to or not.  He is locked while his bookings are looked at.
Accept(r) ==
  /\ asked[r] # NoAsk
  /\ booking[r] = "none"
  /\ available
  /\ ~HasConflict(r)
  /\ available' = FALSE
  /\ booking' = [booking EXCEPT ![r] = "PENDING_PAYMENT"]
  /\ UNCHANGED <<asked, sent, before, now>>

BookingMoves(r, status) ==
  /\ <<booking[r], status>> \in
       {<<"PENDING_PAYMENT", "CONFIRMED">>, <<"CONFIRMED", "IN_PROGRESS">>,
        <<"IN_PROGRESS", "COMPLETED">>} \cup (Busy \X {"CANCELLED"})
  /\ booking' = [booking EXCEPT ![r] = status]
  /\ UNCHANGED <<asked, sent, before, available, now>>

\* The administrator approves the helper again.
Reapprove ==
  /\ ~available
  /\ available' = TRUE
  /\ UNCHANGED <<asked, sent, before, booking, now>>

Tick ==
  /\ now < MaxNow
  /\ now' = now + 1
  /\ UNCHANGED <<asked, sent, before, booking, available>>

Next ==
  \/ \E r \in Request :
       \/ \E ask \in Ask : Create(r, ask)
       \/ Send(r) \/ Accept(r)
       \/ \E status \in Counted \cup {"CANCELLED"} : BookingMoves(r, status)
  \/ Reapprove \/ Tick

Spec == Init /\ [][Next]_vars

(***************************************************************************)
(* Properties                                                              *)
(***************************************************************************)

\* The instant asked for is the slot asked for, on some day in India.
InStep(r) ==
  asked[r] # NoAsk /\ (asked[r].at + IstOffset) % DayLength = asked[r].slot

\* A request whose two times agree is booked for that time; two such bookings of a helper
\* never overlap while they are open, and one that was sent to him leaves the gap after
\* each booking he then had.  Nothing of this holds of requests whose times differ.
SlotsKeepApart ==
  \A r \in {s \in Request : InStep(s)} :
    /\ StartTime(r) = asked[r].at
    /\ \A q \in Request \ {r} :
         InStep(q) /\ booking[q] \in Busy /\ booking[r] \in Busy =>
           EndTime(q) <= StartTime(r) \/ EndTime(r) <= StartTime(q)
    /\ r \in sent =>
         \A q \in before[r] : StartTime(r) >= EndTime(q) + Hour * GapHours
=============================================================================
